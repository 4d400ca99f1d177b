---------------------------- MODULE ProviderStep ----------------------------
(***************************************************************************)
(* One step of a pipeline executed by BaseProvider.invoke() (its async     *)
(* twin ainvoke() takes the same decisions): submit a generation job to an *)
(* upstream service, checkpoint the prediction id through the caller's     *)
(* on_submit callback, poll until the job is done, fetch the output.  Two  *)
(* layers of retry are nested: every phase is retried up to MaxAttempts    *)
(* times (RetryPolicy), and the whole step up to MaxRetries times          *)
(* (config["max_retries"]).  Once an id is known, a step retry resumes     *)
(* that job and must never submit another: a second submit is billed.      *)
(*                                                                         *)
(* The worker may crash at any point.  A restarted worker follows the      *)
(* queue integration pattern: with a saved checkpoint it calls resume(),   *)
(* which polls and fetches without any step retry; without one it runs     *)
(* the step again from the beginning.                                      *)
(*                                                                         *)
(* Elapsed time is kept saturated at Timeout, which is exact: the code     *)
(* only ever compares elapsed, or elapsed plus a delay, with the timeout.  *)
(***************************************************************************)
EXTENDS Naturals, Sequences

CONSTANTS
  Codes,            \* normalised ProviderErrorCode values
  RetryableCodes,   \* RetryPolicy.retryable_codes
  TimeoutCode,      \* the code a poll timeout message is classified to
  InvalidInput,     \* the code of a submit() that returned no id
  MaxAttempts,      \* RetryPolicy.max_attempts, calls per phase
  MaxRetries,       \* config["max_retries"], retries of the whole step
  Timeout,          \* config["timeout"], in ticks
  PollInterval,     \* wait between two polls, in ticks
  CallTimes,        \* how long one call to the provider may take
  Delays,           \* backoffs: jitter makes them any value of a range
  IsSync,           \* a SyncProvider: submit() produces the output itself
  MaxCrashes        \* bound on worker crashes

ASSUME CodesAssumption ==
  /\ RetryableCodes \subseteq Codes
  /\ TimeoutCode \in Codes
  /\ InvalidInput \in Codes

ASSUME BudgetAssumption ==
  /\ MaxAttempts \in Nat \ {0}
  /\ MaxRetries \in Nat
  /\ MaxCrashes \in Nat
  /\ IsSync \in BOOLEAN

ASSUME TimeAssumption ==
  /\ Timeout \in Nat
  /\ PollInterval \in Nat \ {0}
  /\ CallTimes \subseteq Nat
  /\ Delays \subseteq Nat

NoId == 0       \* prediction ids number the upstream jobs from 1
NoCode == "none"

VARIABLES
  pc,             \* where the worker is in invoke() or resume()
  mode,           \* "invoke" or "resume", the entry point it runs
  attempt,        \* step-level attempt of invoke(), from 0
  route,          \* "submit" or "resume": how this attempt gets to its job
  tries,          \* attempt of the current phase, from 1
  now,            \* time.monotonic() - start_time, saturated at Timeout
  preflightDone,  \* BaseProvider._preflight_done
  retryId,        \* _StepRetryState.prediction_id
  target,         \* the prediction id being checkpointed, polled, fetched
  saved,          \* what on_submit persisted; survives a crash
  step,           \* status, error_code and assets of the Step
  terminal,       \* the terminal progress event fired, "none" before it
  upstream,       \* external: state of each job the service has created
  jobsBefore,     \* history: jobs that existed when this worker started
  crashes

vars == <<pc, mode, attempt, route, tries, now, preflightDone, retryId, target, saved,
          step, terminal, upstream, jobsBefore, crashes>>

incarnation == <<mode, jobsBefore, crashes>>

Status == {"PENDING", "SUBMITTED", "PROCESSING", "SUCCEEDED", "FAILED"}
JobState == {"running", "done", "failed"}
Locations == {"begin", "submit", "checkpoint", "poll", "fetch", "returned", "down"}

NewStep == [status |-> "PENDING", code |-> NoCode, assets |-> FALSE]

Saturate(t) == IF t < Timeout THEN t ELSE Timeout

(* How a provider call ends: after d ticks, at time t. *)
Elapsed(d) == Saturate(now + d)

Init ==
  /\ pc = "begin"
  /\ mode = "invoke"
  /\ attempt = 0
  /\ route = "submit"
  /\ tries = 1
  /\ now = 0
  /\ preflightDone = FALSE
  /\ retryId = NoId
  /\ target = NoId
  /\ saved = NoId
  /\ step = NewStep
  /\ terminal = "none"
  /\ upstream = <<>>
  /\ jobsBefore = 0
  /\ crashes = 0

-----------------------------------------------------------------------------
(* The two retry layers. *)

(* Terminal failure: record the code on the step, fire "failed", return. *)
FailStep(code) ==
  /\ step' = [step EXCEPT !.status = "FAILED", !.code = code]
  /\ terminal' = "failed"
  /\ pc' = "returned"
  /\ UNCHANGED <<attempt, route, tries>>

NextAttempt_Resubmits(id) ==
  /\ attempt' = attempt + 1
  /\ tries' = 1
  /\ step' = NewStep
  /\ route' = "submit"
  /\ pc' = "begin"
  /\ UNCHANGED terminal

NextAttempt_Uncounted(id) ==
  /\ attempt' = attempt
  /\ tries' = 1
  /\ step' = NewStep
  /\ route' = IF id # NoId THEN "resume" ELSE "submit"
  /\ pc' = IF id # NoId THEN "checkpoint" ELSE "begin"
  /\ UNCHANGED terminal

(* The next pass of invoke's loop: reset the step, then resume the job if  *)
(* an id is known, otherwise make a fresh attempt.                         *)
NextAttempt(id) ==
  /\ attempt' = attempt + 1
  /\ tries' = 1
  /\ step' = NewStep
  /\ route' = IF id # NoId THEN "resume" ELSE "submit"
  /\ pc' = IF id # NoId THEN "checkpoint" ELSE "begin"
  /\ UNCHANGED terminal

(* invoke's except clause for an error that left a phase at time t.  The   *)
(* entry point resume() has no step-level retry: it records the failure.   *)
StepError(code, t, id) ==
  \/ /\ \/ mode = "resume"
        \/ code \notin RetryableCodes
        \/ attempt >= MaxRetries
     /\ FailStep(code)
     /\ now' = t
  \/ /\ mode = "invoke"
     /\ code \in RetryableCodes
     /\ attempt < MaxRetries
     /\ \E backoff \in Delays :
          IF t + backoff >= Timeout
          THEN FailStep(code) /\ now' = t
          ELSE NextAttempt(id) /\ now' = t + backoff

MayRetry(eligible) == eligible /\ tries < MaxAttempts

(* _retry_phase: one call failed with a code; `eligible` is the phase's    *)
(* own rule on the exception.  The retry happens only within the budget    *)
(* and before the timeout, otherwise the error leaves the phase.           *)
PhaseError(code, eligible, t) ==
  \/ /\ ~MayRetry(eligible)
     /\ StepError(code, t, retryId)
  \/ /\ MayRetry(eligible)
     /\ \E delay \in Delays :
          IF t + delay >= Timeout
          THEN StepError(code, t, retryId)
          ELSE /\ tries' = tries + 1
               /\ now' = t + delay
               /\ UNCHANGED <<pc, attempt, route, step, terminal>>

-----------------------------------------------------------------------------
(* The phases of an attempt. *)

(* Start of _attempt_once: preflight_auth runs once per provider instance  *)
(* and is marked done even when it raises.                                 *)
Preflight ==
  /\ pc = "begin"
  /\ preflightDone' = TRUE
  /\ \/ /\ pc' = "submit"
        /\ step' = [step EXCEPT !.status = "SUBMITTED"]
        /\ \E d \in CallTimes : now' = Elapsed(d)
        /\ UNCHANGED <<attempt, route, tries, terminal>>
     \/ /\ ~preflightDone
        /\ \E code \in Codes, d \in CallTimes : StepError(code, Elapsed(d), retryId)
  /\ UNCHANGED <<retryId, target, saved, upstream, incarnation>>

(* submit() returned an id: the service created a job.  The id is recorded *)
(* as retry authority before the checkpoint callback runs.                 *)
SubmitReturns ==
  /\ pc = "submit"
  /\ upstream' = Append(upstream, IF IsSync THEN "done" ELSE "running")
  /\ target' = Len(upstream')
  /\ retryId' = Len(upstream')
  /\ step' = [step EXCEPT !.assets = IsSync]
  /\ pc' = "checkpoint"
  /\ \E d \in CallTimes : now' = Elapsed(d)
  /\ UNCHANGED <<attempt, route, tries, terminal, preflightDone, saved, incarnation>>

(* submit() raised before the request reached the service: the only        *)
(* submit error _retry_phase repeats, whatever its code.                   *)
SubmitNotSent ==
  /\ pc = "submit"
  /\ \E code \in Codes, d \in CallTimes : PhaseError(code, TRUE, Elapsed(d))
  /\ UNCHANGED <<preflightDone, retryId, target, saved, upstream, incarnation>>

(* submit() raised after the request was sent, or returned an empty id:    *)
(* the service may have created a job this process will never know.        *)
SubmitLost ==
  /\ pc = "submit"
  /\ upstream' \in {upstream, Append(upstream, "running")}
  /\ \E code \in Codes, d \in CallTimes : PhaseError(code, FALSE, Elapsed(d))
  /\ UNCHANGED <<preflightDone, retryId, target, saved, incarnation>>

SubmitEmptyId ==
  /\ pc = "submit"
  /\ upstream' \in {upstream, Append(upstream, "running")}
  /\ \E d \in CallTimes : StepError(InvalidInput, Elapsed(d), retryId)
  /\ UNCHANGED <<preflightDone, retryId, target, saved, incarnation>>

(* on_submit persisted (step_id, prediction_id).  The time it takes covers *)
(* the wait before the first poll when the provider estimated a duration.  *)
CheckpointSaved ==
  /\ pc = "checkpoint"
  /\ saved' = target
  /\ step' = [step EXCEPT !.status = "PROCESSING"]
  /\ tries' = 1
  /\ pc' = "poll"
  /\ \E d \in CallTimes : now' = Elapsed(d)
  /\ UNCHANGED <<attempt, route, terminal, preflightDone, retryId, target, upstream, incarnation>>

CheckpointFails_Swallowed ==
  /\ pc = "checkpoint"
  /\ saved' \in {saved, target}
  /\ pc' = "poll"
  /\ step' = [step EXCEPT !.status = "PROCESSING"]
  /\ UNCHANGED <<attempt, route, tries, now, terminal, preflightDone, retryId, target,
                 upstream, incarnation>>

(* on_submit raised, before or after it had persisted the id: an error of  *)
(* the attempt, not of a phase.                                            *)
CheckpointFails ==
  /\ pc = "checkpoint"
  /\ saved' \in {saved, target}
  /\ \E code \in Codes, d \in CallTimes : StepError(code, Elapsed(d), retryId)
  /\ UNCHANGED <<preflightDone, retryId, target, upstream, incarnation>>

(* poll() answered that the job is over. *)
PollDone ==
  /\ pc = "poll"
  /\ upstream[target] # "running"
  /\ pc' = "fetch"
  /\ tries' = 1
  /\ \E d \in CallTimes : now' = Elapsed(d)
  /\ UNCHANGED <<attempt, route, step, terminal, preflightDone, retryId, target, saved,
                 upstream, incarnation>>

(* poll() answered that it is not: give up at the timeout, otherwise sleep *)
(* and poll again with a new phase budget.                                 *)
PollPending ==
  /\ pc = "poll"
  /\ upstream[target] = "running"
  /\ \E d \in CallTimes :
       \/ /\ Elapsed(d) >= Timeout
          /\ StepError(TimeoutCode, Elapsed(d), retryId)
       \/ /\ Elapsed(d) < Timeout
          /\ now' = Saturate(Elapsed(d) + PollInterval)
          /\ tries' = 1
          /\ UNCHANGED <<pc, attempt, route, step, terminal>>
  /\ UNCHANGED <<preflightDone, retryId, target, saved, upstream, incarnation>>

(* poll() or fetch_output() raised: retried on the policy's codes. *)
PollFetchError ==
  /\ pc \in {"poll", "fetch"}
  /\ ~IsSync
  /\ \E code \in Codes, d \in CallTimes :
       PhaseError(code, code \in RetryableCodes, Elapsed(d))
  /\ UNCHANGED <<preflightDone, retryId, target, saved, upstream, incarnation>>

(* fetch_output() attached the output.  A SyncProvider's fetch returns the *)
(* very Step generate() filled, with whatever assets it still carries.     *)
FetchSucceeds ==
  /\ pc = "fetch"
  /\ upstream[target] = "done"
  /\ step' = [step EXCEPT !.status = "SUCCEEDED", !.assets = IF IsSync THEN @ ELSE TRUE]
  /\ terminal' = "succeeded"
  /\ pc' = "returned"
  /\ \E d \in CallTimes : now' = Elapsed(d)
  /\ UNCHANGED <<attempt, route, tries, preflightDone, retryId, target, saved, upstream, incarnation>>

FetchReportsFailure_Ignored ==
  /\ pc = "fetch"
  /\ upstream[target] = "failed"
  /\ step' = [step EXCEPT !.status = "SUCCEEDED", !.assets = TRUE]
  /\ terminal' = "succeeded"
  /\ pc' = "returned"
  /\ UNCHANGED <<attempt, route, tries, now, preflightDone, retryId, target, saved,
                 upstream, incarnation>>

(* fetch_output() set the step FAILED without raising: returned as it is,  *)
(* never retried.  _attempt_once still fires "succeeded" for it, the       *)
(* resume paths fire "failed".                                             *)
FetchReportsFailure ==
  /\ pc = "fetch"
  /\ upstream[target] = "failed"
  /\ step' = [step EXCEPT !.status = "FAILED"]
  /\ terminal' = IF route = "resume" THEN "failed" ELSE "succeeded"
  /\ pc' = "returned"
  /\ \E d \in CallTimes : now' = Elapsed(d)
  /\ UNCHANGED <<attempt, route, tries, preflightDone, retryId, target, saved, upstream, incarnation>>

-----------------------------------------------------------------------------
(* The environment: the upstream service, crashes and the queue worker. *)

JobEnds(j) ==
  /\ upstream[j] = "running"
  /\ \E s \in {"done", "failed"} : upstream' = [upstream EXCEPT ![j] = s]
  /\ UNCHANGED <<pc, attempt, route, tries, now, preflightDone, retryId, target, saved,
                 step, terminal, incarnation>>

Crash ==
  /\ pc \notin {"returned", "down"}
  /\ crashes < MaxCrashes
  /\ crashes' = crashes + 1
  /\ pc' = "down"
  /\ UNCHANGED <<mode, attempt, route, tries, now, preflightDone, retryId, target, saved,
                 step, terminal, upstream, jobsBefore>>

Restart_ForgetsCheckpoint ==
  /\ pc = "down"
  /\ attempt' = 0 /\ tries' = 1 /\ now' = 0
  /\ preflightDone' = FALSE
  /\ retryId' = NoId /\ target' = NoId
  /\ terminal' = "none"
  /\ jobsBefore' = Len(upstream)
  /\ mode' = "invoke" /\ route' = "submit" /\ pc' = "begin" /\ step' = NewStep
  /\ UNCHANGED <<saved, upstream, crashes>>

(* A new process picks the work up: nothing but the checkpoint is left. *)
Restart ==
  /\ pc = "down"
  /\ attempt' = 0
  /\ tries' = 1
  /\ now' = 0
  /\ preflightDone' = FALSE
  /\ retryId' = NoId
  /\ target' = saved
  /\ terminal' = "none"
  /\ jobsBefore' = Len(upstream)
  /\ IF saved # NoId
     THEN /\ mode' = "resume"
          /\ route' = "resume"
          /\ pc' = "poll"
          /\ step' = [NewStep EXCEPT !.status = "PROCESSING"]
     ELSE /\ mode' = "invoke"
          /\ route' = "submit"
          /\ pc' = "begin"
          /\ step' = NewStep
  /\ UNCHANGED <<saved, upstream, crashes>>

(* The call returned to its caller; nothing is left to do. *)
Returned == pc = "returned" /\ UNCHANGED vars

Worker ==
  \/ Preflight
  \/ SubmitReturns \/ SubmitNotSent \/ SubmitLost \/ SubmitEmptyId
  \/ CheckpointSaved \/ CheckpointFails
  \/ PollDone \/ PollPending \/ PollFetchError
  \/ FetchSucceeds \/ FetchReportsFailure
  \/ Restart

Next ==
  \/ Worker
  \/ \E j \in DOMAIN upstream : JobEnds(j)
  \/ Crash
  \/ Returned

(* The worker's calls return and a crashed worker is restarted; the        *)
(* upstream service owes nothing.                                          *)
Spec == Init /\ [][Next]_vars /\ WF_vars(Worker)

-----------------------------------------------------------------------------
(* Properties. *)

TypeOK ==
  /\ pc \in Locations
  /\ mode \in {"invoke", "resume"}
  /\ attempt \in 0..MaxRetries
  /\ route \in {"submit", "resume"}
  /\ tries \in 1..MaxAttempts
  /\ now \in 0..Timeout
  /\ preflightDone \in BOOLEAN
  /\ upstream \in Seq(JobState)
  /\ retryId \in 0..Len(upstream)
  /\ target \in 0..Len(upstream)
  /\ saved \in 0..Len(upstream)
  /\ step \in [status : Status, code : Codes \cup {NoCode}, assets : BOOLEAN]
  /\ terminal \in {"none", "succeeded", "failed"}
  /\ jobsBefore \in 0..Len(upstream)
  /\ crashes \in 0..MaxCrashes

(* Checkpoint before poll: whatever mix of retries, failing callbacks and  *)
(* crashes came before, a job is polled or fetched only when its id is the *)
(* one on_submit persisted, so a crash at that point loses no job.         *)
CheckpointBeforePoll ==
  pc \in {"poll", "fetch"} => target # NoId /\ saved = target

(* Double billing is bounded: a worker creates at most one upstream job    *)
(* per step-level attempt.  The phase retry of submit never replays a      *)
(* request that may have reached the service.                              *)
OneJobPerAttempt ==
  Len(upstream) <= jobsBefore + attempt + (IF pc \in {"begin", "submit"} THEN 0 ELSE 1)

(* No double billing of a known job: from the moment an id is recorded for *)
(* this invocation, or persisted for a later one, no submit creates a job. *)
NoResubmitOfKnownJob ==
  [][Len(upstream') > Len(upstream) => retryId = NoId /\ saved = NoId]_vars

(* A step that reports SUCCEEDED rests on a finished upstream job, the one *)
(* the checkpoint names.                                                   *)
SuccessIsBacked ==
  step.status = "SUCCEEDED" => /\ target # NoId
                               /\ saved = target
                               /\ upstream[target] = "done"

(* A step that reports SUCCEEDED carries the output its job produced, on   *)
(* the first attempt as on a resumed one.                                  *)
SuccessCarriesOutput == step.status = "SUCCEEDED" => step.assets

(* A call that returned told its on_progress listener so, and never told  *)
(* it "failed" of a step that succeeded, whichever retry layer or resume   *)
(* path ended the call.  (The converse fails in the code: see              *)
(* FetchReportsFailure.)                                                   *)
TerminalProgress ==
  pc = "returned" => /\ terminal # "none"
                     /\ terminal = "failed" => step.status = "FAILED"
                     /\ step.status = "SUCCEEDED" => terminal = "succeeded"

(* Liveness, under the fairness of Spec alone.  The call always returns:   *)
(* attempts, phases and polling are all bounded, even when the upstream    *)
(* job never ends.                                                         *)
AlwaysReturns == <>(pc = "returned")

(* The step as its caller sees it: the checkpoint and the result. *)
Contract == INSTANCE StepContract WITH
  job <- saved,
  outcome <- IF pc = "returned" THEN step.status ELSE "none"

(* Every retry, failure and crash of the step implements the contract a    *)
(* checkpointing caller relies on: one job per step, bound once and for    *)
(* good, and success only for a bound step.                                *)
ImplementsContract == Contract!Spec

=============================================================================
