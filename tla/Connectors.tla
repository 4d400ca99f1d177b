----------------------------- MODULE Connectors -----------------------------
(***************************************************************************)
(* One step through one provider connector, any of them: invoke() with its *)
(* phase retries and step retries, a crash after the job was submitted,    *)
(* and resume() on the same or on a fresh provider instance.  What the     *)
(* connector does in submit(), poll(), fetch_output() or generate() is     *)
(* read from its record in ConnectorTraits; here are the steps, and the    *)
(* places where a request may fail between them.  ProviderStep has the     *)
(* lifecycle itself in detail, with an abstract provider.                  *)
(***************************************************************************)
EXTENDS ConnectorTraits, Sequences, SequencesExt

CONSTANTS
  MaxRetries, \* config["max_retries"]
  Restarts,   \* crashes and later resumes considered
  Ceiling,    \* polls a GMICloud job may take, for max_poll_seconds
  SeenMax,    \* _POLL_FIRST_SEEN_MAX
  Others      \* other GMICloud jobs polled through the same provider

VARIABLES
  name,     \* the connector
  dir,      \* it was given an output_dir
  pc,       \* what the provider instance is doing
  job,      \* the generation, as the service has it
  known,    \* the prediction id is known (recorded and checkpointed)
  answered, \* generations the service accepted and said so, in this invoke
  cache,    \* the poll cache holds the terminal answer for this id
  got,      \* what fetch_output() has read so far
  next,     \* the output to attach next
  assets,   \* step.assets, as indexes of the generation's outputs
  files,    \* outputs written under their final name in output_dir
  images,   \* remote input images of the step
  fetched,  \* those the running call has downloaded
  temps,    \* temporary files of inputs on disk
  try,      \* attempt of the running phase
  retries,  \* step retries left
  restarts, \* crashes and resumes left
  crashed,  \* the process that submitted is gone
  verdict,  \* step.status, with the class of its error_code
  cause,    \* who is to blame for the last error
  seen,     \* _poll_first_seen: the keys, oldest first
  waited,   \* polls of this job that found it unfinished
  since     \* the value of waited at the recorded first poll

jobVars == <<name, dir, images>>
upVars == <<job, answered, known>>
fetchVars == <<cache, got, next, files>>
inputVars == <<fetched, temps>>
clockVars == <<seen, waited, since>>
vars == <<jobVars, upVars, fetchVars, inputVars, clockVars, pc, assets, try,
          retries, restarts, crashed, verdict, cause>>

T == Connector[name]

NoJob == [status |-> "none", outs |-> 0, odd |-> FALSE]

Init ==
  /\ name \in DOMAIN Connector
  /\ dir \in BOOLEAN
  /\ images \in 0..T.images
  /\ pc = "inputs" /\ job = NoJob /\ known = FALSE /\ answered = 0
  /\ cache = FALSE /\ got = "nothing" /\ next = 1 /\ files = {}
  /\ fetched = 0 /\ temps = 0 /\ assets = <<>>
  /\ try = 1 /\ retries = MaxRetries /\ restarts = Restarts
  /\ crashed = FALSE /\ verdict = "none" /\ cause = "none"
  /\ seen = <<>> /\ waited = 0 /\ since = 0

-----------------------------------------------------------------------------
(* An exception of the running phase.  A transient one is tried again by   *)
(* _retry_phase, in poll and fetch; then by invoke(), which empties        *)
(* step.assets and resumes a known job or submits anew; else it settles    *)
(* the step.                                                               *)

RetryPhase(code) ==
  /\ code = "transient" /\ pc \in {"poll", "fetch"} /\ try < T.tries
  /\ try' = try + 1
  /\ UNCHANGED <<pc, assets, retries, verdict, job, fetched>>

(* Mutant: the retry keeps what the failed attempt attached. *)
RetryStep_KeepsAssets(code) ==
  /\ code = "transient" /\ retries > 0
  /\ pc \notin {"poll", "fetch"} \/ try = T.tries
  /\ retries' = retries - 1
  /\ try' = 1 /\ fetched' = 0
  /\ pc' = IF known THEN "poll" ELSE "inputs"
  /\ job' = IF known THEN job ELSE NoJob
  /\ UNCHANGED <<verdict, assets>>

(* Mutant: the retry submits anew although the id is known. *)
RetryStep_Resubmits(code) ==
  /\ code = "transient" /\ retries > 0
  /\ pc \notin {"poll", "fetch"} \/ try = T.tries
  /\ retries' = retries - 1
  /\ assets' = <<>> /\ try' = 1 /\ fetched' = 0
  /\ pc' = "inputs"
  /\ job' = NoJob
  /\ UNCHANGED verdict

RetryStep(code) ==
  /\ code = "transient" /\ retries > 0
  /\ pc \notin {"poll", "fetch"} \/ try = T.tries
  /\ retries' = retries - 1
  /\ assets' = <<>> /\ try' = 1 /\ fetched' = 0
  /\ pc' = IF known THEN "poll" ELSE "inputs"
  /\ job' = IF known THEN job ELSE NoJob
  /\ UNCHANGED verdict

Settle(code) ==
  /\ \/ code = "permanent"
     \/ retries = 0 /\ (pc \notin {"poll", "fetch"} \/ try = T.tries)
  /\ verdict' = code
  /\ pc' = "over"
  /\ UNCHANGED <<assets, try, retries, job, fetched>>

Error(code, who) ==
  /\ cause' = who
  /\ got' = "nothing" /\ next' = 1
  /\ RetryPhase(code) \/ RetryStep(code) \/ Settle(code)
  /\ UNCHANGED <<jobVars, known, restarts, crashed>>

Goes(to) ==
  /\ pc' = to
  /\ UNCHANGED <<jobVars, retries, restarts, crashed, verdict, cause>>

Succeeds ==
  /\ verdict' = "succeeded" /\ pc' = "over"
  /\ UNCHANGED <<jobVars, upVars, inputVars, clockVars, try, retries,
                 restarts, crashed, cause>>

-----------------------------------------------------------------------------
(* submit(), or the first half of generate(). *)

(* Temporary files the call knows about and unlinks when it ends: DALL-E's *)
(* _materialize_inputs() tells of them only when it has them all.          *)
Registered ==
  IF name = "openai_dalle" /\ fetched < images THEN 0 ELSE fetched

CleanUp == temps' = temps - Registered

InputFetched ==
  /\ pc = "inputs" /\ fetched < images
  /\ fetched' = fetched + 1 /\ temps' = temps + 1
  /\ Goes("inputs")
  /\ UNCHANGED <<upVars, fetchVars, clockVars, assets, try>>

InputFails ==
  /\ pc = "inputs" /\ fetched < images
  /\ CleanUp
  /\ \E code \in Codes : Error(code, "network")
  /\ UNCHANGED <<answered, cache, files, clockVars>>

(* Refused, or accepted with the answer lost or without an id. *)
SubmitFails ==
  /\ pc = "inputs" /\ fetched = images
  /\ CleanUp
  /\ \/ \E code \in Codes : Error(code, "upstream")
     \/ Error("transient", "network")
  /\ UNCHANGED <<answered, cache, files, clockVars>>

Outcomes(s) == [status : {s}, outs : 0..(IF s = "succeeded" THEN T.most ELSE 0),
                odd : IF s = "succeeded" THEN BOOLEAN ELSE {FALSE}]

Accepted ==
  /\ pc = "inputs" /\ fetched = images
  /\ CleanUp
  /\ answered' = answered + 1
  /\ try' = 1
  /\ UNCHANGED <<got, next, files, fetched, clockVars, assets>>

Submitted ==
  /\ T.kind = "job" /\ Accepted
  /\ job' = [NoJob EXCEPT !.status = "running"]
  /\ known' = TRUE
  /\ Goes("poll")
  /\ UNCHANGED cache

(* The output came with the answer: it waits in the poll cache, under an   *)
(* id that means nothing to the service.                                   *)
SubmittedInline ==
  /\ T.inline /\ Accepted
  /\ \E j \in Outcomes("succeeded") : job' = [j EXCEPT !.status = "inline"]
  /\ known' = TRUE /\ cache' = TRUE
  /\ Goes("poll")

(* A SyncProvider's id is known only when generate() has returned. *)
Called ==
  /\ T.kind = "call" /\ Accepted
  /\ job' \in Outcomes("succeeded")
  /\ Goes(IF T.asks = "result" THEN "wait" ELSE "save")
  /\ UNCHANGED <<known, cache>>

JobEnds ==
  /\ job.status = "running"
  /\ \E s \in T.ends \cup DOMAIN T.fails : job' \in Outcomes(s)
  /\ UNCHANGED <<jobVars, known, answered, fetchVars, inputVars, clockVars,
                 pc, assets, try, retries, restarts, crashed, verdict, cause>>

-----------------------------------------------------------------------------
(* poll() *)

Key == "mine"

(* _enforce_poll_deadline(): FIFO-capped, and not cleared on a breach. *)
Noted(key) ==
  IF Contains(seen, key) THEN seen
  ELSE Append(IF Len(seen) >= SeenMax THEN Tail(seen) ELSE seen, key)

Stalled == T.ceiling /\ Contains(seen, Key) /\ waited - since >= Ceiling

PollAgain ==
  /\ pc = "poll" /\ job.status = "running" /\ ~Stalled
  /\ waited < Ceiling + 1
  /\ waited' = waited + 1
  /\ IF T.ceiling
     THEN /\ seen' = Noted(Key)
          /\ since' = IF Contains(seen, Key) THEN since ELSE waited
     ELSE UNCHANGED <<seen, since>>
  /\ try' = 1
  /\ Goes("poll")
  /\ UNCHANGED <<upVars, fetchVars, inputVars, assets>>

(* Mutant: the deadline starts again on a breach. *)
PollStalled_Clears ==
  /\ pc = "poll" /\ job.status = "running" /\ Stalled
  /\ Error("transient", "clock")
  /\ seen' = SelectSeq(seen, LAMBDA k : k # Key)
  /\ UNCHANGED <<answered, cache, files, temps, waited, since>>

PollStalled ==
  /\ pc = "poll" /\ job.status = "running" /\ Stalled
  /\ Error("transient", "clock")
  /\ UNCHANGED <<answered, cache, files, temps, clockVars>>

TimeRunsOut ==
  /\ pc = "poll" /\ job.status = "running" /\ waited > 0
  /\ verdict' = "transient" /\ cause' = "clock" /\ pc' = "over"
  /\ UNCHANGED <<jobVars, upVars, fetchVars, inputVars, clockVars, assets,
                 try, retries, restarts, crashed>>

PollEnds ==
  /\ pc = "poll"
  /\ \/ /\ job.status = "inline"
        /\ UNCHANGED <<cache, seen>>
     \/ /\ job.status \in T.ends
        /\ cache' = TRUE
        /\ seen' = SelectSeq(seen, LAMBDA k : k # Key)
  /\ try' = 1
  /\ Goes("fetch")
  /\ UNCHANGED <<upVars, got, next, files, inputVars, waited, since, assets>>

PollFails ==
  /\ pc = "poll" /\ job.status # "inline"
  /\ \/ Error("transient", "network")
     \/ /\ job.status \in DOMAIN T.fails \ T.ends
        /\ \E code \in T.fails[job.status] : Error(code, "upstream")
  /\ UNCHANGED <<answered, cache, files, temps, clockVars>>

OtherPolled(o) ==
  /\ T.ceiling /\ pc = "poll"
  /\ seen' = Noted(o)
  /\ UNCHANGED <<jobVars, upVars, fetchVars, inputVars, waited, since, pc,
                 assets, try, retries, restarts, crashed, verdict, cause>>

-----------------------------------------------------------------------------
(* fetch_output(), or the second half of generate(). *)

Ended == IF job.status = "inline" THEN "succeeded" ELSE job.status

StatusRead ==
  /\ pc = "fetch" /\ got = "nothing"
  /\ cache \/ job.status # "inline"
  /\ cache' = FALSE
  /\ \/ /\ Ended \in DOMAIN T.fails
        /\ \E code \in T.fails[Ended] : Error(code, "upstream")
        /\ UNCHANGED <<answered, files, temps, clockVars>>
     \/ /\ Ended = "succeeded" /\ job.outs > 0
        /\ got' = "status"
        /\ Goes("fetch")
        /\ UNCHANGED <<upVars, next, files, inputVars, clockVars, assets, try>>

StatusUnread ==
  /\ pc = "fetch" /\ got = "nothing" /\ ~cache
  /\ Error("transient", IF job.status = "inline" THEN "self" ELSE "network")
  /\ UNCHANGED <<answered, cache, files, temps, clockVars>>

(* The answer carries no output: an error to some, nothing to others. *)
NoOutput ==
  /\ Ended = "succeeded" /\ job.outs = 0
  /\ \/ pc = "fetch" /\ got = "nothing" /\ (cache \/ job.status # "inline")
     \/ pc = "save"
  /\ cache' = FALSE
  /\ IF T.empty = "ok"
     THEN Succeeds /\ UNCHANGED <<got, next, files, assets>>
     ELSE /\ Error(T.empty, "upstream")
          /\ UNCHANGED <<answered, files, temps, clockVars>>

ResultRead ==
  /\ T.asks = "result"
  /\ \/ pc = "fetch" /\ got = "status" /\ got' = "result" /\ Goes("fetch")
     \/ pc = "wait" /\ Goes("save") /\ UNCHANGED got
  /\ UNCHANGED <<upVars, cache, next, files, inputVars, clockVars, assets,
                 try>>

ResultUnread ==
  /\ T.asks = "result"
  /\ \/ pc = "fetch" /\ got = "status"
     \/ pc = "wait"
  /\ Error("transient", "network")
  /\ UNCHANGED <<answered, cache, files, temps, clockVars>>

Attaching ==
  /\ job.outs > 0
  /\ \/ pc = "save"
     \/ pc = "fetch" /\ got = (IF T.asks = "result" THEN "result" ELSE "status")

DownloadFails ==
  /\ Attaching /\ T.asks = "each"
  /\ \E code \in Codes : Error(code, "network")
  /\ UNCHANGED <<answered, cache, files, temps, clockVars>>

(* An output that is not a usable URL or payload; the disk refuses. *)
OutputUnusable ==
  /\ Attaching /\ job.odd
  /\ T.attach = "each" => next = job.outs
  /\ Error("permanent", "upstream")
  /\ UNCHANGED <<answered, cache, files, temps, clockVars>>

FileExists ==
  /\ Attaching
  /\ T.place = "new" /\ dir /\ next \in files
  /\ Error("permanent", "self")
  /\ UNCHANGED <<answered, cache, files, temps, clockVars>>

AttachOne ==
  /\ Attaching /\ T.attach = "each"
  /\ ~(job.odd /\ next = job.outs)
  /\ ~(T.place = "new" /\ dir /\ next \in files)
  /\ files' = IF dir /\ T.place \in {"new", "step"} THEN files \cup {next}
              ELSE files
  /\ assets' = Append(assets, next)
  /\ IF next = job.outs
     THEN Succeeds /\ UNCHANGED <<cache, got, next>>
     ELSE /\ next' = next + 1
          /\ Goes(pc)
          /\ UNCHANGED <<upVars, cache, got, inputVars, clockVars, try>>

Every == [i \in 1..job.outs |-> i]

AttachAll ==
  /\ Attaching /\ T.attach # "each" /\ ~job.odd
  /\ assets' = IF T.attach = "replace" THEN Every ELSE assets \o Every
  /\ Succeeds
  /\ UNCHANGED fetchVars

-----------------------------------------------------------------------------
(* A crash once the id is checkpointed, and resume() in a new process with *)
(* the step as it was submitted; or resume() of a failed step, in the same *)
(* process and with the same Step object.                                  *)

Resumes ==
  /\ restarts > 0 /\ restarts' = restarts - 1
  /\ T.kind = "job" /\ known
  /\ pc' = "poll" /\ try' = 1 /\ retries' = 0
  /\ got' = "nothing" /\ next' = 1
  /\ verdict' = "none"
  /\ UNCHANGED <<jobVars, upVars, files, inputVars, cause>>

CrashAndResume ==
  /\ pc \in {"poll", "fetch"}
  /\ Resumes
  /\ crashed' = TRUE
  /\ cache' = FALSE /\ assets' = <<>>
  /\ seen' = <<>> /\ waited' = 0 /\ since' = 0

ResumeFailed ==
  /\ verdict \in Codes
  /\ Resumes
  /\ UNCHANGED <<crashed, cache, assets, clockVars>>

Over == pc = "over" /\ UNCHANGED vars

Next ==
  \/ InputFetched \/ InputFails \/ SubmitFails
  \/ Submitted \/ SubmittedInline \/ Called \/ JobEnds
  \/ PollAgain \/ PollStalled \/ TimeRunsOut \/ PollEnds \/ PollFails
  \/ \E o \in Others : OtherPolled(o)
  \/ StatusRead \/ StatusUnread \/ NoOutput \/ ResultRead \/ ResultUnread
  \/ DownloadFails \/ OutputUnusable \/ FileExists \/ AttachOne \/ AttachAll
  \/ CrashAndResume \/ ResumeFailed
  \/ Over

Spec == Init /\ [][Next]_vars

-----------------------------------------------------------------------------
(* Properties *)

TypeOK ==
  /\ name \in DOMAIN Connector /\ dir \in BOOLEAN /\ images \in 0..T.images
  /\ pc \in {"inputs", "poll", "fetch", "wait", "save", "over"}
  /\ verdict \in {"none", "succeeded"} \cup Codes
  /\ fetched \in 0..images /\ temps \in Nat /\ known \in BOOLEAN

(* A step succeeds only on a generation that did, and step.assets then has *)
(* each of its outputs once and in order, whatever requests failed and     *)
(* were repeated on the way.  Veo without an output_dir is the exception:  *)
(* a repeated fetch_output() attaches the first videos again.              *)
SuccessIsTheJob ==
  verdict = "succeeded" =>
    /\ Ended = "succeeded"
    /\ assets = Every \/ (name = "google_veo" /\ ~dir)

(* A generation that succeeded, with usable outputs, is lost to the step   *)
(* only through requests that failed or time that ran out, never through   *)
(* what the connector did before: a poll answer it consumed, a file it     *)
(* wrote.  Exceptions: Veo with an output_dir, and an answer that came     *)
(* with the submission when the process is gone.                           *)
NoSelfInflictedFailure ==
  verdict \in Codes /\ Ended = "succeeded" /\ job.outs > 0 /\ ~job.odd =>
    \/ cause # "self"
    \/ name = "google_veo" /\ dir
    \/ T.inline /\ crashed

(* One invoke() has one generation accepted and answered: the retries of a *)
(* job connector stay with its id.  A SyncProvider that needs the network  *)
(* after the paid answer pays again.                                       *)
PaidOnce == answered > 1 => T.kind = "call" /\ T.asks # "status"

(* A GMICloud job that never ends is polled no longer than the ceiling,    *)
(* through retries and resumes in the same process, while the provider has *)
(* no more jobs in flight than deadlines it keeps.                         *)
CeilingHolds == T.ceiling /\ pc = "poll" => waited <= Ceiling

=============================================================================
