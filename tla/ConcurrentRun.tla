--------------------------- MODULE ConcurrentRun ---------------------------
(***************************************************************************)
(* Pipeline.arun() with chain=False and no input_from: every step is an    *)
(* asyncio task, optionally behind a semaphore (max_concurrency).  With    *)
(* fail_fast the runner is _gather_fail_fast(): it waits for the first      *)
(* finished task and cancels the others when one failed.  Without it the   *)
(* runner awaits asyncio.gather().  The event loop is single-threaded: a   *)
(* task steps only while the runner is suspended at an await.  A provider  *)
(* call, though, runs in an executor thread (asyncio.to_thread), picked up *)
(* some time after the task asked for it, and cancelling the task does not *)
(* stop a call that was picked up.                                         *)
(*                                                                         *)
(* What happens inside one provider call is ProviderStep's subject; here a *)
(* step returns SUCCEEDED or FAILED or raises.                             *)
(***************************************************************************)
EXTENDS Naturals, FiniteSets

CONSTANTS
  N,           \* number of steps of the pipeline
  Limit,       \* max_concurrency, 0 when unlimited
  Modes,       \* the values of fail_fast
  Interrupts,  \* what may end the run from outside: "timeout", "cancel"
  MayRaise     \* whether a step may raise instead of returning FAILED

ASSUME StepsAssumption == N \in Nat \ {0}
ASSUME LimitAssumption == Limit \in Nat
ASSUME ModeAssumption ==
  /\ Modes \subseteq BOOLEAN
  /\ Interrupts \subseteq {"timeout", "cancel"}
  /\ MayRaise \in BOOLEAN

Steps == 1..N
Limited == Limit > 0

VARIABLES
  failFast,    \* fail_fast
  pc,          \* where arun() is
  task,        \* state of each step's task
  cancelling,  \* tasks whose cancellation was requested
  outcome,     \* what a finished task returned
  permits,     \* free permits of the semaphore
  called,      \* steps whose provider call an executor thread picked up
  results,     \* the runner's result for each step
  raised,      \* why arun() raises, "none" when it returns
  queued,      \* steps step.queued was emitted for
  reported,    \* per step: nothing, step.started, or the reported status
  terminal,    \* the terminal event of the run
  sunk         \* sink.write_run() has returned

vars == <<failFast, pc, task, cancelling, outcome, permits, called, results, raised,
          queued, reported, terminal, sunk>>

(* What the tasks, and the runner while it waits for them, leave alone. *)
rest == <<failFast, reported, terminal, sunk>>

Ended == {"done", "raised", "cancelled"}
Holding == {"granted", "running"}   \* task states that hold a permit
TaskStates == {"idle", "new", "waiting"} \cup Holding \cup Ended
Locations == {"launch", "gather", "reap", "record", "finalize", "closing", "returned"}
Result == {"none", "SUCCEEDED", "FAILED"}

(* Tasks run only while the runner is suspended. *)
LoopFree == pc \notin {"launch", "record", "finalize"}

Unfinished == {s \in Steps : task[s] \notin Ended}
NoneNew == \A s \in Steps : task[s] # "new"

Init ==
  /\ failFast \in Modes
  /\ pc = "launch"
  /\ task = [s \in Steps |-> "idle"]
  /\ cancelling = {}
  /\ outcome = [s \in Steps |-> "none"]
  /\ permits = Limit
  /\ called = {}
  /\ results = [s \in Steps |-> "none"]
  /\ raised = "none"
  /\ queued = {}
  /\ reported = [s \in Steps |-> "none"]
  /\ terminal = "none"
  /\ sunk = FALSE

-----------------------------------------------------------------------------
(* The semaphore.  Tasks start in order, so its FIFO queue of waiters is   *)
(* the set of waiting steps in increasing order.                           *)

Waiters == {s \in Steps : task[s] = "waiting" /\ s \notin cancelling}

Locked == permits = 0 \/ \E s \in Steps : task[s] = "granted" \/ s \in Waiters

(* The waiter that comes first. *)
Heir == {w \in Waiters : \A v \in Waiters : w <= v}

Release_NoWakeup(s, ended) ==
  /\ task' = [task EXCEPT ![s] = ended]
  /\ permits' = IF Limited /\ task[s] \in Holding THEN permits + 1 ELSE permits

(* Task s ends.  The permit it held goes straight to the first waiter,     *)
(* which has yet to resume, and to the counter when there is none.         *)
Release(s, ended) ==
  LET holds == Limited /\ task[s] \in Holding
  IN  /\ task' = [t \in Steps |->
                    IF t = s THEN ended
                    ELSE IF holds /\ t \in Heir THEN "granted" ELSE task[t]]
      /\ permits' = IF holds /\ Heir = {} THEN permits + 1 ELSE permits

-----------------------------------------------------------------------------
(* One step's task. *)

(* The task runs up to its first await: the semaphore, or the provider. *)
TaskStarts(s) ==
  /\ LoopFree
  /\ task[s] = "new"
  /\ s \notin cancelling
  /\ \A t \in Steps : t < s => task[t] # "new"
  /\ \/ /\ Limited
        /\ Locked
        /\ task' = [task EXCEPT ![s] = "waiting"]
        /\ queued' = queued \cup {s}
        /\ UNCHANGED permits
     \/ /\ ~(Limited /\ Locked)
        /\ task' = [task EXCEPT ![s] = "running"]
        /\ permits' = IF Limited THEN permits - 1 ELSE permits
        /\ UNCHANGED queued
  /\ UNCHANGED <<pc, cancelling, outcome, called, results, raised, rest>>

(* A task that was handed a permit resumes and goes to the provider.  It   *)
(* passes a permit that became free meanwhile on to the next waiter.       *)
TaskResumes(s) ==
  /\ LoopFree
  /\ task[s] = "granted"
  /\ s \notin cancelling
  /\ LET passed == IF permits > 0 THEN Heir ELSE {}
     IN  /\ task' = [t \in Steps |->
                       IF t = s THEN "running"
                       ELSE IF t \in passed THEN "granted" ELSE task[t]]
         /\ permits' = IF passed # {} THEN permits - 1 ELSE permits
  /\ UNCHANGED <<pc, cancelling, outcome, called, results, raised, queued, rest>>

(* A thread picks the call up; a cancelled call is dropped before that. *)
ProviderCalled(s) ==
  /\ task[s] = "running"
  /\ s \notin cancelling \cup called
  /\ called' = called \cup {s}
  /\ UNCHANGED <<pc, task, cancelling, outcome, permits, results, raised, queued, rest>>

(* The step returns or raises: the provider answered, or a cache hit or a  *)
(* moderation hook settled the step without it.  A hook may also absorb a  *)
(* cancellation.                                                           *)
TaskEnds(s) ==
  /\ LoopFree
  /\ task[s] = "running"
  /\ \/ \E r \in {"SUCCEEDED", "FAILED"} : outcome' = [outcome EXCEPT ![s] = r]
        /\ Release(s, "done")
     \/ /\ MayRaise
        /\ Release(s, "raised")
        /\ UNCHANGED outcome
  /\ UNCHANGED <<pc, cancelling, called, results, raised, queued, rest>>

(* CancelledError unwinds the task, out of the semaphore as well. *)
TaskCancelled(s) ==
  /\ LoopFree
  /\ s \in cancelling
  /\ task[s] \in {"new", "waiting"} \cup Holding
  /\ Release(s, "cancelled")
  /\ UNCHANGED <<pc, cancelling, outcome, called, results, raised, queued, rest>>

-----------------------------------------------------------------------------
(* The runner. *)

(* Steps are announced, then one task per step is created.  The pipeline   *)
(* timeout may have passed before the first announcement, or just after    *)
(* the last one: asyncio.gather() has created its tasks by then, the       *)
(* coroutine of _gather_fail_fast() has not started.                       *)
Launch ==
  /\ pc = "launch"
  /\ \/ /\ "timeout" \in Interrupts
        /\ raised' = "timeout"
        /\ pc' = "finalize"
        /\ UNCHANGED <<task, reported>>
     \/ /\ reported' = [s \in Steps |-> "started"]
        /\ task' = [s \in Steps |-> "new"]
        /\ pc' = "gather"
        /\ UNCHANGED raised
     \/ /\ "timeout" \in Interrupts
        /\ reported' = [s \in Steps |-> "started"]
        /\ task' = IF failFast THEN task ELSE [s \in Steps |-> "new"]
        /\ raised' = "timeout"
        /\ pc' = "finalize"
  /\ UNCHANGED <<failFast, cancelling, outcome, permits, called, results, queued, terminal,
                 sunk>>

(* The runner's result for a finished task: an exception and a cancelled   *)
(* task become FAILED placeholders.                                        *)
ResultOf(s) == IF task[s] = "done" THEN outcome[s] ELSE "FAILED"

Observe_CancelsRunning ==
  /\ pc = "gather" /\ failFast /\ NoneNew
  /\ LET finished == {s \in Steps : task[s] \in Ended /\ results[s] = "none"}
         failed == \E s \in finished : ResultOf(s) = "FAILED"
     IN  /\ finished # {}
         /\ results' = [s \in Steps |-> IF s \in finished THEN ResultOf(s) ELSE results[s]]
         /\ cancelling' = IF failed THEN Unfinished \ Waiters ELSE cancelling
         /\ pc' = IF failed THEN "reap" ELSE IF Unfinished = {} THEN "record" ELSE pc
  /\ UNCHANGED <<task, outcome, permits, called, raised, queued, rest>>

(* asyncio.wait(FIRST_COMPLETED) returned: collect the finished tasks, and *)
(* cancel all the others when one of the finished failed.                  *)
Observe ==
  /\ pc = "gather"
  /\ failFast
  /\ NoneNew
  /\ LET finished == {s \in Steps : task[s] \in Ended /\ results[s] = "none"}
         failed == \E s \in finished : ResultOf(s) = "FAILED"
     IN  /\ finished # {}
         /\ results' = [s \in Steps |-> IF s \in finished THEN ResultOf(s) ELSE results[s]]
         /\ cancelling' = IF failed THEN cancelling \cup Unfinished ELSE cancelling
         /\ pc' = IF failed THEN "reap" ELSE IF Unfinished = {} THEN "record" ELSE pc
  /\ UNCHANGED <<task, outcome, permits, called, raised, queued, rest>>

Reap_DropsLateResults ==
  /\ pc = "reap" /\ Unfinished = {}
  /\ results' = [s \in Steps |-> IF results[s] = "none" THEN "FAILED" ELSE results[s]]
  /\ pc' = IF raised = "none" THEN "record" ELSE "finalize"
  /\ UNCHANGED <<task, cancelling, outcome, permits, called, raised, queued, rest>>

(* The cancelled tasks have ended: fill the missing results in, or raise   *)
(* what interrupted the run in the meantime.                               *)
Reap ==
  /\ pc = "reap"
  /\ Unfinished = {}
  /\ IF raised = "none"
     THEN /\ results' = [s \in Steps |-> ResultOf(s)]
          /\ pc' = "record"
     ELSE /\ pc' = "finalize"
          /\ UNCHANGED results
  /\ UNCHANGED <<task, cancelling, outcome, permits, called, raised, queued, rest>>

(* asyncio.gather() returned every result, or raised the first exception   *)
(* and left the other tasks running.                                       *)
Gathered ==
  /\ pc = "gather"
  /\ ~failFast
  /\ NoneNew
  /\ \/ /\ \A s \in Steps : task[s] = "done"
        /\ results' = outcome
        /\ pc' = "record"
        /\ UNCHANGED raised
     \/ /\ \E s \in Steps : task[s] = "raised"
        /\ raised' = "error"
        /\ pc' = "finalize"
        /\ UNCHANGED results
  /\ UNCHANGED <<task, cancelling, outcome, permits, called, queued, rest>>

(* wait_for() timed out, or the task running arun() was cancelled.         *)
(* Cancelling the await of asyncio.gather() cancels its children; the      *)
(* await of asyncio.wait() just ends.                                      *)
Interrupted ==
  /\ pc \in {"gather", "reap"}
  /\ raised = "none"
  /\ raised' \in Interrupts
  /\ IF pc = "gather" /\ failFast
     THEN /\ pc' = "finalize"
          /\ UNCHANGED cancelling
     ELSE /\ pc' = "reap"
          /\ cancelling' = cancelling \cup Unfinished
  /\ UNCHANGED <<task, outcome, permits, called, results, queued, rest>>

(* The per-step callbacks and events, after all steps. *)
Record ==
  /\ pc = "record"
  /\ reported' = results
  /\ pc' = "finalize"
  /\ UNCHANGED <<failFast, task, cancelling, outcome, permits, called, results, raised,
                 queued, terminal, sunk>>

Finalize_InfersStatus ==
  /\ pc = "finalize"
  /\ terminal' = IF \A s \in Steps : results[s] # "FAILED" THEN "completed" ELSE "failed"
  /\ sunk' = (raised = "none")
  /\ pc' = "closing"
  /\ UNCHANGED <<failFast, task, cancelling, outcome, permits, called, results, raised,
                 queued, reported>>

(* _finalize() infers the run's status and writes to the sink, which may   *)
(* fail; an aborted run is reported failed and not written.                *)
Finalize ==
  /\ pc = "finalize"
  /\ \/ /\ raised = "none"
        /\ sunk' = TRUE
        /\ terminal' = IF \A s \in Steps : results[s] = "SUCCEEDED"
                       THEN "completed" ELSE "failed"
        /\ UNCHANGED raised
     \/ /\ raised = "none"
        /\ raised' = "sink"
        /\ terminal' = "failed"
        /\ UNCHANGED sunk
     \/ /\ raised # "none"
        /\ terminal' = "failed"
        /\ UNCHANGED <<sunk, raised>>
  /\ pc' = "closing"
  /\ UNCHANGED <<failFast, task, cancelling, outcome, permits, called, results, queued, reported>>

(* The sink is closed in a thread while the loop keeps running. *)
Close ==
  /\ pc = "closing"
  /\ pc' = "returned"
  /\ UNCHANGED <<task, cancelling, outcome, permits, called, results, raised, queued, rest>>

Returned == pc = "returned" /\ UNCHANGED vars

Runner == Launch \/ Observe \/ Reap \/ Gathered \/ Record \/ Finalize \/ Close

TaskStep(s) ==
  TaskStarts(s) \/ TaskResumes(s) \/ ProviderCalled(s) \/ TaskEnds(s) \/ TaskCancelled(s)

Next ==
  \/ Runner
  \/ Interrupted
  \/ \E s \in Steps : TaskStep(s)
  \/ Returned

(* The event loop is fair to the runner and to every task, and a step ends *)
(* because every provider call does (ProviderStep's AlwaysReturns).        *)
Spec ==
  /\ Init /\ [][Next]_vars
  /\ WF_vars(Runner)
  /\ \A s \in Steps : WF_vars(TaskStarts(s) \/ TaskResumes(s) \/ TaskEnds(s) \/ TaskCancelled(s))

-----------------------------------------------------------------------------
(* Properties. *)

TypeOK ==
  /\ failFast \in BOOLEAN
  /\ pc \in Locations
  /\ task \in [Steps -> TaskStates]
  /\ cancelling \subseteq Steps
  /\ outcome \in [Steps -> Result]
  /\ permits \in 0..Limit
  /\ called \subseteq Steps
  /\ results \in [Steps -> Result]
  /\ raised \in {"none", "timeout", "cancel", "error", "sink"}
  /\ queued \subseteq Steps
  /\ reported \in [Steps -> {"none", "started", "SUCCEEDED", "FAILED"}]
  /\ terminal \in {"none", "completed", "failed"}
  /\ sunk \in BOOLEAN

Holders == {s \in Steps : task[s] \in Holding}

(* No permit is lost or duplicated, whatever mix of completions,           *)
(* hand-overs and cancellations came before.                               *)
PermitsConserved == Limited => permits + Cardinality(Holders) = Limit

(* Calls made that may still be going on: the step did not return.  The    *)
(* call of a cancelled step goes on after the step gave its permit back.   *)
InFlight == {s \in called : task[s] \notin {"done", "raised"}}

(* max_concurrency bounds the calls in flight, the ones that outlive the   *)
(* cancellation of their step included.                                    *)
CallsWithinLimit == Limited => Cardinality(InFlight) <= Limit

(* Every step of a run that was not aborted has a result, and it is        *)
(* SUCCEEDED exactly when the step itself returned that: a failing sibling *)
(* never erases a success and a cancelled step is never reported as one.   *)
ResultsFaithful ==
  pc \in {"record", "finalize"} /\ raised = "none" =>
    \A s \in Steps : /\ results[s] # "none"
                     /\ results[s] = "SUCCEEDED" <=> outcome[s] = "SUCCEEDED"

(* A run reported completed is one whose every step succeeded and was      *)
(* reported as such, and whose manifest the sink accepted.                 *)
CompletedIsTotal ==
  terminal = "completed" =>
    sunk /\ \A s \in Steps : outcome[s] = "SUCCEEDED" /\ reported[s] = "SUCCEEDED"

(* Once the runner has seen a failure no further provider call is made. *)
NoCallAfterObservedFailure ==
  [][(\E s \in Steps : results[s] = "FAILED") => called' = called]_vars

(* When arun() has returned or raised, it makes no more provider calls. *)
NoCallAfterReturn == [][pc = "returned" => called' = called]_vars

(* The same of a fail-fast run that nothing interrupted from outside: the  *)
(* steps it cancelled are gone when it returns.                            *)
NoStrayCall ==
  [][pc = "returned" /\ failFast /\ raised \in {"none", "sink"} => called' = called]_vars

(* The run ends, and every waiting step got its turn or its cancellation. *)
RunEnds == <>(pc = "returned")

(* The run as the observer of its events sees it. *)
Contract == INSTANCE RunContract WITH end <- terminal

(* Concurrency, fail-fast cancellation, timeouts and sink failures never   *)
(* break what the observer of the events is promised.                      *)
ImplementsContract == Contract!Spec

=============================================================================
