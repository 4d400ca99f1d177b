----------------------------- MODULE ObjectSink -----------------------------
(***************************************************************************)
(* One ObjectStorageSink shared by the items of Pipeline.abatch_run().     *)
(* Every item is a sequential arun() on the event loop; a step that ends   *)
(* is shown to sink.on_step_complete(), which with eager_transfer hands    *)
(* its asset to a thread pool, and the item ends in sink.write_run(), a    *)
(* synchronous call that blocks the event loop (pool threads go on).  A    *)
(* transfer rewrites the Asset in place.  When every item has ended the    *)
(* batch closes the sink.                                                  *)
(*                                                                         *)
(* Each step has one asset object, named <<run, step>>.  With a cache it   *)
(* may return the recorded output of an earlier step: another object with  *)
(* the same asset_id, recorded before the first one was transferred.       *)
(***************************************************************************)
EXTENDS Naturals

CONSTANTS
  Runs,   \* the items of the batch
  K,      \* steps per item
  Modes   \* configurations [eager, cache, failFast]: eager_transfer, a cache, fail_fast

Objects == Runs \X (1..K)
Own(r) == {r} \X (1..K)

VARIABLES
  mode,      \* the configuration of this batch
  run,       \* where each item's arun() is
  next,      \* the step the item is at
  outcome,   \* how each step ended
  id,        \* the asset_id of each object
  pending,   \* _eager_pending: objects submitted and not drained
  awaited,   \* objects the item's write_run() waits for
  job,       \* the transfer of each object
  stored,    \* objects that point at bytes in the backend
  closed     \* backend.close() was called

vars == <<mode, run, next, outcome, id, pending, awaited, job, stored, closed>>

itemVars == <<mode, run, next, outcome, id>>

Writing == {"draining", "sending"}
Over == {"written", "transfer_failed", "put_failed", "aborted"}

TypeOK ==
  /\ mode \in Modes
  /\ run \in [Runs -> {"ready", "executing"} \cup Writing \cup Over]
  /\ next \in [Runs -> 1..K + 1]
  /\ outcome \in [Objects -> {"none", "SUCCEEDED", "FAILED", "REJECTED"}]
  /\ id \in [Objects -> Objects]
  /\ pending \subseteq Objects
  /\ awaited \in [Runs -> SUBSET Objects]
  /\ job \in [Objects -> {"none", "queued", "ok", "failed"}]
  /\ stored \subseteq Objects
  /\ closed \in BOOLEAN

Init ==
  /\ mode \in Modes
  /\ run = [r \in Runs |-> "ready"]
  /\ next = [r \in Runs |-> 1]
  /\ outcome = [o \in Objects |-> "none"]
  /\ id = [o \in Objects |-> o]
  /\ pending = {}
  /\ awaited = [r \in Runs |-> {}]
  /\ job = [o \in Objects |-> "none"]
  /\ stored = {}
  /\ closed = FALSE

(* write_run() runs on the event loop: no other item moves meanwhile. *)
LoopFree == \A r \in Runs : run[r] \notin Writing

(* Rejected by moderation after generation: FAILED, its assets kept. *)
HasAsset(o) == outcome[o] \in {"SUCCEEDED", "REJECTED"}

Ids(S) == {id[o] : o \in S}

-----------------------------------------------------------------------------
(* The items. *)

Finished(r) ==
  \/ next[r] > K
  \/ mode.failFast /\ next[r] > 1 /\ outcome[<<r, next[r] - 1>>] # "SUCCEEDED"

StepStarts(r) ==
  /\ LoopFree
  /\ run[r] = "ready"
  /\ ~Finished(r)
  /\ run' = [run EXCEPT ![r] = "executing"]
  /\ UNCHANGED <<mode, next, outcome, id, pending, awaited, job, stored, closed>>

(* sink.on_step_complete(): submit the asset unless one with its id is in. *)
OnStepComplete(o, ended, ident) ==
  IF mode.eager /\ ended = "SUCCEEDED" /\ ident \notin Ids(pending)
  THEN /\ pending' = pending \cup {o}
       /\ job' = [job EXCEPT ![o] = "queued"]
  ELSE UNCHANGED <<pending, job>>

(* The step returns: a new asset, a recorded one, or a failure. *)
StepCompletes(r) ==
  LET o == <<r, next[r]>>
  IN  /\ LoopFree
      /\ run[r] = "executing"
      /\ \E ended \in {"SUCCEEDED", "FAILED", "REJECTED"} :
         \E source \in {o} \cup {p \in Objects : outcome[p] = "SUCCEEDED"} :
           /\ source # o => mode.cache /\ ended = "SUCCEEDED"
           /\ outcome' = [outcome EXCEPT ![o] = ended]
           /\ id' = [id EXCEPT ![o] = id[source]]
           /\ OnStepComplete(o, ended, id[source])
      /\ run' = [run EXCEPT ![r] = "ready"]
      /\ next' = [next EXCEPT ![r] = @ + 1]
      /\ UNCHANGED <<mode, awaited, stored, closed>>

(* PipelineTimeoutError before the next step: write_run() is not called. *)
Abort(r) ==
  /\ LoopFree
  /\ run[r] = "ready"
  /\ ~Finished(r)
  /\ run' = [run EXCEPT ![r] = "aborted"]
  /\ UNCHANGED <<mode, next, outcome, id, pending, awaited, job, stored, closed>>

-----------------------------------------------------------------------------
(* AssetTransfer.transfer() in a pool thread ends.  An object that was     *)
(* transferred has no source left to be fetched from.                      *)
TransferEnds(o) ==
  /\ job[o] = "queued"
  /\ \/ /\ o \notin stored
        /\ job' = [job EXCEPT ![o] = "ok"]
        /\ stored' = stored \cup {o}
     \/ /\ job' = [job EXCEPT ![o] = "failed"]
        /\ UNCHANGED stored
  /\ UNCHANGED <<itemVars, pending, awaited, closed>>

-----------------------------------------------------------------------------
(* write_run() *)

(* The whole of _eager_pending is taken, whoever submitted it. *)
WriteBegin(r) ==
  /\ LoopFree
  /\ run[r] = "ready"
  /\ Finished(r)
  /\ run' = [run EXCEPT ![r] = "draining"]
  /\ awaited' = [awaited EXCEPT ![r] = pending]
  /\ pending' = {}
  /\ UNCHANGED <<mode, next, outcome, id, job, stored, closed>>

Settled(S) == \A o \in S : job[o] \in {"ok", "failed"}

Remaining_OnlySucceeded(r) ==
  {o \in Own(r) : outcome[o] = "SUCCEEDED" /\ id[o] \notin Ids(awaited[r]) /\ o \notin stored}

(* What the eager pool did not take and the backend does not have. *)
Remaining(r) ==
  {o \in Own(r) : HasAsset(o) /\ id[o] \notin Ids(awaited[r]) /\ o \notin stored}

WriteTransfers(r) ==
  /\ run[r] = "draining"
  /\ Settled(awaited[r])
  /\ run' = [run EXCEPT ![r] = "sending"]
  /\ awaited' = [awaited EXCEPT ![r] = @ \cup Remaining(r)]
  /\ job' = [o \in Objects |-> IF o \in Remaining(r) THEN "queued" ELSE job[o]]
  /\ UNCHANGED <<mode, next, outcome, id, pending, stored, closed>>

FailedTransfers(r) == {o \in awaited[r] : job[o] = "failed"}

(* The manifest is put unless a transfer this write waited for failed. *)
WriteEnds(r) ==
  /\ run[r] = "sending"
  /\ Settled(awaited[r])
  /\ IF FailedTransfers(r) # {}
     THEN run' = [run EXCEPT ![r] = "transfer_failed"]
     ELSE \E end \in {"written", "put_failed"} : run' = [run EXCEPT ![r] = end]
  /\ UNCHANGED <<mode, next, outcome, id, pending, awaited, job, stored, closed>>

-----------------------------------------------------------------------------
AllOver_Succeeded == \A r \in Runs : run[r] = "written"

(* gather(return_exceptions=True): an item that raises is over too. *)
AllOver == \A r \in Runs : run[r] \in Over

Drained_NoWait == TRUE

(* pool.shutdown(wait=True) *)
Drained == \A o \in Objects : job[o] # "queued"

Close ==
  /\ ~closed
  /\ AllOver
  /\ Drained
  /\ closed' = TRUE
  /\ pending' = {}
  /\ UNCHANGED <<itemVars, awaited, job, stored>>

(* The batch has returned. *)
Done == closed /\ Drained /\ UNCHANGED vars

Next ==
  \/ \E r \in Runs :
       \/ StepStarts(r)
       \/ StepCompletes(r)
       \/ Abort(r)
       \/ WriteBegin(r)
       \/ WriteTransfers(r)
       \/ WriteEnds(r)
  \/ \E o \in Objects : TransferEnds(o)
  \/ Close
  \/ Done

(* A provider call, a transfer and the event loop all go on. *)
Spec == Init /\ [][Next]_vars /\ WF_vars(Next)

-----------------------------------------------------------------------------
(* A manifest is in the backend only when every asset it lists is: what    *)
(* _write_run_impl() raises to avoid ("manifest was not uploaded").        *)
ManifestComplete ==
  \A r \in Runs : run[r] = "written" =>
    \A o \in Own(r) : HasAsset(o) => o \in stored

(* Without eager transfer an item's write_run() fails on transfers of the  *)
(* item's own assets only.                                                 *)
PlainItemsIndependent ==
  \A r \in Runs : run[r] = "transfer_failed" /\ ~mode.eager =>
    \E o \in Own(r) : job[o] = "failed"

(* An asset whose bytes are stored is not fetched again: after the in-     *)
(* place rewrite its URL needs credentials a download does not have.       *)
NoRetransfer == [][\A o \in stored : job'[o] = job[o]]_vars

(* The backend's connections outlive every transfer, those of aborted      *)
(* items included.                                                         *)
OpenWhileTransferring == closed => \A o \in Objects : job[o] # "queued"

(* The batch ends, with the sink closed, however its items end. *)
BatchEnds == <>closed

=============================================================================
