--------------------------- MODULE PipelineProofs ---------------------------
(***************************************************************************)
(* Proofs about what is around the steps of a pipeline (MCPipeline).       *)
(*                                                                         *)
(* ObjectSink, for any number of runs that share a sink and of steps in    *)
(* each: a manifest is written only when all its assets are stored, unless *)
(* a cache repeats ids that eager transfer has taken; and, in every mode,  *)
(* nothing is transferred twice, no transfer meets a closed backend, and   *)
(* without eager transfer no item fails for another.                       *)
(*                                                                         *)
(* AgentLoop, for any bound on its iterations: what it returns and tells   *)
(* is what it did.                                                         *)
(*                                                                         *)
(* Connectors, through every one of them: a success is the generation that *)
(* was asked for, which is paid for once and not failed by the SDK itself. *)
(***************************************************************************)
EXTENDS MCPipeline, SequenceTheorems, FiniteSetTheorems, TLAPS

(* The bounds and switches of a batch. *)
Settings ==
  /\ K \in Nat
  /\ Modes \subseteq [eager : BOOLEAN, cache : BOOLEAN, failFast : BOOLEAN]

(* The steps that did not complete left no trace. *)
Ahead ==
  \A r \in Runs :
    /\ run[r] = "executing" => next[r] <= K
    /\ \A i \in 1..K : i >= next[r] => outcome[<<r, i>>] = "none" /\ job[<<r, i>>] = "none"

(* What is in the backend are the transfers that went well. *)
StoredIsOk == \A o \in S!Objects : o \in stored <=> job[o] = "ok"

(* The sink is closed when all is over. *)
ClosedLast == closed => S!AllOver /\ S!Drained

(* Without eager transfer an item waits for its own assets only. *)
PlainAwaitsOwn ==
  ~mode.eager =>
    /\ pending = {}
    /\ \A r \in Runs : awaited[r] \subseteq S!Own(r) /\ (run[r] = "draining" => awaited[r] = {})

(* Nothing has another's id unless there is a cache. *)
IdsAreOwn == ~mode.cache => \A o \in S!Objects : id[o] = o

(* An item that sends waits for every asset that is not there yet. *)
AllAwaited ==
  \A r \in Runs : run[r] = "sending" =>
    \A o \in S!Own(r) : S!HasAsset(o) => o \in stored \/ o \in awaited[r]

IInv ==
  /\ S!TypeOK
  /\ Ahead
  /\ StoredIsOk
  /\ ClosedLast
  /\ PlainAwaitsOwn
  /\ S!PlainItemsIndependent
  /\ IdsAreOwn

(* The invariant of the writes, where ids may be relied on. *)
WholeWrites ==
  ~(mode.eager /\ mode.cache) => AllAwaited /\ S!ManifestComplete

-----------------------------------------------------------------------------
(* An object is the asset of one step of one item. *)
LEMMA Named ==
  /\ \A r \in Runs, i \in 1..K : <<r, i>> \in S!Own(r) /\ <<r, i>> \in S!Objects
  /\ \A r \in Runs : S!Own(r) \subseteq S!Objects
  /\ \A o \in S!Objects : \E r \in Runs, i \in 1..K : o = <<r, i>>
  /\ \A r \in Runs : \A o \in S!Own(r) : \E i \in 1..K : o = <<r, i>>
  /\ \A r, q \in Runs : r # q => S!Own(r) \cap S!Own(q) = {}
BY DEF S!Objects, S!Own

(* A batch begins so. *)
LEMMA Initially == ASSUME Settings, S!Init PROVE IInv /\ WholeWrites
<1>1. S!TypeOK
  <2>1. 1 \in 1..(K + 1)
      BY DEF Settings
  <2>2. next \in [Runs -> 1..(K + 1)] /\ run \in [Runs -> {"ready"}]
      BY <2>1 DEF S!Init
  <2>3. awaited \in [Runs -> SUBSET S!Objects] /\ id \in [S!Objects -> S!Objects]
      BY DEF S!Init
  <2>4. outcome \in [S!Objects -> {"none"}] /\ job \in [S!Objects -> {"none"}]
      BY DEF S!Init
  <2> QED
      BY <2>2, <2>3, <2>4 DEF S!Init, S!TypeOK
<1>2. Ahead /\ StoredIsOk /\ ClosedLast /\ PlainAwaitsOwn /\ S!PlainItemsIndependent /\ IdsAreOwn
    BY Named DEF S!Init, Ahead, StoredIsOk, ClosedLast, PlainAwaitsOwn, S!PlainItemsIndependent,
       IdsAreOwn, S!Over
<1>3. WholeWrites
    BY DEF S!Init, WholeWrites, AllAwaited, S!ManifestComplete
<1> QED
    BY <1>1, <1>2, <1>3 DEF IInv

(* The step that an item executes is its next one, and left no trace yet. *)
LEMMA NextIsNew ==
  ASSUME Settings, IInv, NEW r \in Runs, run[r] = "executing"
  PROVE  /\ next[r] \in 1..K /\ <<r, next[r]>> \in S!Own(r) /\ <<r, next[r]>> \in S!Objects
         /\ outcome[<<r, next[r]>>] = "none" /\ job[<<r, next[r]>>] = "none"
         /\ <<r, next[r]>> \notin stored
<1>1. next[r] \in 1..K
    BY DEF IInv, S!TypeOK, Ahead, Settings
<1>2. outcome[<<r, next[r]>>] = "none" /\ job[<<r, next[r]>>] = "none"
    BY <1>1 DEF IInv, Ahead, Settings
<1> QED
    BY <1>1, <1>2, Named DEF IInv, StoredIsOk

(* A step completes: with an asset that is new, or another's. *)
LEMMA StepCompletesKeeps ==
  ASSUME Settings, IInv, WholeWrites, NEW r \in Runs, S!StepCompletes(r)
  PROVE  IInv' /\ WholeWrites'
<1> DEFINE o == <<r, next[r]>>
<1>1. /\ next[r] \in 1..K /\ o \in S!Own(r) /\ o \in S!Objects
      /\ outcome[o] = "none" /\ job[o] = "none" /\ o \notin stored /\ run[r] = "executing"
    BY NextIsNew DEF S!StepCompletes
<1>2. PICK ended \in {"SUCCEEDED", "FAILED", "REJECTED"},
           source \in {o} \cup {p \in S!Objects : outcome[p] = "SUCCEEDED"} :
        /\ source # o => mode.cache /\ ended = "SUCCEEDED"
        /\ outcome' = [outcome EXCEPT ![o] = ended]
        /\ id' = [id EXCEPT ![o] = id[source]]
        /\ S!OnStepComplete(o, ended, id[source])
    BY DEF S!StepCompletes
<1>3. /\ run' = [run EXCEPT ![r] = "ready"] /\ next' = [next EXCEPT ![r] = @ + 1]
      /\ UNCHANGED <<mode, awaited, stored, closed>>
    BY DEF S!StepCompletes
<1>4. \/ pending' = pending /\ job' = job
      \/ /\ mode.eager /\ pending' = pending \cup {o}
         /\ job' = [job EXCEPT ![o] = "queued"]
    BY <1>2 DEF S!OnStepComplete
<1> HIDE DEF o
<1>5. S!TypeOK'
    BY <1>1, <1>2, <1>3, <1>4 DEF IInv, S!TypeOK, Settings
<1>6. \A p \in S!Objects : p # o => outcome'[p] = outcome[p] /\ job'[p] = job[p] /\ id'[p] = id[p]
    BY <1>2, <1>4 DEF IInv, S!TypeOK
<1>7. \A q \in Runs : q # r => run'[q] = run[q] /\ next'[q] = next[q]
    BY <1>3 DEF IInv, S!TypeOK
<1>8. run'[r] = "ready" /\ next'[r] = next[r] + 1 /\ next[r] \in Nat
    BY <1>1, <1>3 DEF IInv, S!TypeOK
<1>9. Ahead'
  <2> SUFFICES ASSUME NEW q \in Runs
               PROVE  /\ run'[q] = "executing" => next'[q] <= K
                      /\ \A i \in 1..K : i >= next'[q] =>
                           outcome'[<<q, i>>] = "none" /\ job'[<<q, i>>] = "none"
      BY DEF Ahead
  <2>1. \A i \in 1..K : i >= next'[q] => i >= next[q] /\ <<q, i>> # o
      BY <1>1, <1>7, <1>8 DEF o, Settings, IInv, S!TypeOK
  <2> QED
      BY <2>1, <1>6, <1>7, <1>8, Named DEF IInv, Ahead
<1>10. StoredIsOk'
    BY <1>1, <1>3, <1>4, <1>6 DEF IInv, StoredIsOk, S!TypeOK
<1>11. ~closed /\ ClosedLast'
    BY <1>1, <1>3 DEF IInv, ClosedLast, S!AllOver, S!Over
<1>12. PlainAwaitsOwn'
    BY <1>3, <1>4, <1>7, <1>8 DEF IInv, PlainAwaitsOwn
<1>13. S!PlainItemsIndependent'
  <2>1. \A q \in Runs : q # r => \A p \in S!Own(q) : job'[p] = job[p]
      BY <1>1, <1>6, Named
  <2> QED
      BY <2>1, <1>3, <1>7, <1>8 DEF IInv, S!PlainItemsIndependent
<1>14. IdsAreOwn'
    BY <1>1, <1>2, <1>3, <1>6 DEF IInv, IdsAreOwn, S!TypeOK
<1>15. WholeWrites'
  <2>1. \A q \in Runs : q # r => \A p \in S!Own(q) : S!HasAsset(p)' = S!HasAsset(p)
      BY <1>1, <1>6, Named DEF S!HasAsset
  <2> QED
      BY <2>1, <1>3, <1>7, <1>8 DEF WholeWrites, AllAwaited, S!ManifestComplete
<1> QED
    BY <1>5, <1>9, <1>10, <1>11, <1>12, <1>13, <1>14, <1>15 DEF IInv

(* An item starts a step or is aborted: no asset is touched. *)
LEMMA ItemMovesKeeps ==
  ASSUME Settings, IInv, WholeWrites, NEW r \in Runs, S!StepStarts(r) \/ S!Abort(r)
  PROVE  IInv' /\ WholeWrites'
<1>1. /\ run[r] = "ready" /\ next[r] <= K
      /\ \E where \in {"executing", "aborted"} : run' = [run EXCEPT ![r] = where]
      /\ UNCHANGED <<mode, next, outcome, id, pending, awaited, job, stored, closed>>
  <2>1. next[r] \in 1..(K + 1)
      BY DEF IInv, S!TypeOK
  <2> QED
      BY <2>1 DEF S!StepStarts, S!Abort, S!Finished, Settings
<1>2. /\ \A q \in Runs : q # r => run'[q] = run[q]
      /\ run'[r] \in {"executing", "aborted"}
    BY <1>1 DEF IInv, S!TypeOK
<1>3. S!TypeOK'
    BY <1>1 DEF IInv, S!TypeOK, S!Over, S!Writing
<1>4. ~closed
    BY <1>1 DEF IInv, ClosedLast, S!AllOver, S!Over
<1>5. Ahead' /\ StoredIsOk' /\ ClosedLast' /\ PlainAwaitsOwn' /\ IdsAreOwn'
    BY <1>1, <1>2, <1>4 DEF IInv, Ahead, StoredIsOk, ClosedLast, PlainAwaitsOwn, IdsAreOwn
<1>6. S!PlainItemsIndependent'
    BY <1>1, <1>2 DEF IInv, S!PlainItemsIndependent
<1>7. WholeWrites'
    BY <1>1, <1>2 DEF WholeWrites, AllAwaited, S!ManifestComplete, S!HasAsset
<1> QED
    BY <1>3, <1>5, <1>6, <1>7 DEF IInv

(* A transfer ends, well or not. *)
LEMMA TransferEndsKeeps ==
  ASSUME Settings, IInv, WholeWrites, NEW o \in S!Objects, S!TransferEnds(o)
  PROVE  IInv' /\ WholeWrites'
<1>1. /\ job[o] = "queued" /\ o \notin stored
      /\ \/ job' = [job EXCEPT ![o] = "ok"] /\ stored' = stored \cup {o}
         \/ job' = [job EXCEPT ![o] = "failed"] /\ stored' = stored
      /\ UNCHANGED <<mode, run, next, outcome, id, pending, awaited, closed>>
    BY DEF S!TransferEnds, S!itemVars, IInv, StoredIsOk
<1>2. S!TypeOK'
    BY <1>1 DEF IInv, S!TypeOK
<1>3. \A p \in S!Objects : p # o => job'[p] = job[p]
    BY <1>1 DEF IInv, S!TypeOK
<1>4. job'[o] \in {"ok", "failed"} /\ (o \in stored' <=> job'[o] = "ok")
    BY <1>1 DEF IInv, S!TypeOK
<1>5. Ahead'
  <2>1. \A q \in Runs, i \in 1..K : i >= next[q] => <<q, i>> # o
      BY <1>1 DEF IInv, Ahead
  <2> QED
      BY <2>1, <1>1, <1>3, Named DEF IInv, Ahead
<1>6. StoredIsOk'
    BY <1>1, <1>3, <1>4 DEF IInv, StoredIsOk
<1>7. ~closed /\ ClosedLast'
    BY <1>1 DEF IInv, ClosedLast, S!Drained
<1>8. PlainAwaitsOwn' /\ IdsAreOwn'
    BY <1>1 DEF IInv, PlainAwaitsOwn, IdsAreOwn
<1>9. S!PlainItemsIndependent'
    BY <1>1, <1>3, Named DEF IInv, S!PlainItemsIndependent
<1>10. WholeWrites'
    BY <1>1 DEF WholeWrites, AllAwaited, S!ManifestComplete, S!HasAsset
<1> QED
    BY <1>2, <1>5, <1>6, <1>7, <1>8, <1>9, <1>10 DEF IInv

(* write_run() takes all that is pending. *)
LEMMA WriteBeginKeeps ==
  ASSUME Settings, IInv, WholeWrites, NEW r \in Runs, S!WriteBegin(r)
  PROVE  IInv' /\ WholeWrites'
<1>1. /\ run[r] = "ready" /\ run' = [run EXCEPT ![r] = "draining"]
      /\ awaited' = [awaited EXCEPT ![r] = pending] /\ pending' = {}
      /\ UNCHANGED <<mode, next, outcome, id, job, stored, closed>>
    BY DEF S!WriteBegin
<1>2. /\ \A q \in Runs : q # r => run'[q] = run[q] /\ awaited'[q] = awaited[q]
      /\ run'[r] = "draining" /\ awaited'[r] = pending
    BY <1>1 DEF IInv, S!TypeOK
<1>3. S!TypeOK'
    BY <1>1 DEF IInv, S!TypeOK, S!Writing
<1>4. ~closed
    BY <1>1 DEF IInv, ClosedLast, S!AllOver, S!Over
<1>5. Ahead' /\ StoredIsOk' /\ ClosedLast' /\ IdsAreOwn'
    BY <1>1, <1>2, <1>4 DEF IInv, Ahead, StoredIsOk, ClosedLast, IdsAreOwn
<1>6. PlainAwaitsOwn'
    BY <1>1, <1>2 DEF IInv, PlainAwaitsOwn
<1>7. S!PlainItemsIndependent'
    BY <1>1, <1>2 DEF IInv, S!PlainItemsIndependent
<1>8. WholeWrites'
    BY <1>1, <1>2 DEF WholeWrites, AllAwaited, S!ManifestComplete, S!HasAsset
<1> QED
    BY <1>3, <1>5, <1>6, <1>7, <1>8 DEF IInv

(* write_run() sends what is neither there nor awaited: all that is        *)
(* missing, where ids may be relied on.                                    *)
LEMMA WriteTransfersKeeps ==
  ASSUME Settings, IInv, WholeWrites, NEW r \in Runs, S!WriteTransfers(r)
  PROVE  IInv' /\ WholeWrites'
<1> DEFINE rest == S!Remaining(r)
<1>1. /\ run[r] = "draining" /\ run' = [run EXCEPT ![r] = "sending"]
      /\ awaited' = [awaited EXCEPT ![r] = @ \cup rest]
      /\ job' = [o \in S!Objects |-> IF o \in rest THEN "queued" ELSE job[o]]
      /\ UNCHANGED <<mode, next, outcome, id, pending, stored, closed>>
    BY DEF S!WriteTransfers
<1>2. rest \subseteq S!Own(r) /\ \A o \in rest : S!HasAsset(o) /\ o \notin stored
    BY DEF S!Remaining
<1>3. ~(mode.eager /\ mode.cache) =>
        \A o \in S!Own(r) : S!HasAsset(o) => o \in stored \/ o \in awaited[r] \cup rest
  <2>1. ~mode.cache => \A o \in S!Own(r), p \in awaited[r] : id[o] = id[p] => o = p
      BY Named DEF IInv, IdsAreOwn, S!TypeOK
  <2>2. ~mode.eager => awaited[r] = {}
      BY <1>1 DEF IInv, PlainAwaitsOwn
  <2>3. mode.eager \in BOOLEAN /\ mode.cache \in BOOLEAN
      BY DEF IInv, S!TypeOK, Settings
  <2> QED
      BY <2>1, <2>2, <2>3 DEF S!Remaining, S!Ids
<1> HIDE DEF rest
<1>4. rest \subseteq S!Objects
    BY <1>2, Named
<1>5. /\ \A q \in Runs : q # r => run'[q] = run[q] /\ awaited'[q] = awaited[q]
      /\ run'[r] = "sending" /\ awaited'[r] = awaited[r] \cup rest
    BY <1>1 DEF IInv, S!TypeOK
<1>6. /\ \A o \in S!Objects : o \notin rest => job'[o] = job[o]
      /\ \A o \in rest : job'[o] = "queued"
    BY <1>1, <1>4
<1>7. S!TypeOK'
  <2>1. awaited[r] \cup rest \in SUBSET S!Objects
      BY <1>4 DEF IInv, S!TypeOK
  <2>2. awaited' \in [Runs -> SUBSET S!Objects]
      BY <2>1, <1>1 DEF IInv, S!TypeOK
  <2>3. job' \in [S!Objects -> {"none", "queued", "ok", "failed"}]
      BY <1>1 DEF IInv, S!TypeOK
  <2> QED
      BY <2>2, <2>3, <1>1 DEF IInv, S!TypeOK, S!Writing
<1>8. ~closed
    BY <1>1 DEF IInv, ClosedLast, S!AllOver, S!Over
<1>9. Ahead'
  <2>1. \A q \in Runs, i \in 1..K : i >= next[q] => <<q, i>> \notin rest
      BY <1>2 DEF IInv, Ahead, S!HasAsset
  <2> QED
      BY <2>1, <1>1, <1>5, <1>6, Named DEF IInv, Ahead
<1>10. StoredIsOk'
    BY <1>1, <1>2, <1>6 DEF IInv, StoredIsOk
<1>11. ClosedLast' /\ IdsAreOwn'
    BY <1>1, <1>8 DEF IInv, ClosedLast, IdsAreOwn
<1>12. PlainAwaitsOwn'
    BY <1>1, <1>2, <1>5 DEF IInv, PlainAwaitsOwn
<1>13. S!PlainItemsIndependent'
  <2>1. \A q \in Runs : q # r => \A p \in S!Own(q) : job'[p] = job[p]
      BY <1>2, <1>6, Named
  <2>2. mode' = mode /\ S!PlainItemsIndependent
      BY <1>1 DEF IInv
  <2> QED
      BY <2>1, <2>2, <1>5 DEF S!PlainItemsIndependent
<1>14. WholeWrites'
    BY <1>1, <1>3, <1>5 DEF WholeWrites, AllAwaited, S!ManifestComplete, S!HasAsset
<1> QED
    BY <1>7, <1>9, <1>10, <1>11, <1>12, <1>13, <1>14 DEF IInv

(* The manifest is put when all that was awaited went well. *)
LEMMA WriteEndsKeeps ==
  ASSUME Settings, IInv, WholeWrites, NEW r \in Runs, S!WriteEnds(r)
  PROVE  IInv' /\ WholeWrites'
<1>1. /\ run[r] = "sending" /\ S!Settled(awaited[r])
      /\ \E where \in {"transfer_failed", "written", "put_failed"} :
           run' = [run EXCEPT ![r] = where]
      /\ run'[r] = "transfer_failed" => S!FailedTransfers(r) # {}
      /\ run'[r] = "written" => S!FailedTransfers(r) = {}
      /\ UNCHANGED <<mode, next, outcome, id, pending, awaited, job, stored, closed>>
    BY DEF S!WriteEnds, IInv, S!TypeOK
<1>2. /\ \A q \in Runs : q # r => run'[q] = run[q]
      /\ run'[r] \in {"transfer_failed", "written", "put_failed"}
    BY <1>1 DEF IInv, S!TypeOK
<1>3. S!TypeOK'
    BY <1>1 DEF IInv, S!TypeOK, S!Over
<1>4. ~closed
    BY <1>1 DEF IInv, ClosedLast, S!AllOver, S!Over
<1>5. Ahead' /\ StoredIsOk' /\ ClosedLast' /\ PlainAwaitsOwn' /\ IdsAreOwn'
    BY <1>1, <1>2, <1>4 DEF IInv, Ahead, StoredIsOk, ClosedLast, PlainAwaitsOwn, IdsAreOwn
<1>6. S!PlainItemsIndependent'
  <2>1. run'[r] = "transfer_failed" /\ ~mode.eager => \E o \in S!Own(r) : job[o] = "failed"
      BY <1>1 DEF S!FailedTransfers, IInv, PlainAwaitsOwn
  <2> QED
      BY <2>1, <1>1, <1>2 DEF IInv, S!PlainItemsIndependent
<1>7. WholeWrites'
  <2>1. run'[r] = "written" => awaited[r] \subseteq stored
      BY <1>1 DEF S!FailedTransfers, S!Settled, IInv, StoredIsOk, S!TypeOK
  <2> QED
      BY <2>1, <1>1, <1>2 DEF WholeWrites, AllAwaited, S!ManifestComplete, S!HasAsset
<1> QED
    BY <1>3, <1>5, <1>6, <1>7 DEF IInv

(* The sink is closed. *)
LEMMA CloseKeeps ==
  ASSUME IInv, WholeWrites, S!Close
  PROVE  IInv' /\ WholeWrites'
<1>1. /\ S!AllOver /\ S!Drained /\ closed' = TRUE /\ pending' = {}
      /\ UNCHANGED <<mode, run, next, outcome, id, awaited, job, stored>>
    BY DEF S!Close, S!itemVars
<1>2. S!TypeOK' /\ Ahead' /\ StoredIsOk' /\ IdsAreOwn'
    BY <1>1 DEF IInv, S!TypeOK, Ahead, StoredIsOk, IdsAreOwn
<1>3. ClosedLast' /\ PlainAwaitsOwn' /\ S!PlainItemsIndependent'
    BY <1>1 DEF IInv, ClosedLast, S!AllOver, S!Drained, PlainAwaitsOwn, S!PlainItemsIndependent
<1>4. WholeWrites'
    BY <1>1 DEF WholeWrites, AllAwaited, S!ManifestComplete, S!HasAsset
<1> QED
    BY <1>2, <1>3, <1>4 DEF IInv

(* Every step keeps both. *)
LEMMA Inductive ==
  ASSUME Settings, IInv, WholeWrites, [S!Next]_S!vars
  PROVE  IInv' /\ WholeWrites'
<1>1. CASE UNCHANGED S!vars
    BY <1>1 DEF S!vars, IInv, S!TypeOK, Ahead, StoredIsOk, ClosedLast, S!AllOver, S!Drained,
       PlainAwaitsOwn, S!PlainItemsIndependent, IdsAreOwn, WholeWrites, AllAwaited,
       S!ManifestComplete, S!HasAsset
<1> QED
    BY <1>1, ItemMovesKeeps, StepCompletesKeeps, TransferEndsKeeps, WriteBeginKeeps,
       WriteTransfersKeeps, WriteEndsKeeps, CloseKeeps DEF S!Next, S!Done

-----------------------------------------------------------------------------
(* The machines of MCPipeline take their own steps or none. *)
LEMMA Machines ==
  /\ MCInit => S!Init /\ C!Init /\ L!Init
  /\ [MCNext]_all => [S!Next]_S!vars
  /\ [MCNext]_all => [C!Next]_C!vars
  /\ [MCNext]_all => [L!Next]_L!vars
<1>1. MCInit => S!Init /\ C!Init /\ L!Init
    BY DEF MCInit
<1>2. [MCNext]_all => [S!Next]_S!vars
    BY DEF MCNext, Sinking, all, sinkVars, S!vars
<1>3. [MCNext]_all => [C!Next]_C!vars
  <2>1. UNCHANGED connectorVars => UNCHANGED C!vars
      BY DEF connectorVars, C!vars, C!jobVars, C!upVars, C!fetchVars, C!inputVars, C!clockVars
  <2>2. [MCNext]_all => C!Next \/ UNCHANGED connectorVars
      BY DEF MCNext, Sinking, all
  <2> QED
      BY <2>1, <2>2
<1>4. [MCNext]_all => [L!Next]_L!vars
    BY DEF MCNext, Sinking, all, loopVars, L!vars
<1> QED
    BY <1>1, <1>2, <1>3, <1>4

(* The invariant, in every mode. *)
THEOREM Invariance ==
  ASSUME Settings
  PROVE  /\ S!Spec => [](IInv /\ WholeWrites)
         /\ MCSpec => [](IInv /\ WholeWrites)
<1>1. S!Init => IInv /\ WholeWrites
    BY Initially
<1>2. IInv /\ WholeWrites /\ [S!Next]_S!vars => IInv' /\ WholeWrites'
    BY Inductive
<1> QED
    BY <1>1, <1>2, Machines, PTL DEF S!Spec, MCSpec

(* The variables have their types. *)
THEOREM TypeCorrect == ASSUME Settings PROVE S!Spec => []S!TypeOK
<1>1. IInv => S!TypeOK
    BY DEF IInv
<1> QED
    BY <1>1, Invariance, PTL

(* A manifest is in the backend only with every asset it lists, unless a   *)
(* batch has both eager transfer and a cache.                              *)
THEOREM ManifestsAreComplete ==
  ASSUME Settings, \A m \in Modes : ~(m.eager /\ m.cache)
  PROVE  /\ S!Spec => []S!ManifestComplete
         /\ MCSpec => []ManifestComplete
<1>1. IInv /\ WholeWrites => S!ManifestComplete
    BY DEF IInv, S!TypeOK, WholeWrites
<1>2. S!ManifestComplete => ManifestComplete
    BY DEF ManifestComplete
<1> QED
    BY <1>1, <1>2, Invariance, PTL

(* In every mode, no transfer meets a closed backend, and no item fails    *)
(* for a transfer of another without eager transfer.                       *)
THEOREM ItemsAreApart ==
  ASSUME Settings
  PROVE  /\ S!Spec => [](S!OpenWhileTransferring /\ S!PlainItemsIndependent)
         /\ MCSpec => []TransfersAreApart
<1>1. IInv => S!OpenWhileTransferring
    BY DEF IInv, ClosedLast, S!Drained, S!OpenWhileTransferring
<1>2. IInv => S!PlainItemsIndependent
    BY DEF IInv
<1>3. S!OpenWhileTransferring /\ S!PlainItemsIndependent => TransfersAreApart
    BY DEF TransfersAreApart
<1> QED
    BY <1>1, <1>2, <1>3, Invariance, PTL

(* An asset that is stored is not transferred again, in any mode.          *)
THEOREM FetchedOnce ==
  ASSUME Settings
  PROVE  /\ S!Spec => S!NoRetransfer
         /\ MCSpec => S!NoRetransfer
<1>1. ASSUME IInv, [S!Next]_S!vars
      PROVE  \A o \in stored : job'[o] = job[o]
  <2>1. stored \subseteq S!Objects /\ \A o \in stored : job[o] = "ok"
      BY <1>1 DEF IInv, S!TypeOK, StoredIsOk
  <2>2. ASSUME NEW r \in Runs, S!StepCompletes(r) PROVE \A o \in stored : job'[o] = job[o]
    <3>1. <<r, next[r]>> \notin stored
        BY <1>1, <2>2, NextIsNew DEF S!StepCompletes
    <3>2. job' = job \/ job' = [job EXCEPT ![<<r, next[r]>>] = "queued"]
        BY <2>2 DEF S!StepCompletes, S!OnStepComplete
    <3> QED
        BY <1>1, <2>1, <3>1, <3>2 DEF IInv, S!TypeOK
  <2>3. ASSUME NEW p \in S!Objects, S!TransferEnds(p) PROVE \A o \in stored : job'[o] = job[o]
      BY <1>1, <2>1, <2>3 DEF S!TransferEnds, IInv, S!TypeOK
  <2>4. ASSUME NEW r \in Runs, S!WriteTransfers(r) PROVE \A o \in stored : job'[o] = job[o]
      BY <2>1, <2>4 DEF S!WriteTransfers, S!Remaining
  <2>5. ASSUME job' = job PROVE \A o \in stored : job'[o] = job[o]
      BY <2>5
  <2> QED
      BY <1>1, <2>2, <2>3, <2>4, <2>5
      DEF S!Next, S!vars, S!StepStarts, S!Abort, S!WriteBegin, S!WriteEnds, S!Close, S!Done
<1> QED
    BY <1>1, Invariance, Machines, PTL DEF S!Spec, MCSpec, S!NoRetransfer

-----------------------------------------------------------------------------
(* The loop that runs one pipeline after the other, for any bound on its    *)
(* iterations and any costs.                                               *)

(* The bound on the iterations and the costs are numbers. *)
LoopSane == MaxIterations \in Nat \ {0} /\ Costs \subseteq Nat

(* What the variables of the loop are. *)
LoopShape ==
  /\ kind \in {"run", "thread", "task"} /\ stopOnError \in BOOLEAN /\ left \in BOOLEAN
  /\ phase \in {"next", "running", "evaluating", "finalize"} \cup L!Over
  /\ runs \in Seq([parent : Nat, errored : BOOLEAN, cost : Nat])
  /\ iterations \in Seq([run : Nat, passed : BOOLEAN])
  /\ heard \in Seq({"started", "ran", "evaluated", "completed"})

(* An iteration for each run, but the one that is being evaluated or was when it raised. *)
OneEach ==
  /\ \A n \in 1..Len(iterations) : iterations[n].run = n
  /\ \A n \in 1..Len(runs) : runs[n].parent = n - 1
  /\ phase \in {"next", "running", "finalize", "returned"} => Len(runs) = Len(iterations)
  /\ phase \in {"finalize", "returned"} => Len(runs) > 0
  /\ phase = "evaluating" => Len(runs) = Len(iterations) + 1
  /\ phase = "raised" => Len(runs) \in {Len(iterations), Len(iterations) + 1}
  /\ phase = "running" => building = Len(iterations)

(* Neither the verdict nor an error of this iteration stops the loop. *)
MayGoOn(n) == ~iterations[n].passed /\ ~(stopOnError /\ runs[n].errored)

(* All but the last could be followed by another, and the last as well until it has stopped the loop. *)
GoesOnWhileItMay ==
  /\ \A n \in 1..Len(iterations) : n < Len(iterations) => MayGoOn(n)
  /\ phase \in {"next", "running", "evaluating", "raised"} => \A n \in 1..Len(iterations) : MayGoOn(n)

(* The result is that of the last iteration. *)
Resulting ==
  phase = "returned" =>
    result = [passed |-> iterations[Len(iterations)].passed, final |-> Len(runs),
      cost |-> L!CostOf(iterations)]

(* The events of the iteration under way, the order in which they come, and  *)
(* what was heard.                                                           *)
Place == IF phase = "running" THEN 1 ELSE IF phase = "evaluating" THEN 2 ELSE 0

Heed == <<"evaluated", "started", "ran">>

Hearing ==
  /\ \A n \in 1..Len(heard) : heard[n] # "completed" => heard[n] = Heed[(n % 3) + 1]
  /\ ~left /\ phase \notin L!Over => Len(heard) = 3 * Len(iterations) + Place
  /\ ~left /\ kind # "run" /\ phase = "returned" => \E n \in 1..Len(heard) : heard[n] = "completed"
  /\ phase # "returned" => \A n \in 1..Len(heard) : heard[n] # "completed"

(* The inductive invariant. *)
LInv == LoopShape /\ OneEach /\ GoesOnWhileItMay /\ Resulting /\ Hearing

-----------------------------------------------------------------------------
(* The cost that is returned, a fold over the iterations,
  is that of the runs: both folds are chosen by the
   same equation. *)
LEMMA CostsAgree ==
  ASSUME iterations \in Seq([run : Nat, passed : BOOLEAN]),
         runs \in Seq([parent : Nat, errored : BOOLEAN, cost : Nat]),
         Len(iterations) = Len(runs),
         \A n \in 1..Len(iterations) : iterations[n].run = n
  PROVE  L!CostOf(iterations) = L!FoldSeq(LAMBDA r, sum : sum + r.cost, 0, runs)
<1> DEFINE one(s) == CHOOSE x \in s : TRUE
           told(g) == [s \in SUBSET DOMAIN iterations |->
                         IF s = {} THEN 0 ELSE g[s \ {one(s)}] + runs[iterations[one(s)].run].cost]
           began(g) == [s \in SUBSET DOMAIN runs |->
                         IF s = {} THEN 0 ELSE g[s \ {one(s)}] + runs[one(s)].cost]
<1>1. L!CostOf(iterations) = (CHOOSE g : g = told(g))[DOMAIN iterations]
  BY DEF L!CostOf, L!FoldSeq, L!FoldFunction, L!FoldFunctionOnSet, L!MapThenFoldSet
<1>2. L!FoldSeq(LAMBDA r, sum : sum + r.cost, 0, runs) = (CHOOSE g : g = began(g))[DOMAIN runs]
  BY DEF L!FoldSeq, L!FoldFunction, L!FoldFunctionOnSet, L!MapThenFoldSet
<1>3. DOMAIN iterations = DOMAIN runs /\ \A x \in DOMAIN runs : iterations[x].run = x
  OBVIOUS
<1>4. \A g : g = told(g) <=> g = began(g)
  <2>1. \A s \in SUBSET DOMAIN runs : s # {} => one(s) \in DOMAIN runs
    OBVIOUS
  <2>2. \A s \in SUBSET DOMAIN runs : s # {} => runs[iterations[one(s)].run].cost = runs[one(s)].cost
    <3> HIDE DEF one
    <3> QED
      BY <1>3, <2>1
  <2>3. ASSUME NEW g PROVE told(g) = began(g)
    <3> HIDE DEF one
    <3> QED
      BY <1>3, <2>2
  <2> HIDE DEF told, began
  <2> QED
    BY <2>3, Zenon
<1>5. (CHOOSE g : g = told(g)) = (CHOOSE g : g = began(g))
  <2> HIDE DEF told, began
  <2> QED
    BY <1>4, Zenon
<1> QED
  BY <1>1, <1>2, <1>3, <1>5

-----------------------------------------------------------------------------
(* It holds at first. *)
LEMMA LoopStarts == L!Init => LInv
<1> SUFFICES ASSUME L!Init PROVE LInv
  OBVIOUS
<1>1. Len(iterations) = 0 /\ Len(runs) = 0 /\ Len(heard) = 0
  BY DEF L!Init
<1>2. /\ <<>> \in Seq([parent : Nat, errored : BOOLEAN, cost : Nat])
      /\ <<>> \in Seq([run : Nat, passed : BOOLEAN])
      /\ <<>> \in Seq({"started", "ran", "evaluated", "completed"})
  OBVIOUS
<1>3. LoopShape
  BY <1>2 DEF L!Init, LoopShape
<1>4. OneEach /\ GoesOnWhileItMay /\ Resulting /\ Hearing
  BY <1>1 DEF L!Init, OneEach, GoesOnWhileItMay, Resulting, Hearing, L!Over, Place
<1> QED
  BY <1>3, <1>4 DEF LInv

(* The cost depends on the runs and iterations alone. *)
LEMMA CostStill ==
  ASSUME UNCHANGED <<runs, iterations>> PROVE L!CostOf(iterations)' = L!CostOf(iterations)
BY DEF L!CostOf, L!FoldSeq, L!FoldFunction, L!FoldFunctionOnSet, L!MapThenFoldSet

(* A stutter keeps the invariant. *)
LEMMA LoopStill ==
  ASSUME LInv, UNCHANGED L!vars PROVE LInv'
<1>1. LoopShape' /\ OneEach'
  BY DEF LInv, L!vars, LoopShape, OneEach, L!Over
<1>4. GoesOnWhileItMay'
  BY DEF LInv, L!vars, GoesOnWhileItMay, MayGoOn
<1>2. Resulting'
  <2>1. L!CostOf(iterations)' = L!CostOf(iterations)
    BY CostStill DEF L!vars
  <2> QED
    BY <2>1 DEF LInv, L!vars, Resulting
<1>3. Hearing'
  BY DEF LInv, L!vars, Hearing, L!Over, Place
<1> QED
  BY <1>1, <1>2, <1>3, <1>4 DEF LInv

(* What is heard next is in its turn. *)
LEMMA HeardInTurn ==
  ASSUME LInv, phase \notin L!Over, NEW event \in {"started", "ran", "evaluated"},
         heard' = L!Heard(event), UNCHANGED left,
         ~left => event = Heed[((Len(heard) + 1) % 3) + 1]
  PROVE  /\ heard' \in Seq({"started", "ran", "evaluated", "completed"})
         /\ \A n \in 1..Len(heard') : heard'[n] # "completed"
         /\ \A n \in 1..Len(heard') : heard'[n] = Heed[(n % 3) + 1]
         /\ ~left => Len(heard') = Len(heard) + 1
<1>1. \A n \in 1..Len(heard) : heard[n] # "completed" /\ heard[n] = Heed[(n % 3) + 1]
  BY DEF LInv, Hearing, L!Over
<1>2. CASE left
  BY <1>1, <1>2 DEF L!Heard, LInv, LoopShape
<1>3. CASE ~left
  <2>1. /\ heard' = Append(heard, event) /\ Len(heard') = Len(heard) + 1
        /\ heard'[Len(heard) + 1] = event
        /\ \A n \in 1..Len(heard) : heard'[n] = heard[n]
        /\ heard' \in Seq({"started", "ran", "evaluated", "completed"})
        /\ Len(heard) \in Nat
    BY <1>3 DEF L!Heard, LInv, LoopShape
  <2> HIDE DEF Heed
  <2>2. \A n \in 1..Len(heard') : n \in 1..Len(heard) \/ n = Len(heard) + 1
    BY <2>1
  <2> QED
    BY <1>1, <1>3, <2>1, <2>2
<1> QED
  BY <1>2, <1>3

(* The start of an iteration keeps the invariant. *)
LEMMA StartsKept ==
  ASSUME LInv, L!IterationStarts PROVE LInv'
<1>1. Len(iterations) \in Nat /\ Len(runs) = Len(iterations) /\ Len(runs) \in Nat
  BY DEF L!IterationStarts, LInv, LoopShape, OneEach
<1>2. ~left => "started" = Heed[((Len(heard) + 1) % 3) + 1]
  <2>1. ~left => Len(heard) = 3 * Len(iterations)
    BY <1>1 DEF L!IterationStarts, LInv, Hearing, L!Over, Place
  <2>2. (3 * Len(iterations) + 1) % 3 = 1
    BY <1>1
  <2> QED
    BY <2>1, <2>2 DEF Heed
<1>3. /\ heard' \in Seq({"started", "ran", "evaluated", "completed"})
      /\ \A n \in 1..Len(heard') : heard'[n] # "completed"
      /\ \A n \in 1..Len(heard') : heard'[n] = Heed[(n % 3) + 1]
      /\ ~left => Len(heard') = Len(heard) + 1
  BY <1>2, HeardInTurn DEF L!IterationStarts, L!Over
<1>4. Hearing'
  <2> HIDE DEF Heed
  <2> QED
    BY <1>1, <1>3 DEF L!IterationStarts, LInv, Hearing, L!Over, Place
<1>5. L!Parent = Len(iterations)
  BY <1>1 DEF L!Parent, L!NoRun, L!Last, LInv, LoopShape, OneEach
<1>6. LoopShape' /\ OneEach' /\ GoesOnWhileItMay' /\ Resulting'
  BY <1>3, <1>5 DEF L!IterationStarts, LInv, LoopShape, OneEach, GoesOnWhileItMay, MayGoOn, Resulting,
     L!Over
<1> QED
  BY <1>4, <1>6 DEF LInv

(* So does the return of the pipeline. *)
LEMMA ReturnsKept ==
  ASSUME LoopSane, LInv, L!PipelineReturns PROVE LInv'
<1>1. Len(iterations) \in Nat /\ Len(runs) = Len(iterations) /\ Len(runs) \in Nat
      /\ building = Len(iterations)
  BY DEF L!PipelineReturns, LInv, LoopShape, OneEach
<1>2. ~left => "ran" = Heed[((Len(heard) + 1) % 3) + 1]
  <2>1. ~left => Len(heard) = 3 * Len(iterations) + 1
    BY <1>1 DEF L!PipelineReturns, LInv, Hearing, L!Over, Place
  <2>2. (3 * Len(iterations) + 1 + 1) % 3 = 2
    BY <1>1
  <2> QED
    BY <2>1, <2>2 DEF Heed
<1>3. /\ heard' \in Seq({"started", "ran", "evaluated", "completed"})
      /\ \A n \in 1..Len(heard') : heard'[n] # "completed"
      /\ \A n \in 1..Len(heard') : heard'[n] = Heed[(n % 3) + 1]
      /\ ~left => Len(heard') = Len(heard) + 1
  BY <1>2, HeardInTurn DEF L!PipelineReturns, L!Over
<1>4. Hearing'
  <2> HIDE DEF Heed
  <2> QED
    BY <1>1, <1>3 DEF L!PipelineReturns, LInv, Hearing, L!Over, Place
<1>5. PICK errored \in BOOLEAN, cost \in Nat :
        runs' = Append(runs, [parent |-> building, errored |-> errored, cost |-> cost])
  BY DEF L!PipelineReturns, LoopSane
<1>6. /\ runs' \in Seq([parent : Nat, errored : BOOLEAN, cost : Nat])
      /\ Len(runs') = Len(runs) + 1 /\ runs'[Len(runs) + 1].parent = Len(runs)
      /\ \A n \in 1..Len(runs) : runs'[n] = runs[n]
  BY <1>1, <1>5 DEF LInv, LoopShape
<1>7. LoopShape'
  BY <1>3, <1>6 DEF L!PipelineReturns, LInv, LoopShape
<1>8. OneEach' /\ GoesOnWhileItMay' /\ Resulting'
  BY <1>1, <1>6 DEF L!PipelineReturns, LInv, OneEach, GoesOnWhileItMay, MayGoOn, Resulting, L!Over
<1> QED
  BY <1>4, <1>7, <1>8 DEF LInv

(* So does an evaluation, whether it ends the loop or not. *)
LEMMA EvaluationKept ==
  ASSUME LoopSane, LInv, L!Evaluated PROVE LInv'
<1>1. Len(iterations) \in Nat /\ Len(runs) = Len(iterations) + 1 /\ Len(runs) \in Nat
  BY DEF L!Evaluated, LInv, LoopShape, OneEach
<1>2. ~left => "evaluated" = Heed[((Len(heard) + 1) % 3) + 1]
  <2>1. ~left => Len(heard) = 3 * Len(iterations) + 2
    BY <1>1 DEF L!Evaluated, LInv, Hearing, L!Over, Place
  <2>2. (3 * Len(iterations) + 2 + 1) % 3 = 0
    BY <1>1
  <2> QED
    BY <2>1, <2>2 DEF Heed
<1>3. /\ heard' \in Seq({"started", "ran", "evaluated", "completed"})
      /\ \A n \in 1..Len(heard') : heard'[n] # "completed"
      /\ \A n \in 1..Len(heard') : heard'[n] = Heed[(n % 3) + 1]
      /\ ~left => Len(heard') = Len(heard) + 1
  BY <1>2, HeardInTurn DEF L!Evaluated, L!Over
<1>4. PICK passed \in BOOLEAN :
        /\ iterations' = Append(iterations, [run |-> Len(runs), passed |-> passed])
        /\ phase' = IF L!ShouldStop(passed) \/ Len(iterations') =
             MaxIterations THEN "finalize" ELSE "next"
  BY DEF L!Evaluated
<1>5. /\ iterations' \in Seq([run : Nat, passed : BOOLEAN])
      /\ Len(iterations') = Len(runs) /\ iterations'[Len(runs)] = [run |-> Len(runs), passed |-> passed]
      /\ \A n \in 1..Len(iterations) : iterations'[n] = iterations[n]
      /\ Len(iterations') = Len(iterations) + 1
  BY <1>1, <1>4 DEF LInv, LoopShape
<1>6. Hearing'
  <2> HIDE DEF Heed
  <2>1. ~left' => Len(heard') = 3 * Len(iterations')
    BY <1>1, <1>3, <1>5 DEF L!Evaluated, LInv, Hearing, L!Over, Place
  <2> QED
    BY <1>3, <1>4, <2>1 DEF Hearing, Place, L!Evaluated
<1>7. LoopShape'
  BY <1>3, <1>4, <1>5 DEF L!Evaluated, LInv, LoopShape
<1>8. OneEach' /\ Resulting'
  BY <1>1, <1>4, <1>5 DEF L!Evaluated, LInv, OneEach, Resulting
<1>9. GoesOnWhileItMay'
  <2>1. /\ \A n \in 1..Len(iterations) : MayGoOn(n)' /\ n \in Nat
    BY <1>5 DEF L!Evaluated, LInv, GoesOnWhileItMay, MayGoOn
  <2>2. phase' = "next" => MayGoOn(Len(runs))'
    BY <1>4, <1>5 DEF L!Evaluated, L!ShouldStop, MayGoOn, L!Last
  <2>3. \A n \in 1..Len(iterations') : n \in 1..Len(iterations) \/ n = Len(runs)
    BY <1>1, <1>5
  <2>4. \A n \in 1..Len(iterations') : n < Len(iterations') => MayGoOn(n)'
    BY <1>1, <1>5, <2>1
  <2>5. phase' \in {"next", "finalize"}
    BY <1>4
  <2>6. phase' = "next" => \A n \in 1..Len(iterations') : MayGoOn(n)'
    <3> SUFFICES ASSUME phase' = "next", NEW n \in 1..Len(iterations') PROVE MayGoOn(n)'
      OBVIOUS
    <3>1. CASE n \in 1..Len(iterations)
      BY <2>1, <3>1
    <3>2. CASE n = Len(runs)
      <4>1. n = Len(runs)'
        BY <3>2 DEF L!Evaluated
      <4> QED
        BY <2>2, <3>2, <4>1 DEF MayGoOn
    <3> QED
      BY <2>3, <3>1, <3>2
  <2> QED
    BY <2>4, <2>5, <2>6 DEF GoesOnWhileItMay
<1> QED
  BY <1>6, <1>7, <1>8, <1>9 DEF LInv

(* So do an exception, the end of the loop and a consumer that leaves. *)
LEMMA OthersKept ==
  ASSUME LInv, L!Raises \/ L!Finalize \/ L!ConsumerLeaves PROVE LInv'
<1>1. CASE L!Raises
  BY <1>1 DEF L!Raises, LInv, LoopShape, OneEach, GoesOnWhileItMay, MayGoOn, Resulting, Hearing,
     L!Over, Place
<1>2. CASE L!ConsumerLeaves
  BY <1>2 DEF L!ConsumerLeaves, LInv, LoopShape, OneEach, GoesOnWhileItMay, MayGoOn, Resulting,
     Hearing, L!Over, Place
<1>3. CASE L!Finalize
  <2>1. /\ Len(heard) \in Nat /\ heard \in Seq({"started", "ran", "evaluated", "completed"})
        /\ \A n \in 1..Len(heard) : heard[n] = Heed[(n % 3) + 1]
    BY <1>3 DEF L!Finalize, LInv, LoopShape, Hearing
  <2>2. \/ heard' = heard /\ (left \/ kind = "run")
        \/ heard' = Append(heard, "completed")
    BY <1>3 DEF L!Finalize, L!Heard
  <2>3. heard' \in Seq({"started", "ran", "evaluated", "completed"})
    BY <2>1, <2>2
  <2>4. Hearing'
    <3> HIDE DEF Heed
    <3>1. CASE heard' = heard /\ (left \/ kind = "run")
      BY <1>3, <2>1, <3>1 DEF L!Finalize, Hearing, L!Over
    <3>2. CASE heard' = Append(heard, "completed")
      <4>1. /\ Len(heard') = Len(heard) + 1 /\ heard'[Len(heard) + 1] = "completed"
            /\ \A n \in 1..Len(heard) : heard'[n] = heard[n]
            /\ \A n \in 1..Len(heard') : n \in 1..Len(heard) \/ n = Len(heard) + 1
            /\ Len(heard) + 1 \in 1..Len(heard')
        BY <2>1, <3>2
      <4> QED
        BY <1>3, <2>1, <4>1 DEF L!Finalize, Hearing, L!Over
    <3> QED
      BY <2>2, <3>1, <3>2
  <2>5. result' = [passed |-> iterations[Len(iterations)].passed, final |-> Len(runs),
        cost |-> L!CostOf(iterations)]
    <3>1. L!Last(iterations).run = Len(runs)
      BY <1>3 DEF L!Finalize, L!Last, LInv, LoopShape, OneEach
    <3> QED
      BY <1>3, <3>1 DEF L!Finalize, L!Last
  <2>6. Resulting'
    <3>1. L!CostOf(iterations)' = L!CostOf(iterations)
      BY <1>3, CostStill DEF L!Finalize
    <3> QED
      BY <1>3, <2>5, <3>1 DEF L!Finalize, Resulting
  <2> QED
    BY <1>3, <2>3, <2>4, <2>6 DEF L!Finalize, LInv, LoopShape, OneEach, GoesOnWhileItMay, MayGoOn,
       L!Over
<1> QED
  BY <1>1, <1>2, <1>3

(* The invariant holds of every loop, for any bound on its iterations and    *)
(* any costs.                                                                *)
THEOREM LoopInvariance ==
  ASSUME LoopSane
  PROVE  /\ L!Spec => []LInv
         /\ MCSpec => []LInv
<1>1. LInv /\ [L!Next]_L!vars => LInv'
  BY LoopStill, StartsKept, ReturnsKept, EvaluationKept, OthersKept DEF L!Next
<1> QED
  BY <1>1, LoopStarts, Machines, PTL DEF L!Spec, MCSpec

(* What the loop returns is what its runs did, their costs included; what    *)
(* was heard is the loop in order; and no run is started once the consumer   *)
(* of a stream has left (agents/loop.py).                                    *)
THEOREM LoopTellsWhatItDid ==
  ASSUME LoopSane
  PROVE  /\ L!Spec => [](L!ResultIsTheRuns /\ L!HeardIsTheLoop) /\ L!NoRunForNobody
         /\ MCSpec => LoopIsTrue
<1>1. LInv => L!ResultIsTheRuns
  <2> SUFFICES ASSUME LInv PROVE L!ResultIsTheRuns
    OBVIOUS
  <2>1. \A n \in 1..(Len(runs) - 1) : ~iterations[n].passed /\ ~(stopOnError /\ runs[n].errored)
    <3>1. Len(runs) \in Nat /\ Len(iterations) \in Nat
      BY DEF LInv, LoopShape
    <3>2. CASE Len(runs) = Len(iterations)
      <4>1. \A n \in 1..Len(iterations) : n < Len(iterations) => MayGoOn(n)
        BY DEF LInv, GoesOnWhileItMay
      <4> QED
        BY <3>1, <3>2, <4>1 DEF MayGoOn
    <3>3. CASE Len(runs) = Len(iterations) + 1
      <4>1. phase \in {"next", "running", "evaluating", "raised"}
        BY <3>1, <3>3 DEF LInv, LoopShape, OneEach, L!Over
      <4>2. \A n \in 1..Len(iterations) : MayGoOn(n)
        BY <4>1 DEF LInv, GoesOnWhileItMay
      <4>3. \A n \in 1..(Len(runs) - 1) : n \in 1..Len(iterations)
        BY <3>1, <3>3
      <4> QED
        BY <4>2, <4>3 DEF MayGoOn
    <3> QED
      BY <3>1, <3>2, <3>3 DEF LInv, LoopShape, OneEach, L!Over
  <2>2. ASSUME phase = "returned"
        PROVE  /\ result.final = Len(runs) /\ (result.passed => L!Last(iterations).passed)
               /\ result.cost = L!FoldSeq(LAMBDA r, sum : sum + r.cost, 0, runs)
    <3>1. L!CostOf(iterations) = L!FoldSeq(LAMBDA r, sum : sum + r.cost, 0, runs)
      <4>1. /\ iterations \in Seq([run : Nat, passed : BOOLEAN])
            /\ runs \in Seq([parent : Nat, errored : BOOLEAN, cost : Nat])
            /\ Len(iterations) = Len(runs)
            /\ \A n \in 1..Len(iterations) : iterations[n].run = n
        BY <2>2 DEF LInv, LoopShape, OneEach
      <4> QED
        BY <4>1, CostsAgree
    <3>2. /\ result.final = Len(runs) /\ result.passed = L!Last(iterations).passed
          /\ result.cost = L!CostOf(iterations)
      BY <2>2 DEF LInv, Resulting, L!Last
    <3> QED
      BY <3>1, <3>2
  <2> QED
    BY <2>1, <2>2 DEF L!ResultIsTheRuns, LInv, OneEach
<1>2. LInv => L!HeardIsTheLoop
  BY DEF LInv, Hearing, Heed, L!HeardIsTheLoop, L!Over
<1>3. [L!Next]_L!vars => [left /\ kind = "task" => runs' = runs]_L!vars
  BY DEF L!Next, L!vars, L!IterationStarts, L!PipelineReturns, L!Cancelled, L!Evaluated, L!Raises,
     L!Finalize, L!ConsumerLeaves
<1> QED
  BY <1>1, <1>2, <1>3, LoopInvariance, Machines, PTL
     DEF L!Spec, MCSpec, L!NoRunForNobody, LoopIsTrue

-----------------------------------------------------------------------------
(* The step through any one connector, for any number of attempts, outputs, *)
(* retries and resumes, any ceiling and any other jobs.                     *)

(* A job may be polled at all before its ceiling, and the provider has no  *)
(* more jobs in flight than deadlines it keeps.                            *)
DeadlinesFit ==
  /\ Ceiling \in Nat \ {0} /\ SeenMax \in Nat
  /\ IsFiniteSet(Others) /\ Cardinality(Others) < SeenMax
  /\ MaxOutputs \in Nat

(* What the proofs use of a connector's traits. *)
TraitFacts(n, t) ==
  /\ t.kind \in {"job", "call"} /\ t.attach \in {"each", "all", "replace"}
  /\ t.asks \in {"status", "result", "each"} /\ t.empty \in {"ok"} \cup C!Codes
  /\ t.inline \in BOOLEAN /\ t.ceiling \in BOOLEAN /\ t.most \in Nat
  /\ t.ends \subseteq C!Statuses /\ DOMAIN t.fails \subseteq C!Statuses \ {"succeeded"}
  /\ \A s \in DOMAIN t.fails : t.fails[s] \subseteq C!Codes
  /\ t.inline => t.kind = "job" /\ t.attach = "each" /\ t.asks = "status" /\ t.place # "new"
  /\ t.empty = "ok" => t.attach = "each"
  /\ t.kind = "call" /\ t.asks = "status" => t.empty = "permanent"
  /\ t.kind = "job" /\ t.attach = "each" /\ t.asks = "each" => n = "google_veo"
  /\ t.place = "new" => n = "google_veo" /\ t.kind = "job"
  /\ n = "google_veo" => t.place = "new"
  /\ t.ceiling => t.kind = "job" /\ ~t.inline

(* The table of the connectors gives every one of them these traits. *)
LEMMA Traits ==
  ASSUME MaxOutputs \in Nat, NEW n \in DOMAIN C!Connector
  PROVE  TraitFacts(n, C!Connector[n])
<1> USE DEF TraitFacts, C!Job, C!Call, C!Tool, C!GMICloud, C!Failing, C!Codes, C!Statuses
<1>1. DOMAIN C!Connector =
        {"replicate", "runway", "luma", "fal", "decart", "openai_sora", "gmicloud",
         "gmicloud_audio", "gmicloud_image", "nvidia_video", "google_veo", "hume",
         "assemblyai", "atlascloud", "lmnt", "openai_tts", "openai_dalle", "elevenlabs",
         "elevenlabs_sfx", "stability_audio", "decart_image", "google_imagen",
         "google_gemini_image", "nvidia_image", "nvidia_audio", "nvidia_chat",
         "ffmpeg_transform", "ffmpeg_compositor"}
  BY DEF C!Connector
<1>2. CASE n \in {"replicate", "runway", "luma", "fal"}
  <2>1. /\ C!Connector["replicate"] = C!Replicate /\ C!Connector["runway"] = C!Runway
        /\ C!Connector["luma"] = C!Luma /\ C!Connector["fal"] = C!Fal
    BY DEF C!Connector
  <2>2. TraitFacts("replicate", C!Replicate)
    BY DEF C!Replicate
  <2>3. TraitFacts("runway", C!Runway)
    BY DEF C!Runway
  <2>4. TraitFacts("luma", C!Luma)
    BY DEF C!Luma
  <2>5. TraitFacts("fal", C!Fal)
    BY DEF C!Fal
  <2> HIDE DEF TraitFacts
  <2> QED
    BY <1>2, <2>1, <2>2, <2>3, <2>4, <2>5
<1>3. CASE n \in {"decart", "openai_sora", "gmicloud", "gmicloud_audio"}
  <2>1. /\ C!Connector["decart"] = C!DecartVideo /\ C!Connector["openai_sora"] = C!Sora
        /\ C!Connector["gmicloud"] = C!GMIVideo /\ C!Connector["gmicloud_audio"] = C!GMIAudio
    BY DEF C!Connector
  <2>2. TraitFacts("decart", C!DecartVideo)
    BY DEF C!DecartVideo
  <2>3. TraitFacts("openai_sora", C!Sora)
    BY DEF C!Sora
  <2>4. TraitFacts("gmicloud", C!GMIVideo)
    BY DEF C!GMIVideo
  <2>5. TraitFacts("gmicloud_audio", C!GMIAudio)
    BY DEF C!GMIAudio
  <2> HIDE DEF TraitFacts
  <2> QED
    BY <1>3, <2>1, <2>2, <2>3, <2>4, <2>5
<1>4. CASE n \in {"gmicloud_image", "nvidia_video", "google_veo", "assemblyai"}
  <2>1. /\ C!Connector["gmicloud_image"] = C!GMIImage /\ C!Connector["nvidia_video"] = C!NvidiaVideo
        /\ C!Connector["google_veo"] = C!Veo /\ C!Connector["assemblyai"] = C!AssemblyAI
    BY DEF C!Connector
  <2>2. TraitFacts("gmicloud_image", C!GMIImage)
    BY DEF C!GMIImage
  <2>3. TraitFacts("nvidia_video", C!NvidiaVideo)
    BY DEF C!NvidiaVideo
  <2>4. TraitFacts("google_veo", C!Veo)
    BY DEF C!Veo
  <2>5. TraitFacts("assemblyai", C!AssemblyAI)
    BY DEF C!AssemblyAI
  <2> HIDE DEF TraitFacts
  <2> QED
    BY <1>4, <2>1, <2>2, <2>3, <2>4, <2>5
<1>5. CASE n \in {"hume", "atlascloud", "lmnt", "openai_tts"}
  <2>1. /\ C!Connector["hume"] = C!Hume /\ C!Connector["atlascloud"] = C!AtlasCloud
        /\ C!Connector["lmnt"] = C!LMNT /\ C!Connector["openai_tts"] = C!OpenAITTS
    BY DEF C!Connector
  <2>2. TraitFacts("hume", C!Hume)
    BY DEF C!Hume
  <2>3. TraitFacts("atlascloud", C!AtlasCloud)
    BY DEF C!AtlasCloud
  <2>4. TraitFacts("lmnt", C!LMNT)
    BY DEF C!LMNT
  <2>5. TraitFacts("openai_tts", C!OpenAITTS)
    BY DEF C!OpenAITTS
  <2> HIDE DEF TraitFacts
  <2> QED
    BY <1>5, <2>1, <2>2, <2>3, <2>4, <2>5
<1>6. CASE n \in {"openai_dalle", "elevenlabs", "elevenlabs_sfx", "stability_audio"}
  <2>1. /\ C!Connector["openai_dalle"] = C!Dalle /\ C!Connector["elevenlabs"] = C!ElevenLabs
        /\ C!Connector["elevenlabs_sfx"] = C!ElevenLabsSFX
             /\ C!Connector["stability_audio"] = C!StabilityAudio
    BY DEF C!Connector
  <2>2. TraitFacts("openai_dalle", C!Dalle)
    BY DEF C!Dalle
  <2>3. TraitFacts("elevenlabs", C!ElevenLabs)
    BY DEF C!ElevenLabs
  <2>4. TraitFacts("elevenlabs_sfx", C!ElevenLabsSFX)
    BY DEF C!ElevenLabsSFX
  <2>5. TraitFacts("stability_audio", C!StabilityAudio)
    BY DEF C!StabilityAudio
  <2> HIDE DEF TraitFacts
  <2> QED
    BY <1>6, <2>1, <2>2, <2>3, <2>4, <2>5
<1>7. CASE n \in {"decart_image", "google_imagen", "google_gemini_image", "nvidia_image"}
  <2>1. /\ C!Connector["decart_image"] = C!DecartImage /\ C!Connector["google_imagen"] = C!Imagen
        /\ C!Connector["google_gemini_image"] = C!GeminiImage
             /\ C!Connector["nvidia_image"] = C!NvidiaImage
    BY DEF C!Connector
  <2>2. TraitFacts("decart_image", C!DecartImage)
    BY DEF C!DecartImage
  <2>3. TraitFacts("google_imagen", C!Imagen)
    BY DEF C!Imagen
  <2>4. TraitFacts("google_gemini_image", C!GeminiImage)
    BY DEF C!GeminiImage
  <2>5. TraitFacts("nvidia_image", C!NvidiaImage)
    BY DEF C!NvidiaImage
  <2> HIDE DEF TraitFacts
  <2> QED
    BY <1>7, <2>1, <2>2, <2>3, <2>4, <2>5
<1>8. CASE n \in {"nvidia_audio", "nvidia_chat", "ffmpeg_transform", "ffmpeg_compositor"}
  <2>1. /\ C!Connector["nvidia_audio"] = C!NvidiaAudio /\ C!Connector["nvidia_chat"] = C!NvidiaChat
        /\ C!Connector["ffmpeg_transform"] = C!Transform
             /\ C!Connector["ffmpeg_compositor"] = C!Compositor
    BY DEF C!Connector
  <2>2. TraitFacts("nvidia_audio", C!NvidiaAudio)
    BY DEF C!NvidiaAudio, C!NvidiaImage
  <2>3. TraitFacts("nvidia_chat", C!NvidiaChat)
    BY DEF C!NvidiaChat
  <2>4. TraitFacts("ffmpeg_transform", C!Transform)
    BY DEF C!Transform
  <2>5. TraitFacts("ffmpeg_compositor", C!Compositor)
    BY DEF C!Compositor
  <2> HIDE DEF TraitFacts
  <2> QED
    BY <1>8, <2>1, <2>2, <2>3, <2>4, <2>5
<1> QED
  BY <1>1, <1>2, <1>3, <1>4, <1>5, <1>6, <1>7, <1>8

-----------------------------------------------------------------------------
(* Google's video connector without an output directory, which attaches      *)
(* again what an attempt that failed had attached.                           *)
Exempt == name = "google_veo" /\ ~dir

(* A repeated fetch would find the files of the first. *)
Taken == C!T.place = "new" /\ dir /\ gen.outs > 0 /\ 1 \in files

(* The first n outputs, in order. *)
Prefix(n) == [i \in 1..n |-> i]

(* What the variables of a step are. *)
StepShape ==
  /\ name \in DOMAIN C!Connector /\ at \in {"inputs", "poll", "fetch", "wait", "save", "over"}
  /\ gen \in [status : C!Statuses \cup {"none", "running", "inline"}, outs : Nat, odd : BOOLEAN]
  /\ verdict \in {"none", "succeeded"} \cup C!Codes
  /\ answered \in Nat /\ output \in Nat \ {0} /\ waited \in Nat
  /\ got \in {"nothing", "status", "result"}

(* What each place knows of the generation. *)
Places ==
  /\ at = "over" <=> verdict # "none"
  /\ at = "inputs" => ~known /\ gen = C!NoJob
  /\ at \in {"wait", "save"} => C!T.kind = "call" /\ gen.status = "succeeded" /\ ~known
  /\ at = "wait" => C!T.asks = "result"
  /\ at = "poll" => known
  /\ at = "fetch" => known /\ gen.status # "running"
  /\ known => C!T.kind = "job" /\ gen.status # "none"
  /\ gen.status = "inline" => C!T.inline /\ known
  /\ gen.outs > 0 => C!Ended = "succeeded"
  /\ got # "nothing" /\ verdict # "succeeded" => at = "fetch" /\ gen.outs > 0

(* An attempt attaches the outputs in order, and nothing is left of one that failed, *)
(* unless the next cannot succeed. *)
InOrder ==
  /\ output > 1 /\ verdict # "succeeded" =>
       /\ gen.outs > 0 /\ output <= gen.outs /\ C!T.attach = "each"
       /\ at = "save" \/ (at = "fetch" /\ got = IF C!T.asks = "result" THEN "result" ELSE "status")
       /\ C!T.place = "new" /\ dir => 1 \in files
  /\ C!T.attach = "all" /\ verdict # "succeeded" => assets = <<>>
  /\ C!T.attach = "each" /\ ~Exempt /\ verdict # "succeeded" /\ (C!T.kind = "job" \/ at # "over") =>
       \/ assets = Prefix(output - 1)
       \/ gen.odd /\ gen.outs > 0
       \/ Taken /\ output = 1

(* An answer that came with the submission stays until it is attached. *)
Usable == gen.status = "inline" /\ ~crashed /\ ~gen.odd /\ gen.outs > 0
AnswerKept ==
  Usable => /\ verdict \notin C!Codes
            /\ verdict = "succeeded" \/ polled \/ (at = "fetch" /\ got = "status")

(* Only these steps fail by the doing of the SDK. *)
Blame == cause = "self" => gen.status = "inline" \/ (C!T.place = "new" /\ dir)

(* A generation is paid for once, or its connector asks the upstream again   *)
(* at each attempt.                                                          *)
Accounted ==
  \/ C!T.kind = "call" /\ C!T.asks # "status"
  \/ answered <= 1 /\ (at = "inputs" => answered = 0)

(* The ceiling runs from the first poll on, and the connector has not        *)
(* forgotten when that was.                                                  *)
Deadlines ==
  C!T.ceiling =>
    /\ waited <= Ceiling
    /\ gen.status \in {"none", "running"} =>
         /\ since = 0 /\ seen \in Seq({C!Key} \cup Others)
         /\ \A i, j \in 1..Len(seen) : seen[i] = seen[j] => i = j
         /\ waited > 0 => C!Contains(seen, C!Key)

(* The inductive invariant. *)
ConnectorInv ==
  /\ StepShape /\ Places /\ InOrder /\ AnswerKept /\ Blame /\ Accounted /\ Deadlines
  /\ C!SuccessIsTheJob

-----------------------------------------------------------------------------
(* A step that leaves the clock alone keeps the deadlines. *)
LEMMA ClockStill ==
  ASSUME Deadlines, UNCHANGED name, UNCHANGED C!clockVars,
         C!T.ceiling /\ gen'.status \in {"none", "running"} => gen.status \in {"none", "running"}
  PROVE  Deadlines'
BY DEF Deadlines, C!clockVars, C!T, C!Contains, C!Key

(* What else is true when an attempt fails. *)
FairFailure(code, who) ==
  /\ verdict = "none" /\ ~Usable
  /\ who = "self" => gen.status = "inline" \/ (C!T.place = "new" /\ dir)
  /\ C!T.kind = "call" /\ C!T.asks = "status" => code = "permanent" \/ at = "inputs"
  /\ output > 1 /\ C!T.kind = "job" => gen.odd \/ C!T.place = "new"
  /\ UNCHANGED answered /\ UNCHANGED files /\ UNCHANGED C!clockVars

(* A fair failure keeps the invariant, at whichever attempt. *)
LEMMA ErrorKept ==
  ASSUME DeadlinesFit, ConnectorInv, NEW code \in C!Codes, NEW who, C!Error(code, who),
         FairFailure(code, who)
  PROVE  ConnectorInv'
<1>1. TraitFacts(name, C!T) /\ C!T' = C!T /\ C!Codes = {"transient", "permanent"}
  BY Traits DEF DeadlinesFit, ConnectorInv, StepShape, C!T, C!Error, C!jobVars, C!Codes
<1>2. /\ output' = 1 /\ got' = "nothing" /\ cause' = who
      /\ UNCHANGED <<name, dir, known, crashed, answered, files, waited, since, seen>>
  BY DEF C!Error, FairFailure, C!jobVars, C!clockVars
<1>3. \/ /\ at' = at /\ at \in {"poll", "fetch"} /\ verdict' = verdict
         /\ gen' = gen /\ assets' = assets
      \/ /\ verdict' = verdict /\ assets' = <<>> /\ code = "transient"
         /\ at' = IF known THEN "poll" ELSE "inputs"
         /\ gen' = IF known THEN gen ELSE C!NoJob
      \/ at' = "over" /\ verdict' = code /\ gen' = gen /\ assets' = assets
  BY DEF C!Error, C!RetryPhase, C!RetryStep, C!Settle
<1>4. StepShape'
  <2>1. gen' \in {gen, C!NoJob} /\ at' \in {at, "poll", "inputs", "over"}
    BY <1>3
  <2>2. C!NoJob \in [status : C!Statuses \cup {"none", "running", "inline"}, outs : Nat, odd : BOOLEAN]
    BY DEF C!NoJob
  <2> QED
    BY <1>1, <1>2, <1>3, <2>1, <2>2 DEF ConnectorInv, StepShape
<1>5. Places'
  BY <1>1, <1>2, <1>3 DEF ConnectorInv, StepShape, Places, FairFailure, C!NoJob, C!Ended
<1>6. InOrder'
  <2>1. Prefix(0) = <<>>
    BY DEF Prefix
  <2>2. output > 1 => C!T.attach = "each" /\ (C!T.kind = "job" => (gen.odd
        /\ gen.outs > 0) \/ Taken \/ Exempt)
    BY <1>1 DEF ConnectorInv, InOrder, FairFailure, Taken, TraitFacts, Exempt
  <2>3. C!T.attach = "all" => assets' = <<>>
    BY <1>3 DEF ConnectorInv, InOrder, FairFailure
  <2>4. ASSUME C!T.attach = "each", ~Exempt, C!T.kind = "job" \/ at' # "over"
        PROVE  assets' = Prefix(0) \/ (gen'.odd /\ gen'.outs > 0) \/ Taken'
    <3>1. CASE gen' = gen /\ assets' = assets /\ C!T.kind = "job"
      <4>1. Taken' = Taken
        BY <1>1, <1>2, <3>1 DEF Taken
      <4> QED
        BY <2>2, <2>4, <3>1, <4>1 DEF ConnectorInv, StepShape, Places, InOrder, FairFailure
    <3>2. CASE assets' = <<>>
      BY <2>1, <3>2
    <3> QED
      BY <1>3, <2>4, <3>1, <3>2 DEF ConnectorInv, Places
  <2>5. Exempt' = Exempt
    BY <1>2 DEF Exempt
  <2> QED
    BY <1>1, <1>2, <2>1, <2>3, <2>4, <2>5 DEF InOrder
<1>7. AnswerKept' /\ Blame'
  BY <1>1, <1>2, <1>3 DEF ConnectorInv, StepShape, Places, AnswerKept, Blame, Usable, FairFailure,
     C!NoJob
<1>8. Accounted'
  <2>1. CASE C!T.kind = "job"
    <3>1. at' = "inputs" => at = "inputs"
      BY <1>3, <2>1 DEF ConnectorInv, StepShape, Places, FairFailure
    <3> QED
      BY <1>1, <1>2, <3>1 DEF ConnectorInv, Accounted
  <2>2. CASE C!T.kind = "call" /\ C!T.asks = "status"
    <3>1. at' = "inputs" => at = "inputs"
      BY <1>1, <1>3, <2>2 DEF ConnectorInv, StepShape, Places, FairFailure
    <3> QED
      BY <1>1, <1>2, <3>1 DEF ConnectorInv, Accounted
  <2> QED
    BY <1>1, <2>1, <2>2 DEF Accounted, TraitFacts
<1>9. Deadlines'
  <2>1. ASSUME C!T.ceiling, gen'.status \in {"none", "running"}
        PROVE  gen.status \in {"none", "running"}
    <3>1. known \/ gen = C!NoJob
      BY <1>1, <2>1 DEF ConnectorInv, StepShape, Places, FairFailure, TraitFacts
    <3> QED
      BY <1>3, <2>1, <3>1 DEF C!NoJob
  <2> QED
    BY <1>2, <2>1, ClockStill DEF ConnectorInv, C!clockVars
<1>10. C!SuccessIsTheJob'
  BY <1>1, <1>2, <1>3 DEF C!SuccessIsTheJob, FairFailure
<1> QED
  BY <1>4, <1>5, <1>6, <1>7, <1>8, <1>9, <1>10 DEF ConnectorInv

-----------------------------------------------------------------------------
(* The invariant holds at first. *)
LEMMA ConnectorStarts ==
  ASSUME DeadlinesFit, C!Init PROVE ConnectorInv
<1>1. TraitFacts(name, C!T)
  BY Traits DEF DeadlinesFit, C!Init, C!T
<1>2. StepShape
  BY DEF C!Init, StepShape, C!NoJob
<1>3. Places /\ AnswerKept /\ Blame /\ Accounted /\ C!SuccessIsTheJob
  BY DEF C!Init, Places, AnswerKept, Usable, Blame, Accounted, C!SuccessIsTheJob, C!NoJob, C!Codes
<1>4. InOrder
  <2>1. Prefix(0) = <<>>
    BY DEF Prefix
  <2> QED
    BY <2>1 DEF C!Init, InOrder
<1>5. Deadlines
  BY DEF C!Init, Deadlines, DeadlinesFit
<1> QED
  BY <1>2, <1>3, <1>4, <1>5 DEF ConnectorInv

(* A stutter keeps it. *)
LEMMA ConnectorStill ==
  ASSUME ConnectorInv, UNCHANGED C!vars PROVE ConnectorInv'
BY DEF ConnectorInv, C!vars, C!jobVars, C!upVars, C!fetchVars, C!inputVars, C!clockVars, StepShape,
   Places, InOrder,
       AnswerKept, Usable, Blame, Accounted, Deadlines, C!SuccessIsTheJob, C!T, C!Ended, Taken,
         Exempt, Prefix,
       C!Every, C!Contains, C!Key

(* Each failure is a fair one. *)
LEMMA FailuresKept ==
  ASSUME DeadlinesFit, ConnectorInv,
         \/ C!InputFails \/ C!SubmitFails \/ C!PollStalled \/ C!PollFails \/ C!StatusUnread
         \/ C!ResultUnread \/ C!DownloadFails \/ C!OutputUnusable \/ C!FileExists
  PROVE  ConnectorInv'
<1>1. TraitFacts(name, C!T) /\ C!Codes = {"transient", "permanent"}
  BY Traits DEF DeadlinesFit, ConnectorInv, StepShape, C!T, C!Codes
<1>2. CASE C!InputFails \/ C!SubmitFails
  <2>1. \A code \in C!Codes, who \in {"network", "upstream"} :
          C!Error(code, who) => FairFailure(code, who)
    BY <1>1, <1>2 DEF C!InputFails, C!SubmitFails, FairFailure, ConnectorInv, StepShape, Places,
       InOrder, Usable, C!NoJob, C!clockVars
  <2>2. \E code \in C!Codes, who \in {"network", "upstream"} : C!Error(code, who)
    BY <1>1, <1>2 DEF C!InputFails, C!SubmitFails
  <2> QED
    BY <2>1, <2>2, ErrorKept
<1>3. CASE C!PollStalled \/ C!PollFails
  <2>1. \A code \in C!Codes, who \in {"network", "upstream", "clock"} :
          C!Error(code, who) => FairFailure(code, who)
    BY <1>1, <1>3 DEF C!PollStalled, C!PollFails, FairFailure, ConnectorInv, StepShape, Places,
       InOrder, Usable, C!NoJob, C!clockVars, TraitFacts
  <2>2. \E code \in C!Codes, who \in {"network", "upstream", "clock"} : C!Error(code, who)
    BY <1>1, <1>3 DEF C!PollStalled, C!PollFails, TraitFacts
  <2> QED
    BY <2>1, <2>2, ErrorKept
<1>4. CASE C!StatusUnread
  <2>1. PICK who \in {"self", "network"} :
          C!Error("transient", who) /\ (who = "self" => gen.status = "inline")
    BY <1>4 DEF C!StatusUnread
  <2>2. FairFailure("transient", who)
    BY <1>1, <1>4, <2>1 DEF C!StatusUnread, FairFailure, ConnectorInv, StepShape, Places, InOrder,
       AnswerKept, Usable, C!clockVars, TraitFacts
  <2> QED
    BY <1>1, <2>1, <2>2, ErrorKept
<1>5. CASE C!ResultUnread
  <2>1. FairFailure("transient", "network") /\ C!Error("transient", "network")
    BY <1>1, <1>5 DEF C!ResultUnread, FairFailure, ConnectorInv, StepShape, Places, InOrder, Usable,
       C!clockVars, TraitFacts
  <2> QED
    BY <1>1, <2>1, ErrorKept
<1>6. CASE C!DownloadFails
  <2>1. PICK code \in C!Codes : C!Error(code, "network")
    BY <1>6 DEF C!DownloadFails
  <2>2. FairFailure(code, "network")
    BY <1>1, <1>6, <2>1 DEF C!DownloadFails, C!Attaching, FairFailure, ConnectorInv, StepShape, Places,
       InOrder, Usable, C!clockVars, TraitFacts
  <2> QED
    BY <2>1, <2>2, ErrorKept
<1>7. CASE C!OutputUnusable
  <2>1. FairFailure("permanent", "upstream") /\ C!Error("permanent", "upstream")
    BY <1>1, <1>7 DEF C!OutputUnusable, C!Attaching, FairFailure, ConnectorInv, StepShape, Places,
       InOrder, Usable, C!clockVars, TraitFacts
  <2> QED
    BY <1>1, <2>1, ErrorKept
<1>8. CASE C!FileExists
  <2>1. FairFailure("permanent", "self") /\ C!Error("permanent", "self")
    BY <1>1, <1>8 DEF C!FileExists, C!Attaching, FairFailure, ConnectorInv, StepShape, Places, InOrder,
       Usable, C!clockVars, TraitFacts
  <2> QED
    BY <1>1, <2>1, ErrorKept
<1> QED
  BY <1>2, <1>3, <1>4, <1>5, <1>6, <1>7, <1>8

-----------------------------------------------------------------------------
(* Submissions, and calls that answer at once, keep the invariant. *)
LEMMA SubmitKept ==
  ASSUME DeadlinesFit, ConnectorInv, C!InputFetched \/ C!Submitted \/ C!SubmittedInline \/ C!Called
  PROVE  ConnectorInv'
<1>1. TraitFacts(name, C!T) /\ C!T' = C!T
  BY Traits DEF DeadlinesFit, ConnectorInv, StepShape, C!T, C!InputFetched, C!Submitted,
     C!SubmittedInline, C!Called, C!Goes, C!jobVars
<1>2. /\ at = "inputs" /\ ~known /\ gen = C!NoJob /\ verdict = "none" /\ output = 1 /\ got = "nothing"
      /\ C!NoJob.status = "none" /\ C!NoJob.outs = 0 /\ ~C!NoJob.odd
      /\ C!T.attach = "all" => assets = <<>>
      /\ C!T.attach = "each" /\ ~Exempt => assets = Prefix(0)
  <2>1. at = "inputs" /\ C!NoJob.status = "none" /\ C!NoJob.outs = 0 /\ ~C!NoJob.odd
    BY DEF C!NoJob, C!InputFetched, C!Submitted, C!SubmittedInline, C!Called, C!Accepted
  <2>2. ~known /\ gen = C!NoJob /\ verdict = "none"
    BY <2>1 DEF ConnectorInv, Places
  <2>3. output = 1 /\ got = "nothing"
    BY <2>1, <2>2 DEF ConnectorInv, Places, InOrder, StepShape
  <2> QED
    BY <2>1, <2>2, <2>3 DEF ConnectorInv, InOrder, Taken
<1>3. /\ UNCHANGED <<name, dir, crashed, verdict, cause, assets, output, got, files, waited, since,
           seen>>
      /\ at' \in {"inputs", "poll", "wait", "save"}
  BY DEF C!InputFetched, C!Submitted, C!SubmittedInline, C!Called, C!Accepted, C!Goes, C!jobVars,
     C!clockVars, C!upVars, C!fetchVars
<1>4. /\ gen' \in [status : C!Statuses \cup {"none", "running", "inline"}, outs : Nat, odd : BOOLEAN]
      /\ gen'.outs > 0 => C!Ended' = "succeeded"
      /\ gen'.status \in {"none", "running", "inline", "succeeded"}
  <2>1. CASE C!InputFetched
    BY <1>2, <2>1 DEF C!InputFetched, C!upVars, ConnectorInv, StepShape
  <2>2. CASE C!Submitted
    <3>1. gen' = [status |-> "running", outs |-> 0, odd |-> FALSE]
      BY <2>2 DEF C!Submitted, C!NoJob
    <3> QED
      BY <3>1
  <2>3. CASE C!SubmittedInline
    <3>1. PICK j \in C!Outcomes("succeeded") : gen' = [j EXCEPT !.status = "inline"]
      BY <2>3 DEF C!SubmittedInline
    <3>2. j.outs \in Nat /\ j.odd \in BOOLEAN
          /\ gen' = [status |-> "inline", outs |-> j.outs, odd |-> j.odd]
      BY <1>1, <3>1 DEF C!Outcomes, TraitFacts
    <3> QED
      BY <3>2 DEF C!Ended
  <2>4. CASE C!Called
    <3>1. gen'.status = "succeeded" /\ gen'.outs \in Nat /\ gen'.odd \in BOOLEAN
          /\ gen' = [status |-> gen'.status, outs |-> gen'.outs, odd |-> gen'.odd]
      BY <1>1, <2>4 DEF C!Called, C!Outcomes, TraitFacts
    <3> QED
      BY <3>1 DEF C!Ended, C!Statuses
  <2> QED
    BY <2>1, <2>2, <2>3, <2>4
<1>5. \/ UNCHANGED <<known, polled, answered, at, gen>>
      \/ /\ answered' = answered + 1
         /\ \/ C!T.kind = "job" /\ known' /\ at' = "poll" /\ gen'.status = "running"
               /\ polled' = polled
            \/ C!T.inline /\ known' /\ polled' /\ at' = "poll" /\ gen'.status = "inline"
            \/ C!T.kind = "call" /\ ~known' /\ gen'.status = "succeeded"
               /\ at' = IF C!T.asks = "result" THEN "wait" ELSE "save"
  <2>1. C!Called => gen'.status = "succeeded"
    BY DEF C!Called, C!Outcomes
  <2>2. C!SubmittedInline => gen'.status = "inline"
    BY DEF C!SubmittedInline, C!Outcomes
  <2>3. C!Submitted => gen'.status = "running"
    BY DEF C!Submitted, C!NoJob
  <2> QED
    BY <1>2, <2>1, <2>2, <2>3 DEF C!InputFetched, C!Submitted, C!SubmittedInline, C!Called, C!Accepted,
       C!Goes, C!upVars, C!fetchVars
<1>6. StepShape'
  BY <1>3, <1>4, <1>5 DEF ConnectorInv, StepShape
<1>7. Places'
  BY <1>1, <1>2, <1>3, <1>4, <1>5 DEF ConnectorInv, StepShape, Places, TraitFacts
<1>8. InOrder' /\ C!SuccessIsTheJob'
  BY <1>1, <1>2, <1>3 DEF InOrder, Exempt, Prefix, C!SuccessIsTheJob
<1>9. AnswerKept' /\ Blame'
  BY <1>1, <1>2, <1>3, <1>5 DEF ConnectorInv, AnswerKept, Blame, Usable, C!Codes
<1>10. Accounted'
  BY <1>1, <1>2, <1>3, <1>5 DEF ConnectorInv, Accounted, StepShape, TraitFacts
<1>11. Deadlines'
  BY <1>2, <1>3, ClockStill DEF ConnectorInv, C!clockVars
<1> QED
  BY <1>6, <1>7, <1>8, <1>9, <1>10, <1>11 DEF ConnectorInv

(* So does the end of a generation. *)
LEMMA EndKept ==
  ASSUME DeadlinesFit, ConnectorInv, C!JobEnds
  PROVE  ConnectorInv'
<1>1. TraitFacts(name, C!T) /\ C!T' = C!T
  BY Traits DEF DeadlinesFit, ConnectorInv, StepShape, C!T, C!JobEnds, C!jobVars
<1>2. /\ UNCHANGED <<name, dir, crashed, verdict, cause, assets, output, got, polled, files,
           waited, since, seen,
                     at, known, answered>>
      /\ gen.status = "running"
  BY DEF C!JobEnds, C!jobVars, C!clockVars, C!fetchVars
<1>3. /\ gen' \in [status : C!Statuses, outs : Nat, odd : BOOLEAN]
      /\ gen'.outs > 0 => gen'.status = "succeeded"
  <2>1. PICK s \in C!Statuses : gen' \in C!Outcomes(s)
    BY <1>1 DEF C!JobEnds, TraitFacts
  <2>2. /\ gen'.outs \in Nat /\ gen'.odd \in BOOLEAN /\ (gen'.outs > 0 => s = "succeeded")
        /\ gen'.status = s
        /\ gen' = [status |-> gen'.status, outs |-> gen'.outs, odd |-> gen'.odd]
    <3> DEFINE most == IF s = "succeeded" THEN C!T.most ELSE 0
               odds == IF s = "succeeded" THEN BOOLEAN ELSE {FALSE}
    <3>1. most \in Nat /\ (s # "succeeded" => most = 0) /\ odds \subseteq BOOLEAN
      BY <1>1 DEF TraitFacts
    <3>2. gen' \in [status : {s}, outs : 0..most, odd : odds]
      BY <2>1 DEF C!Outcomes
    <3> HIDE DEF most, odds
    <3> QED
      BY <3>1, <3>2
  <2> QED
    BY <2>1, <2>2
<1>4. /\ gen.outs = 0 /\ verdict # "succeeded" /\ at \notin {"inputs", "wait", "save"}
      /\ output = 1 /\ got = "nothing"
      /\ gen'.status \notin {"none", "running", "inline"}
  <2>1. gen.outs = 0 /\ verdict # "succeeded" /\ at \notin {"inputs", "wait", "save"}
    BY <1>2 DEF ConnectorInv, StepShape, Places, C!SuccessIsTheJob, C!Ended, C!NoJob
  <2> QED
    BY <1>3, <2>1 DEF ConnectorInv, StepShape, Places, InOrder, C!Statuses
<1>5. StepShape'
  BY <1>2, <1>3 DEF ConnectorInv, StepShape
<1>6. Places'
  BY <1>1, <1>2, <1>3, <1>4 DEF ConnectorInv, StepShape, Places, C!Ended
<1>7. InOrder' /\ C!SuccessIsTheJob'
  BY <1>1, <1>2, <1>4 DEF ConnectorInv, InOrder, Exempt, Taken, Prefix, C!SuccessIsTheJob
<1>8. AnswerKept' /\ Blame' /\ Accounted'
  BY <1>1, <1>2, <1>4 DEF ConnectorInv, AnswerKept, Blame, Usable, Accounted
<1>9. Deadlines'
  BY <1>2, <1>4, ClockStill DEF ConnectorInv, C!clockVars
<1> QED
  BY <1>5, <1>6, <1>7, <1>8, <1>9 DEF ConnectorInv

-----------------------------------------------------------------------------
(* A key that is new finds room, so nothing is dropped. *)
LEMMA NotedKeeps ==
  ASSUME DeadlinesFit, seen \in Seq({C!Key} \cup Others), NEW key \in {C!Key} \cup Others,
         \A i, j \in 1..Len(seen) : seen[i] = seen[j] => i = j
  PROVE  /\ C!Noted(key) \in Seq({C!Key} \cup Others)
         /\ \A i, j \in 1..Len(C!Noted(key)) : C!Noted(key)[i] = C!Noted(key)[j] => i = j
         /\ C!Contains(seen, C!Key) => C!Contains(C!Noted(key), C!Key)
         /\ C!Contains(C!Noted(key), key)
<1> DEFINE D == {C!Key} \cup Others
<1>1. CASE C!Contains(seen, key)
  <2>1. C!Noted(key) = seen
    BY <1>1 DEF C!Noted
  <2> QED
    BY <1>1, <2>1
<1>2. CASE ~C!Contains(seen, key)
  <2>1. IsFiniteSet(D \ {key}) /\ Cardinality(D \ {key}) < SeenMax
    <3>1. IsFiniteSet(D) /\ Cardinality(D) <= Cardinality(Others) + 1 /\ Cardinality(Others) \in Nat
          /\ Cardinality(D) \in Nat
      <4>1. D = Others \cup {C!Key}
        OBVIOUS
      <4> HIDE DEF D
      <4> QED
        BY <4>1, FS_AddElement, FS_CardinalityType DEF DeadlinesFit
    <3>2. IsFiniteSet(D \ {key}) /\ Cardinality(D \ {key}) = Cardinality(D) - 1
      BY <3>1, FS_RemoveElement
    <3> HIDE DEF D
    <3> QED
      BY <3>1, <3>2 DEF DeadlinesFit
  <2>2. seen \in Injection(1..Len(seen), D \ {key})
    <3>1. \A i \in 1..Len(seen) : seen[i] # key /\ seen[i] \in D
      BY <1>2 DEF C!Contains
    <3>2. seen \in [1..Len(seen) -> D \ {key}]
      BY <3>1
    <3> QED
      BY <3>2 DEF Injection, IsInjective
  <2>3. Len(seen) < SeenMax
    <3>1. Cardinality(1..Len(seen)) = Len(seen)
      BY FS_Interval
    <3>2. Cardinality(1..Len(seen)) <= Cardinality(D \ {key})
      BY <2>1, <2>2, FS_Injection
    <3>3. Cardinality(D \ {key}) \in Nat
      BY <2>1, FS_CardinalityType
    <3> HIDE DEF D
    <3> QED
      BY <2>1, <3>1, <3>2, <3>3 DEF DeadlinesFit
  <2>4. C!Noted(key) = Append(seen, key)
    BY <1>2, <2>3 DEF C!Noted, DeadlinesFit
  <2>5. /\ Len(Append(seen, key)) = Len(seen) + 1
        /\ \A i \in 1..Len(seen) : Append(seen, key)[i] = seen[i]
        /\ Append(seen, key)[Len(seen) + 1] = key
    OBVIOUS
  <2>6. \A i \in 1..Len(seen) : seen[i] # key
    BY <1>2 DEF C!Contains
  <2> QED
    BY <2>4, <2>5, <2>6 DEF C!Contains
<1> QED
  BY <1>1, <1>2

(* So do polls, this step's and those of others that share the table of      *)
(* deadlines.                                                                *)
LEMMA PollKept ==
  ASSUME DeadlinesFit, ConnectorInv,
         \/ C!PollAgain \/ C!TimeRunsOut \/ C!PollEnds \/ \E o \in Others : C!OtherPolled(o)
  PROVE  ConnectorInv'
<1>1. TraitFacts(name, C!T) /\ C!T' = C!T
  BY Traits DEF DeadlinesFit, ConnectorInv, StepShape, C!T, C!PollAgain, C!TimeRunsOut, C!PollEnds,
     C!OtherPolled, C!Goes, C!jobVars
<1>2. /\ UNCHANGED <<name, dir, crashed, assets, output, got, gen, files, known, answered>>
      /\ at = "poll" /\ known /\ output = 1 /\ got = "nothing" /\ verdict = "none"
  <2>1. at = "poll" /\ UNCHANGED <<name, dir, crashed, assets, output, got, gen, files, known,
        answered>>
    BY DEF C!PollAgain, C!TimeRunsOut, C!PollEnds, C!OtherPolled, C!Goes, C!jobVars, C!upVars,
       C!fetchVars
  <2> QED
    BY <2>1 DEF ConnectorInv, StepShape, Places, InOrder
<1>3. \/ UNCHANGED <<at, verdict, cause, polled>> /\ ~C!PollEnds
      \/ /\ at' = "over" /\ verdict' = "transient" /\ cause' = "clock" /\ polled' = polled
         /\ gen.status = "running"
      \/ /\ at' = "fetch" /\ UNCHANGED <<verdict, cause>>
         /\ \/ gen.status = "inline" /\ polled' = polled
            \/ gen.status \in C!T.ends /\ polled'
  <2>1. CASE C!PollEnds
    BY <2>1 DEF C!PollEnds, C!Goes
  <2>2. CASE C!PollAgain /\ ~C!PollEnds
    BY <1>2, <2>2 DEF C!PollAgain, C!Goes, C!fetchVars
  <2>3. CASE C!TimeRunsOut
    BY <2>3 DEF C!TimeRunsOut, C!fetchVars
  <2>4. CASE ~C!PollEnds /\ \E o \in Others : C!OtherPolled(o)
    BY <2>4 DEF C!OtherPolled, C!fetchVars
  <2> QED
    BY <2>1, <2>2, <2>3, <2>4
<1>4. StepShape'
  BY <1>2, <1>3 DEF ConnectorInv, StepShape, C!PollAgain, C!TimeRunsOut, C!PollEnds, C!OtherPolled,
     C!Codes, C!clockVars
<1>5. Places'
  BY <1>1, <1>2, <1>3 DEF ConnectorInv, StepShape, Places, C!Ended, TraitFacts, C!Statuses
<1>6. InOrder' /\ C!SuccessIsTheJob'
  BY <1>1, <1>2, <1>3 DEF ConnectorInv, InOrder, Exempt, Taken, Prefix, C!SuccessIsTheJob
<1>7. AnswerKept' /\ Blame' /\ Accounted'
  BY <1>1, <1>2, <1>3 DEF ConnectorInv, AnswerKept, Blame, Usable, Accounted, C!Codes
<1>8. Deadlines'
  <2>1. CASE UNCHANGED C!clockVars
    BY <1>2, <2>1, ClockStill DEF ConnectorInv
  <2>2. CASE C!PollEnds
    <3>1. C!T.ceiling => gen.status \notin {"none", "running"} /\ waited' = waited
      BY <1>1, <1>2, <2>2 DEF C!PollEnds, TraitFacts, C!Statuses, ConnectorInv, Places
    <3> QED
      BY <1>1, <1>2, <3>1 DEF ConnectorInv, Deadlines
  <2>3. ASSUME C!T.ceiling, NEW o \in Others, C!OtherPolled(o) PROVE Deadlines'
    <3>1. seen' = C!Noted(o) /\ waited' = waited /\ since' = since
      BY <2>3 DEF C!OtherPolled
    <3>2. CASE gen.status \in {"none", "running"}
      BY <1>1, <1>2, <2>3, <3>1, <3>2, NotedKeeps DEF ConnectorInv, Deadlines, C!Key
    <3> QED
      BY <1>1, <1>2, <3>1, <3>2 DEF ConnectorInv, Deadlines
  <2>4. ASSUME C!T.ceiling, C!PollAgain PROVE Deadlines'
    <3>1. /\ seen' = C!Noted(C!Key) /\ waited' = waited + 1 /\ gen.status = "running" /\ ~C!Stalled
          /\ since' = IF C!Contains(seen, C!Key) THEN since ELSE waited
      BY <2>4 DEF C!PollAgain
    <3>2. since' = 0 /\ waited' <= Ceiling
      BY <2>4, <3>1 DEF ConnectorInv, Deadlines, C!Stalled, StepShape, DeadlinesFit
    <3> QED
      BY <1>1, <1>2, <2>4, <3>1, <3>2, NotedKeeps DEF ConnectorInv, Deadlines, C!Key
  <2>5. CASE ~C!T.ceiling
    BY <1>1, <2>5 DEF Deadlines
  <2> QED
    BY <2>1, <2>2, <2>3, <2>4, <2>5 DEF C!TimeRunsOut, C!OtherPolled
<1> QED
  BY <1>4, <1>5, <1>6, <1>7, <1>8 DEF ConnectorInv

(* So do a crash and a resume. *)
LEMMA ResumeKept ==
  ASSUME DeadlinesFit, ConnectorInv, C!CrashAndResume \/ C!ResumeFailed
  PROVE  ConnectorInv'
<1>1. TraitFacts(name, C!T) /\ C!T' = C!T
  BY Traits DEF DeadlinesFit, ConnectorInv, StepShape, C!T, C!CrashAndResume, C!ResumeFailed,
     C!Resumes, C!jobVars
<1>2. /\ UNCHANGED <<name, dir, gen, files, known, answered, cause>>
      /\ known /\ C!T.kind = "job" /\ output' = 1 /\ got' = "nothing" /\ verdict' = "none"
           /\ at' = "poll"
      /\ verdict # "succeeded"
  <2>1. /\ UNCHANGED <<name, dir, gen, files, known, answered, cause>>
        /\ known /\ C!T.kind = "job" /\ output' = 1 /\ got' = "nothing" /\ verdict' = "none"
             /\ at' = "poll"
    BY DEF C!CrashAndResume, C!ResumeFailed, C!Resumes, C!jobVars, C!upVars
  <2> QED
    BY <2>1 DEF C!CrashAndResume, C!ResumeFailed, ConnectorInv, Places, C!Codes
<1>3. \/ /\ crashed' /\ assets' = <<>> /\ waited' = 0 /\ since' = 0 /\ seen' = <<>>
      \/ UNCHANGED <<crashed, polled, assets, waited, since, seen>> /\ verdict \in C!Codes
           /\ at = "over"
  BY DEF C!CrashAndResume, C!ResumeFailed, C!clockVars, ConnectorInv, Places, C!Codes
<1>4. StepShape'
  BY <1>2, <1>3 DEF ConnectorInv, StepShape
<1>5. Places'
  BY <1>1, <1>2, <1>3 DEF ConnectorInv, StepShape, Places, C!Ended
<1>6. InOrder'
  <2>1. Prefix(0) = <<>>
    BY DEF Prefix
  <2>2. CASE verdict \in C!Codes /\ at = "over" /\ assets' = assets
    <3>1. output = 1
      BY <1>2, <2>2 DEF ConnectorInv, InOrder, StepShape
    <3> QED
      BY <1>1, <1>2, <2>2, <3>1 DEF ConnectorInv, InOrder, Exempt, Taken, Prefix
  <2> QED
    BY <1>1, <1>2, <1>3, <2>1, <2>2 DEF InOrder
<1>7. AnswerKept' /\ Blame' /\ Accounted' /\ C!SuccessIsTheJob'
  BY <1>1, <1>2, <1>3 DEF ConnectorInv, AnswerKept, Blame, Usable, Accounted, C!SuccessIsTheJob, C!Codes
<1>8. Deadlines'
  <2>1. CASE UNCHANGED C!clockVars
    BY <1>2, <2>1, ClockStill DEF ConnectorInv
  <2>2. CASE waited' = 0 /\ since' = 0 /\ seen' = <<>>
    BY <2>2 DEF Deadlines, DeadlinesFit
  <2> QED
    BY <1>3, <2>1, <2>2 DEF C!clockVars
<1> QED
  BY <1>4, <1>5, <1>6, <1>7, <1>8 DEF ConnectorInv

-----------------------------------------------------------------------------
(* So does a status that is read. *)
LEMMA StatusKept ==
  ASSUME DeadlinesFit, ConnectorInv, C!StatusRead
  PROVE  ConnectorInv'
<1>1. TraitFacts(name, C!T) /\ C!Codes = {"transient", "permanent"}
  BY Traits DEF DeadlinesFit, ConnectorInv, StepShape, C!T, C!Codes
<1>2. /\ at = "fetch" /\ got = "nothing" /\ verdict = "none" /\ output = 1 /\ known
  BY DEF C!StatusRead, ConnectorInv, StepShape, Places, InOrder
<1>3. CASE C!Ended \in DOMAIN C!T.fails
  <2>1. PICK code \in C!Codes : C!Error(code, "upstream")
    BY <1>1, <1>3 DEF C!StatusRead, TraitFacts
  <2>2. UNCHANGED <<answered, files, C!clockVars>> /\ gen.outs = 0
    BY <1>1, <1>3 DEF C!StatusRead, ConnectorInv, StepShape, Places, TraitFacts
  <2>3. FairFailure(code, "upstream")
    BY <1>1, <1>2, <2>1, <2>2 DEF FairFailure, Usable, ConnectorInv, Places, C!clockVars
  <2> QED
    BY <2>1, <2>3, ErrorKept
<1>4. CASE C!Ended \notin DOMAIN C!T.fails
  <2>1. /\ UNCHANGED <<name, dir, crashed, verdict, cause, at, gen, known, answered, output, files,
                       waited, since, seen, assets>>
        /\ got' = "status" /\ gen.outs > 0
    BY <1>4, <1>2 DEF C!StatusRead, C!Goes, C!jobVars, C!upVars, C!clockVars
  <2>2. StepShape' /\ Places'
    BY <1>2, <2>1 DEF ConnectorInv, StepShape, Places, C!T, C!Ended
  <2>3. InOrder' /\ C!SuccessIsTheJob'
    BY <1>2, <2>1 DEF ConnectorInv, InOrder, C!T, Taken, Exempt, Prefix, C!SuccessIsTheJob
  <2>4. AnswerKept' /\ Blame' /\ Accounted' /\ Deadlines'
    BY <1>2, <2>1, ClockStill DEF ConnectorInv, AnswerKept, Usable, Blame, Accounted, C!T, C!Codes,
       C!clockVars
  <2> QED
    BY <2>2, <2>3, <2>4 DEF ConnectorInv
<1> QED
  BY <1>3, <1>4

(* A step that ends well on the outputs it should have. *)
LEMMA SuccessKept ==
  ASSUME ConnectorInv, C!Succeeds, UNCHANGED C!clockVars, verdict = "none",
         C!Ended = "succeeded", gen.status # "running", at # "inputs",
         assets' = C!Every \/ Exempt, output' \in Nat \ {0}, got' \in {"nothing", "status", "result"}
  PROVE  ConnectorInv'
<1>1. /\ UNCHANGED <<name, dir, crashed, cause, gen, known, answered, waited, since, seen>>
      /\ verdict' = "succeeded" /\ at' = "over"
  BY DEF C!Succeeds, C!jobVars, C!upVars, C!clockVars
<1>2. StepShape' /\ Places' /\ InOrder'
  BY <1>1 DEF ConnectorInv, StepShape, Places, InOrder, C!T, C!Ended
<1>3. AnswerKept' /\ Accounted' /\ Deadlines'
  BY <1>1, ClockStill DEF ConnectorInv, AnswerKept, Usable, Accounted, C!T, C!Codes
<1>4. Blame' /\ C!SuccessIsTheJob'
  BY <1>1 DEF ConnectorInv, Blame, C!T, C!SuccessIsTheJob, C!Ended, C!Every, Exempt
<1> QED
  BY <1>2, <1>3, <1>4 DEF ConnectorInv

(* So do results, and outputs that are attached one by one or all together.  *)
LEMMA OutputKept ==
  ASSUME DeadlinesFit, ConnectorInv, C!NoOutput \/ C!ResultRead \/ C!AttachOne \/ C!AttachAll
  PROVE  ConnectorInv'
<1>1. TraitFacts(name, C!T) /\ C!Codes = {"transient", "permanent"} /\ Prefix(0) = <<>>
  BY Traits DEF DeadlinesFit, ConnectorInv, StepShape, C!T, C!Codes, Prefix
<1>2. CASE C!NoOutput
  <2>1. /\ at \in {"fetch", "save"} /\ verdict = "none" /\ output = 1 /\ gen.outs = 0
             /\ C!Ended = "succeeded"
    BY <1>2 DEF C!NoOutput, ConnectorInv, StepShape, Places, InOrder
  <2>2. CASE C!T.empty = "ok"
    <3>1. C!Succeeds /\ UNCHANGED <<got, output, assets>>
      BY <1>2, <2>2 DEF C!NoOutput
    <3>2. assets = C!Every \/ Exempt
      BY <1>1, <2>1, <2>2 DEF ConnectorInv, InOrder, TraitFacts, Taken, C!Every, Prefix
    <3>3. UNCHANGED C!clockVars
      BY <3>1 DEF C!Succeeds
    <3>4. gen.status # "running"
      BY <2>1 DEF C!Ended
    <3> QED
      BY <2>1, <3>1, <3>2, <3>3, <3>4, SuccessKept DEF ConnectorInv, StepShape
  <2>3. CASE C!T.empty # "ok"
    <3>1. C!Error(C!T.empty, "upstream") /\ UNCHANGED <<answered, files, C!clockVars>>
          /\ C!T.empty \in C!Codes
      BY <1>1, <1>2, <2>3 DEF C!NoOutput, TraitFacts
    <3>2. FairFailure(C!T.empty, "upstream")
      BY <1>1, <2>1, <3>1 DEF FairFailure, Usable, TraitFacts, C!clockVars
    <3> QED
      BY <3>1, <3>2, ErrorKept
  <2> QED
    BY <2>2, <2>3
<1>3. CASE C!ResultRead
  <2>1. /\ UNCHANGED <<name, dir, crashed, verdict, cause, gen, known, answered, output, files,
                       waited, since, seen, assets, polled>>
        /\ \/ at = "fetch" /\ got = "status" /\ got' = "result" /\ at' = "fetch"
           \/ at = "wait" /\ at' = "save" /\ got' = got
        /\ C!T.asks = "result"
    BY <1>3 DEF C!ResultRead, C!Goes, C!jobVars, C!upVars, C!clockVars
  <2>2. output = 1 /\ verdict = "none"
    BY <2>1 DEF ConnectorInv, StepShape, Places, InOrder
  <2>3. StepShape' /\ Places'
    BY <2>1, <2>2 DEF ConnectorInv, StepShape, Places, C!T, C!Ended
  <2>4. InOrder' /\ C!SuccessIsTheJob'
    BY <2>1, <2>2 DEF ConnectorInv, InOrder, C!T, Taken, Exempt, Prefix, C!SuccessIsTheJob
  <2>5. Accounted' /\ Deadlines' /\ Blame'
    BY <2>1, <2>2, ClockStill DEF ConnectorInv, Blame, Accounted, C!T, C!clockVars
  <2>6. AnswerKept'
    BY <1>1, <2>1, <2>2 DEF ConnectorInv, AnswerKept, Usable, Places, TraitFacts, C!Codes
  <2> QED
    BY <2>3, <2>4, <2>5, <2>6 DEF ConnectorInv
<1>4. CASE C!AttachAll
  <2>1. /\ at \in {"fetch", "save"} /\ verdict = "none" /\ gen.outs > 0 /\ C!Ended = "succeeded"
        /\ C!Succeeds /\ UNCHANGED <<got, output, C!clockVars>>
    BY <1>4 DEF C!AttachAll, C!Attaching, ConnectorInv, StepShape, Places, C!fetchVars, C!Succeeds
  <2>2. assets' = C!Every
    <3>1. C!T.attach = "all" => assets = <<>>
      BY <2>1 DEF ConnectorInv, InOrder
    <3>2. <<>> \o C!Every = C!Every
      BY DEF C!Every
    <3> QED
      BY <1>1, <1>4, <3>1, <3>2 DEF C!AttachAll, TraitFacts
  <2>3. gen.status # "running"
    BY <2>1 DEF C!Ended
  <2> QED
    BY <2>1, <2>2, <2>3, SuccessKept DEF ConnectorInv, StepShape
<1>5. CASE C!AttachOne
  <2>1. /\ at \in {"fetch", "save"} /\ verdict = "none" /\ gen.outs > 0 /\ C!Ended = "succeeded"
        /\ ~(gen.odd /\ output = gen.outs) /\ ~(C!T.place = "new" /\ dir /\ output \in files)
        /\ assets' = Append(assets, output) /\ C!T.attach = "each" /\ C!Attaching
        /\ output \in Nat \ {0} /\ gen.outs \in Nat /\ output <= gen.outs
    BY <1>5 DEF C!AttachOne, C!Attaching, ConnectorInv, StepShape, Places, InOrder
  <2>2. assets = Prefix(output - 1) => assets' = Prefix(output)
    BY <2>1 DEF Prefix
  <2>3. CASE output = gen.outs
    <3>1. C!Succeeds /\ UNCHANGED <<got, output>> /\ UNCHANGED C!clockVars
      BY <1>5, <2>3 DEF C!AttachOne, C!Succeeds
    <3>2. assets = Prefix(output - 1) \/ Exempt
      BY <2>1, <2>3 DEF ConnectorInv, InOrder, Taken
    <3>3. assets' = C!Every \/ Exempt
      BY <2>2, <2>3, <3>2 DEF C!Every, Prefix
    <3>4. gen.status # "running"
      BY <2>1 DEF C!Ended
    <3> QED
      BY <2>1, <3>1, <3>3, <3>4, SuccessKept DEF ConnectorInv, StepShape
  <2>4. CASE output # gen.outs
    <3>1. /\ UNCHANGED <<name, dir, crashed, verdict, cause, at, gen, known, answered, got, polled,
                         waited, since, seen>>
          /\ output' = output + 1
          /\ files' = IF dir /\ C!T.place \in {"new", "step"} THEN files \cup {output} ELSE files
      BY <1>5, <2>4 DEF C!AttachOne, C!Goes, C!jobVars, C!upVars, C!clockVars
    <3>2. StepShape' /\ Places'
      BY <2>1, <3>1 DEF ConnectorInv, StepShape, Places, C!T, C!Ended
    <3>3. Accounted' /\ Deadlines' /\ Blame' /\ AnswerKept' /\ C!SuccessIsTheJob'
      BY <2>1, <3>1, ClockStill DEF ConnectorInv, Blame, Accounted, AnswerKept, Usable, C!T,
         C!clockVars, C!SuccessIsTheJob, C!Codes
    <3>4. InOrder'
      <4>1. output' > 1 /\ output' <= gen.outs
        BY <2>1, <2>4, <3>1
      <4>2. at = "save" \/ (at = "fetch" /\ got = IF C!T.asks = "result" THEN "result" ELSE "status")
        BY <2>1 DEF C!Attaching
      <4>3. C!T.place = "new" /\ dir => 1 \in files'
        BY <2>1, <3>1 DEF ConnectorInv, InOrder
      <4>4. ~Exempt => assets' = Prefix(output) \/ (gen.odd /\ gen.outs > 0)
        <5>1. ~Exempt => assets = Prefix(output - 1) \/ (gen.odd /\ gen.outs > 0)
          BY <2>1 DEF ConnectorInv, InOrder, Taken
        <5> QED
          BY <2>2, <5>1
      <4>5. output' - 1 = output /\ C!T' = C!T /\ Exempt' = Exempt
        BY <2>1, <3>1 DEF C!T, Exempt
      <4> QED
        BY <2>1, <3>1, <4>1, <4>2, <4>3, <4>4, <4>5 DEF InOrder
    <3> QED
      BY <3>2, <3>3, <3>4 DEF ConnectorInv
  <2> QED
    BY <2>3, <2>4
<1> QED
  BY <1>2, <1>3, <1>4, <1>5

(* The invariant holds of a step through any of the connectors. *)
THEOREM ConnectorInvariance ==
  ASSUME DeadlinesFit
  PROVE  /\ C!Spec => []ConnectorInv
         /\ MCSpec => []ConnectorInv
<1>1. ConnectorInv /\ [C!Next]_C!vars => ConnectorInv'
  BY ConnectorStill, FailuresKept, SubmitKept, EndKept, PollKept, ResumeKept, StatusKept,
     OutputKept DEF C!Next, C!Over
<1> QED
  BY <1>1, ConnectorStarts, Machines, PTL DEF C!Spec, MCSpec

(* Through every connector a success is a generation that succeeded, with    *)
(* its outputs attached once each and in order, and a generation that        *)
(* succeeded is not failed by the SDK itself, but for the known cases that   *)
(* the property names.                                                       *)
THEOREM VerdictIsTheJob ==
  ASSUME DeadlinesFit
  PROVE  /\ C!Spec => [](C!SuccessIsTheJob /\ C!NoSelfInflictedFailure)
         /\ MCSpec => []VerdictIsTheJobs
<1>1. ConnectorInv => C!SuccessIsTheJob /\ C!NoSelfInflictedFailure
  <2> SUFFICES ASSUME ConnectorInv, verdict \in C!Codes, C!Ended = "succeeded", gen.outs > 0,
                      ~gen.odd, cause = "self"
               PROVE  (name = "google_veo" /\ dir) \/ (C!T.inline /\ crashed)
      BY DEF ConnectorInv, C!NoSelfInflictedFailure
  <2>1. TraitFacts(name, C!T)
    BY Traits DEF DeadlinesFit, ConnectorInv, StepShape, C!T
  <2> QED
    BY <2>1 DEF ConnectorInv, Blame, AnswerKept, Usable, Places, TraitFacts
<1>2. C!SuccessIsTheJob /\ C!NoSelfInflictedFailure => VerdictIsTheJobs
  BY DEF VerdictIsTheJobs
<1> QED
  BY <1>1, <1>2, ConnectorInvariance, PTL

(* A generation is paid for once, whatever fails, is retried or resumed,     *)
(* unless its connector is synchronous and needs the network after the       *)
(* answer; and a job with a ceiling is not polled past it.                   *)
THEOREM PaidAndTimed ==
  ASSUME DeadlinesFit
  PROVE  /\ C!Spec => [](C!PaidOnce /\ C!CeilingHolds)
         /\ MCSpec => []NothingIsWasted
<1>1. ConnectorInv => C!PaidOnce /\ C!CeilingHolds
  BY DEF ConnectorInv, StepShape, Accounted, Deadlines, C!PaidOnce, C!CeilingHolds
<1>2. C!PaidOnce /\ C!CeilingHolds => NothingIsWasted
  BY DEF NothingIsWasted
<1> QED
  BY <1>1, <1>2, ConnectorInvariance, PTL

=============================================================================
