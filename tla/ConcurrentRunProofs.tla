------------------------ MODULE ConcurrentRunProofs ------------------------
(***************************************************************************)
(* Machine-checked proofs about ConcurrentRun, for every number of steps,  *)
(* every concurrency limit, with and without fail-fast, interrupts and     *)
(* raising steps.                                                          *)
(***************************************************************************)
EXTENDS MCSchedules, FiniteSetTheorems, WellFoundedInduction, TLAPS

(* How a task's history shows in its outcome, its provider call and the    *)
(* cancellations requested.                                                *)
TaskFacts ==
  /\ \A s \in Steps : outcome[s] # "none" <=> task[s] = "done"
  /\ \A s \in called : task[s] \in {"running"} \cup Ended
  /\ cancelling = {} => \A s \in Steps : task[s] # "cancelled"
  /\ cancelling # {} => Unfinished \subseteq cancelling

(* Results are read off ended tasks, and a failure seen leaves no step     *)
(* that is not being cancelled.                                            *)
ResultFacts ==
  /\ \A s \in Steps : results[s] # "none" => task[s] \in Ended /\ results[s] = ResultOf(s)
  /\ (\E s \in Steps : results[s] = "FAILED") => Unfinished \subseteq cancelling

(* All tasks have ended and the runner has the result of each. *)
Settled == \A s \in Steps : task[s] \in Ended /\ results[s] = ResultOf(s)

(* What holds at each location of the runner. *)
RunnerFacts ==
  /\ pc = "launch" => /\ \A s \in Steps : task[s] = "idle" /\ reported[s] = "none"
                      /\ raised = "none"
  /\ pc \in {"gather", "reap", "record"} => \A s \in Steps : reported[s] = "started"
  /\ pc \in {"gather", "record"} => raised = "none"
  /\ pc = "record" => Settled
  /\ pc = "finalize" /\ raised = "none" => Settled /\ reported = results
  /\ terminal # "none" => pc \in {"closing", "returned"}

(* A completed run stays what it was reported to be. *)
CompletedFacts ==
  terminal = "completed" =>
    sunk /\ \A s \in Steps : /\ task[s] = "done"
                             /\ outcome[s] = "SUCCEEDED"
                             /\ reported[s] = "SUCCEEDED"

IInv ==
  /\ TypeOK
  /\ PermitsConserved
  /\ CallsWithinLimit
  /\ TaskFacts
  /\ ResultFacts
  /\ RunnerFacts
  /\ CompletedFacts

-----------------------------------------------------------------------------
(* The semaphore. *)

(* Sets of steps are finite. *)
LEMMA StepSets == ASSUME NEW S \in SUBSET Steps
                  PROVE  IsFiniteSet(S) /\ Cardinality(S) \in Nat
  <1>1. IsFiniteSet(Steps)
    BY StepsAssumption, FS_Interval DEF Steps
  <1>2. QED
    BY <1>1, FS_Subset, FS_CardinalityType

(* At most one waiter comes first. *)
LEMMA HeirIsOne ==
  Heir = {} \/ \E w \in Steps : Heir = {w} /\ task[w] = "waiting"
  <1>1. ASSUME NEW v \in Heir, NEW w \in Heir PROVE v = w
    <2>1. v \in Nat /\ w \in Nat /\ v <= w /\ w <= v
      BY <1>1, StepsAssumption DEF Heir, Waiters, Steps
    <2>2. QED
      BY <2>1
  <1>2. \A w \in Heir : w \in Steps /\ task[w] = "waiting"
    BY DEF Heir, Waiters
  <1>3. ASSUME NEW w \in Heir PROVE Heir = {w}
    BY <1>1
  <1>4. QED
    BY <1>2, <1>3

(* The ways permits move: nothing, a permit taken, given back, handed on. *)
PermitMove ==
  \/ Holders' = Holders /\ permits' = permits
  \/ \E s \in Steps : /\ s \notin Holders /\ Holders' = Holders \cup {s}
                      /\ permits > 0 /\ permits' = permits - 1
  \/ \E s \in Holders : Holders' = Holders \ {s} /\ permits' = permits + 1
  \/ \E s \in Holders, w \in Steps :
       /\ w \notin Holders /\ Holders' = (Holders \ {s}) \cup {w}
       /\ permits' = permits

(* Each of them conserves the permits. *)
LEMMA PermitMoveConserves ==
  ASSUME permits \in 0..Limit, Limited, PermitsConserved, PermitMove
  PROVE  permits' \in 0..Limit /\ PermitsConserved'
  <1>1. Holders \in SUBSET Steps /\ Holders' \in SUBSET Steps
    BY DEF Holders
  <1>2. /\ IsFiniteSet(Holders) /\ Cardinality(Holders) \in Nat
        /\ Cardinality(Holders') \in Nat
    BY <1>1, StepSets
  <1>3. permits \in Nat /\ Limit \in Nat /\ permits + Cardinality(Holders) = Limit
    BY LimitAssumption DEF PermitsConserved
  <1>4. permits' \in Nat /\ permits' + Cardinality(Holders') = Limit
    <2>1. CASE Holders' = Holders /\ permits' = permits
      BY <2>1, <1>3
    <2>2. ASSUME NEW s \in Steps, s \notin Holders, Holders' = Holders \cup {s},
                 permits > 0, permits' = permits - 1
          PROVE  permits' \in Nat /\ permits' + Cardinality(Holders') = Limit
      <3>1. Cardinality(Holders') = Cardinality(Holders) + 1
        BY <2>2, <1>2, FS_AddElement
      <3>2. QED
        BY <3>1, <2>2, <1>2, <1>3
    <2>3. ASSUME NEW s \in Holders, Holders' = Holders \ {s}, permits' = permits + 1
          PROVE  permits' \in Nat /\ permits' + Cardinality(Holders') = Limit
      <3>1. Cardinality(Holders') = Cardinality(Holders) - 1
        BY <2>3, <1>2, FS_RemoveElement
      <3>2. QED
        BY <3>1, <2>3, <1>2, <1>3
    <2>4. ASSUME NEW s \in Holders, NEW w \in Steps, w \notin Holders,
                 Holders' = (Holders \ {s}) \cup {w}, permits' = permits
          PROVE  permits' \in Nat /\ permits' + Cardinality(Holders') = Limit
      <3>1. /\ IsFiniteSet(Holders \ {s})
            /\ Cardinality(Holders \ {s}) = Cardinality(Holders) - 1
        BY <1>2, FS_RemoveElement
      <3>2. Cardinality(Holders') = Cardinality(Holders \ {s}) + 1
        BY <2>4, <3>1, FS_AddElement
      <3>3. QED
        BY <3>1, <3>2, <2>4, <1>2, <1>3
    <2>5. QED
      BY <2>1, <2>2, <2>3, <2>4 DEF PermitMove
  <1>5. permits' \in 0..Limit
    BY <1>2, <1>3, <1>4
  <1>6. QED
    BY <1>4, <1>5 DEF PermitsConserved

(* What any move of the semaphore must keep. *)
PermitsOK == permits \in 0..Limit /\ PermitsConserved

(* A task that ends, cancelled or not, returns its permit exactly once, to *)
(* a waiter or to the semaphore.                                           *)
LEMMA ReleaseKeeps ==
  ASSUME task \in [Steps -> TaskStates], PermitsOK, NEW s \in Steps, NEW ended \in Ended,
         task[s] \notin Ended, Release(s, ended)
  PROVE  /\ task' \in [Steps -> TaskStates]
         /\ PermitsOK'
         /\ task'[s] = ended
         /\ \A t \in Steps \ {s} : \/ task'[t] = task[t]
                                   \/ task[t] = "waiting" /\ task'[t] = "granted"
  <1> DEFINE holds == Limited /\ task[s] \in Holding
  <1>1. /\ task' = [t \in Steps |-> IF t = s THEN ended
                                    ELSE IF holds /\ t \in Heir THEN "granted" ELSE task[t]]
        /\ permits' = IF holds /\ Heir = {} THEN permits + 1 ELSE permits
    BY DEF Release
  <1>2. \A t \in Heir : t \in Steps /\ task[t] = "waiting"
    BY HeirIsOne
  <1>3. /\ task' \in [Steps -> TaskStates]
        /\ task'[s] = ended
        /\ \A t \in Steps \ {s} : \/ task'[t] = task[t]
                                  \/ task[t] = "waiting" /\ task'[t] = "granted"
    BY <1>1, <1>2 DEF TaskStates, Holding, Ended
  <1>4. PermitsOK'
    <2>1. CASE ~Limited
      BY <2>1, <1>1 DEF PermitsOK, PermitsConserved, Limited
    <2>2. CASE Limited /\ task[s] \notin Holding
      <3>1. Holders' = Holders
        BY <2>2, <1>1 DEF Holders, Holding, Ended
      <3>2. PermitMove
        BY <3>1, <2>2, <1>1 DEF PermitMove
      <3>3. QED
        BY <3>2, <2>2, PermitMoveConserves DEF PermitsOK
    <2>3. CASE Limited /\ task[s] \in Holding /\ Heir = {}
      <3>1. s \in Holders /\ Holders' = Holders \ {s}
        BY <2>3, <1>1 DEF Holders, Holding, Ended
      <3>2. PermitMove
        BY <3>1, <2>3, <1>1 DEF PermitMove
      <3>3. QED
        BY <3>2, <2>3, PermitMoveConserves DEF PermitsOK
    <2>4. ASSUME Limited, task[s] \in Holding,
                 NEW w \in Steps, Heir = {w}, task[w] = "waiting"
          PROVE  PermitsOK'
      <3>1. s \in Holders /\ w \notin Holders /\ Holders' = (Holders \ {s}) \cup {w}
        BY <2>4, <1>1 DEF Holders, Holding, Ended
      <3>2. PermitMove
        BY <3>1, <2>4, <1>1 DEF PermitMove
      <3>3. QED
        BY <3>2, <2>4, PermitMoveConserves DEF PermitsOK
    <2>5. QED
      BY <2>1, <2>2, <2>3, <2>4, HeirIsOne
  <1>5. QED
    BY <1>3, <1>4

-----------------------------------------------------------------------------
(* The tasks. *)

Live == TaskStates \ (Ended \cup {"idle"})

(* How one task may change while the runner is suspended. *)
TaskMove(t) ==
  \/ task'[t] = task[t] /\ outcome'[t] = outcome[t]
  \/ /\ task[t] \in Live \ {"running"} /\ task'[t] \in Live
     /\ outcome'[t] = outcome[t]
  \/ /\ task[t] \in Live /\ task'[t] \in Ended
     /\ task'[t] = "cancelled" => t \in cancelling
     /\ outcome'[t] = "none" <=> task'[t] # "done"

(* Any action made of such moves, which leaves the runner alone, keeps the *)
(* inductive invariant: the argument the task actions share.               *)
LEMMA TaskMovesKeepIInv ==
  ASSUME IInv, LoopFree, \A t \in Steps : TaskMove(t),
         task' \in [Steps -> TaskStates], outcome' \in [Steps -> Result],
         PermitsOK', queued' \subseteq Steps,
         UNCHANGED <<pc, cancelling, called, results, raised, rest>>
  PROVE  IInv'
  <1> USE DEF IInv
  <1>1. TypeOK'
    BY DEF TypeOK, PermitsOK, rest
  <1>2. /\ \A t \in Steps : task[t] \in Ended => task'[t] = task[t] /\ outcome'[t] = outcome[t]
        /\ \A t \in Steps : outcome[t] # "none" <=> task[t] = "done"
    BY DEF TaskMove, Live, TaskFacts
  <1>3. Unfinished' \subseteq Unfinished
    BY <1>2 DEF Unfinished
  <1>4. \A t \in Steps : outcome'[t] # "none" <=> task'[t] = "done"
    BY <1>2 DEF TaskMove, Live, Ended, TaskStates, Holding
  <1>5. \A t \in called : t \in Steps /\ task'[t] \in {"running"} \cup Ended
    BY DEF TaskMove, Live, Ended, TaskFacts, TypeOK
  <1>6. cancelling = {} => \A t \in Steps : task'[t] # "cancelled"
    BY DEF TaskMove, Live, Ended, TaskFacts
  <1>7. TaskFacts'
    BY <1>3, <1>4, <1>5, <1>6 DEF TaskFacts
  <1>8. \A t \in Steps : task[t] \in Ended => ResultOf(t)' = ResultOf(t)
    BY <1>2 DEF ResultOf
  <1>9. ResultFacts'
    BY <1>2, <1>3, <1>8 DEF ResultFacts
  <1>10. /\ pc \notin {"launch", "record", "finalize"}
         /\ reported' = reported /\ terminal' = terminal /\ pc' = pc /\ raised' = raised
         /\ sunk' = sunk
    BY DEF LoopFree, rest
  <1>11. RunnerFacts'
    BY <1>10 DEF RunnerFacts
  <1>12. CompletedFacts'
    BY <1>2, <1>10 DEF CompletedFacts, Ended
  <1>13. CallsWithinLimit'
    <2>1. InFlight' \subseteq InFlight
      BY <1>2 DEF InFlight, TypeOK, Ended
    <2>2. InFlight \in SUBSET Steps
      BY DEF InFlight, TypeOK
    <2>3. /\ Cardinality(InFlight') <= Cardinality(InFlight)
          /\ Cardinality(InFlight) \in Nat /\ Cardinality(InFlight') \in Nat
      BY <2>1, <2>2, StepSets, FS_Subset
    <2>4. QED
      BY <2>3, LimitAssumption DEF CallsWithinLimit, Limited
  <1>14. QED
    BY <1>1, <1>7, <1>9, <1>11, <1>12, <1>13 DEF PermitsOK

(* A task that starts takes a free permit or queues up. *)
LEMMA TaskStartsKeeps == ASSUME IInv, NEW s \in Steps, TaskStarts(s) PROVE IInv'
  <1>1. /\ LoopFree /\ task[s] = "new"
        /\ task \in [Steps -> TaskStates] /\ outcome \in [Steps -> Result]
        /\ queued \subseteq Steps /\ permits \in 0..Limit /\ PermitsConserved
    BY DEF TaskStarts, IInv, TypeOK
  <1>2. UNCHANGED <<pc, cancelling, outcome, called, results, raised, rest>>
    BY DEF TaskStarts
  <1>3. ASSUME Limited, Locked, task' = [task EXCEPT ![s] = "waiting"],
               queued' = queued \cup {s}, UNCHANGED permits
        PROVE  IInv'
    <2>1. Holders' = Holders
      BY <1>1, <1>3 DEF Holders, Holding
    <2>2. PermitsOK'
      BY <1>1, <1>3, <2>1 DEF PermitsOK, PermitsConserved
    <2>3. /\ \A t \in Steps : TaskMove(t)
          /\ task' \in [Steps -> TaskStates] /\ outcome' \in [Steps -> Result]
          /\ queued' \subseteq Steps
      BY <1>1, <1>2, <1>3 DEF TaskMove, Live, TaskStates, Ended, Holding
    <2>4. QED
      BY <1>1, <1>2, <2>2, <2>3, TaskMovesKeepIInv
  <1>4. ASSUME ~(Limited /\ Locked), task' = [task EXCEPT ![s] = "running"],
               permits' = IF Limited THEN permits - 1 ELSE permits, UNCHANGED queued
        PROVE  IInv'
    <2>1. ASSUME ~Limited PROVE PermitsOK'
      BY <2>1, <1>1, <1>4 DEF PermitsOK, PermitsConserved, Limited
    <2>2. ASSUME Limited PROVE PermitsOK'
      <3>1. permits \in Nat /\ permits > 0
        BY <1>1, <1>4, <2>2 DEF Locked
      <3>2. s \notin Holders /\ Holders' = Holders \cup {s}
        BY <1>1, <1>4 DEF Holders, Holding
      <3>3. PermitMove
        BY <3>1, <3>2, <2>2, <1>1, <1>4 DEF PermitMove
      <3>4. QED
        BY <3>3, <2>2, <1>1, PermitMoveConserves DEF PermitsOK
    <2>3. PermitsOK'
      BY <2>1, <2>2
    <2>4. /\ \A t \in Steps : TaskMove(t)
          /\ task' \in [Steps -> TaskStates] /\ outcome' \in [Steps -> Result]
          /\ queued' \subseteq Steps
      BY <1>1, <1>2, <1>4 DEF TaskMove, Live, TaskStates, Ended, Holding
    <2>5. QED
      BY <1>1, <1>2, <2>3, <2>4, TaskMovesKeepIInv
  <1>5. QED
    BY <1>3, <1>4 DEF TaskStarts

(* A resumed task keeps its permit and passes at most one free permit on. *)
LEMMA TaskResumesKeeps == ASSUME IInv, NEW s \in Steps, TaskResumes(s) PROVE IInv'
  <1>1. /\ LoopFree /\ task[s] = "granted"
        /\ task \in [Steps -> TaskStates] /\ outcome \in [Steps -> Result]
        /\ queued' \subseteq Steps /\ permits \in 0..Limit /\ PermitsConserved
    BY DEF TaskResumes, IInv, TypeOK
  <1>2. UNCHANGED <<pc, cancelling, outcome, called, results, raised, rest>>
    BY DEF TaskResumes
  <1> DEFINE passed == IF permits > 0 THEN Heir ELSE {}
  <1>3. /\ task' = [t \in Steps |-> IF t = s THEN "running"
                                    ELSE IF t \in passed THEN "granted" ELSE task[t]]
        /\ permits' = IF passed # {} THEN permits - 1 ELSE permits
    BY DEF TaskResumes
  <1>4. \A t \in passed : t \in Steps /\ task[t] = "waiting"
    BY HeirIsOne
  <1>5. /\ \A t \in Steps : TaskMove(t)
        /\ task' \in [Steps -> TaskStates] /\ outcome' \in [Steps -> Result]
    BY <1>1, <1>2, <1>3, <1>4 DEF TaskMove, Live, TaskStates, Ended, Holding
  <1>6. PermitsOK'
    <2>1. CASE passed = {}
      <3>1. Holders' = Holders
        BY <2>1, <1>1, <1>3 DEF Holders, Holding
      <3>2. QED
        BY <2>1, <3>1, <1>1, <1>3 DEF PermitsOK, PermitsConserved
    <2>2. ASSUME permits > 0, NEW w \in Steps, Heir = {w}, task[w] = "waiting"
          PROVE  PermitsOK'
      <3>1. w \notin Holders /\ Holders' = Holders \cup {w}
        BY <2>2, <1>1, <1>3 DEF Holders, Holding
      <3>2. Limited
        BY <2>2, <1>1, LimitAssumption DEF Limited
      <3>3. PermitMove
        BY <2>2, <3>1, <1>3 DEF PermitMove
      <3>4. QED
        BY <3>2, <3>3, <1>1, PermitMoveConserves DEF PermitsOK
    <2>3. QED
      BY <2>1, <2>2, HeirIsOne
  <1>7. QED
    BY <1>1, <1>2, <1>5, <1>6, TaskMovesKeepIInv

(* A task that ends, by itself or by cancellation. *)
LEMMA TaskEndsKeeps ==
  ASSUME IInv, NEW s \in Steps, TaskEnds(s) \/ TaskCancelled(s)
  PROVE  IInv'
  <1>1. /\ task \in [Steps -> TaskStates] /\ outcome \in [Steps -> Result]
        /\ queued \subseteq Steps /\ PermitsOK
        /\ outcome[s] # "none" <=> task[s] = "done"
    BY DEF IInv, TypeOK, PermitsOK, TaskFacts
  <1>2. /\ LoopFree /\ task[s] \in Live /\ task[s] \notin Ended
        /\ queued' = queued
        /\ UNCHANGED <<pc, cancelling, called, results, raised, rest>>
    BY DEF TaskEnds, TaskCancelled, Live, TaskStates, Ended, Holding
  <1>3. PICK ended \in Ended : /\ Release(s, ended)
                               /\ ended = "cancelled" => s \in cancelling
                               /\ \/ /\ ended = "done"
                                     /\ \E r \in {"SUCCEEDED", "FAILED"} :
                                          outcome' = [outcome EXCEPT ![s] = r]
                                  \/ ended # "done" /\ outcome' = outcome
    BY DEF TaskEnds, TaskCancelled, Ended
  <1>4. /\ task' \in [Steps -> TaskStates] /\ PermitsOK' /\ task'[s] = ended
        /\ \A t \in Steps \ {s} : \/ task'[t] = task[t]
                                  \/ task[t] = "waiting" /\ task'[t] = "granted"
    BY <1>1, <1>2, <1>3, ReleaseKeeps
  <1>5. /\ outcome' \in [Steps -> Result]
        /\ \A t \in Steps \ {s} : outcome'[t] = outcome[t]
        /\ outcome'[s] = "none" <=> ended # "done"
    BY <1>1, <1>2, <1>3 DEF Result, Ended
  <1>6. TaskMove(s)
    BY <1>2, <1>3, <1>4, <1>5 DEF TaskMove
  <1>7. \A t \in Steps \ {s} : TaskMove(t)
    BY <1>4, <1>5 DEF TaskMove, Live, TaskStates, Ended, Holding
  <1>8. QED
    BY <1>1, <1>2, <1>4, <1>5, <1>6, <1>7, TaskMovesKeepIInv

(* A call is picked up only while nothing was cancelled, so the calls in   *)
(* flight are of steps that hold a permit.                                 *)
LEMMA ProviderCalledKeeps == ASSUME IInv, NEW s \in Steps, ProviderCalled(s) PROVE IInv'
  <1> USE DEF IInv
  <1>1. /\ task[s] = "running" /\ s \notin cancelling /\ called' = called \cup {s}
        /\ UNCHANGED <<pc, task, cancelling, outcome, permits, results, raised, queued, rest>>
    BY DEF ProviderCalled
  <1>2. /\ TypeOK' /\ RunnerFacts' /\ ResultFacts' /\ CompletedFacts' /\ PermitsConserved'
        /\ TaskFacts'
    <2>1. TypeOK'
      BY <1>1 DEF TypeOK, rest
    <2>2. RunnerFacts' /\ ResultFacts' /\ CompletedFacts' /\ PermitsConserved'
      BY <1>1 DEF RunnerFacts, ResultFacts, CompletedFacts, PermitsConserved, Settled,
                  ResultOf, Unfinished, Holders, rest
    <2>3. TaskFacts'
      BY <1>1 DEF TaskFacts, Unfinished
    <2>4. QED
      BY <2>1, <2>2, <2>3
  <1>3. cancelling = {}
    <2>1. s \in Unfinished
      BY <1>1 DEF Unfinished, Ended
    <2>2. QED
      BY <2>1, <1>1 DEF TaskFacts
  <1>4. InFlight' \subseteq Holders
    BY <1>1, <1>2, <1>3 DEF InFlight, Holders, Holding, TaskFacts, Ended, TypeOK
  <1>5. CallsWithinLimit'
    <2>1. Holders \in SUBSET Steps
      BY DEF Holders
    <2>2. /\ Cardinality(InFlight') <= Cardinality(Holders)
          /\ Cardinality(Holders) \in Nat /\ Cardinality(InFlight') \in Nat
      BY <1>4, <2>1, StepSets, FS_Subset
    <2>3. QED
      BY <2>2, LimitAssumption DEF CallsWithinLimit, PermitsConserved, Limited, TypeOK
  <1>6. QED
    BY <1>2, <1>5

-----------------------------------------------------------------------------
(* The runner. *)

(* The runner leaves the tasks alone, and cancels all unfinished ones when *)
(* it cancels any.                                                         *)
LEMMA TasksLeftAlone ==
  ASSUME IInv, UNCHANGED <<task, outcome, permits, called>>,
         cancelling' = cancelling \/ Unfinished \subseteq cancelling',
         cancelling \subseteq cancelling'
  PROVE  PermitsConserved' /\ CallsWithinLimit' /\ TaskFacts'
  <1> USE DEF IInv
  <1>1. PermitsConserved' /\ CallsWithinLimit'
    BY DEF PermitsConserved, CallsWithinLimit, Holders, InFlight
  <1>2. Unfinished' = Unfinished
    BY DEF Unfinished
  <1>3. cancelling' = {} => cancelling = {}
    OBVIOUS
  <1>4. TaskFacts'
    BY <1>2, <1>3 DEF TaskFacts
  <1>5. QED
    BY <1>1, <1>4

(* Nothing was called, and no task has ended, before the launch. *)
LEMMA LaunchKeeps == ASSUME IInv, Launch PROVE IInv'
  <1> USE DEF IInv
  <1>1. /\ pc = "launch" /\ raised = "none" /\ terminal = "none"
        /\ \A s \in Steps : task[s] = "idle" /\ reported[s] = "none"
        /\ UNCHANGED <<failFast, cancelling, outcome, permits, called, results, queued,
                       terminal, sunk>>
    BY DEF Launch, RunnerFacts
  <1>2. /\ task' = task \/ task' = [s \in Steps |-> "new"]
        /\ \/ pc' = "finalize" /\ raised' = "timeout"
           \/ pc' = "gather" /\ raised' = "none"
        /\ \/ reported' = reported /\ pc' = "finalize"
           \/ reported' = [s \in Steps |-> "started"]
    BY <1>1 DEF Launch
  <1>3. \A s \in Steps : task'[s] \in {"idle", "new"}
    BY <1>1, <1>2
  <1>4. TypeOK'
    <2>1. task' \in [Steps -> TaskStates]
      BY <1>2 DEF TypeOK, TaskStates
    <2>2. reported' \in [Steps -> {"none", "started", "SUCCEEDED", "FAILED"}]
      BY <1>2 DEF TypeOK
    <2>3. pc' \in Locations /\ raised' \in {"none", "timeout", "cancel", "error", "sink"}
      BY <1>2 DEF Locations
    <2>4. QED
      BY <1>1, <2>1, <2>2, <2>3 DEF TypeOK
  <1>5. /\ called = {} /\ Holders = {} /\ Holders' = {}
        /\ \A s \in Steps : task[s] \notin Ended /\ task'[s] \notin Ended
    BY <1>1, <1>3 DEF TaskFacts, TypeOK, Holders, Holding, Ended
  <1>6. PermitsConserved' /\ CallsWithinLimit'
    BY <1>1, <1>5 DEF PermitsConserved, CallsWithinLimit, InFlight
  <1>7. Unfinished = Steps /\ Unfinished' = Steps
    BY <1>5 DEF Unfinished
  <1>8. TaskFacts'
    BY <1>1, <1>3, <1>5, <1>7 DEF TaskFacts, Ended
  <1>9. \A s \in Steps : results[s] = "none"
    BY <1>5 DEF ResultFacts
  <1>10. ResultFacts' /\ CompletedFacts'
    BY <1>1, <1>9 DEF ResultFacts, CompletedFacts
  <1>11. RunnerFacts'
    BY <1>1, <1>2 DEF RunnerFacts
  <1>12. QED
    BY <1>4, <1>6, <1>8, <1>10, <1>11

(* The runner collects finished tasks; a failure among them cancels all    *)
(* the unfinished ones.                                                    *)
LEMMA ObserveKeeps == ASSUME IInv, Observe PROVE IInv'
  <1> USE DEF IInv
  <1> DEFINE finished == {s \in Steps : task[s] \in Ended /\ results[s] = "none"}
             failed == \E s \in finished : ResultOf(s) = "FAILED"
  <1>1. /\ pc = "gather" /\ raised = "none" /\ terminal = "none"
        /\ \A s \in Steps : reported[s] = "started"
        /\ UNCHANGED <<task, outcome, permits, called, raised, queued, rest>>
    BY DEF Observe, RunnerFacts
  <1>2. /\ results' = [s \in Steps |-> IF s \in finished THEN ResultOf(s) ELSE results[s]]
        /\ cancelling' = IF failed THEN cancelling \cup Unfinished ELSE cancelling
        /\ pc' = IF failed THEN "reap" ELSE IF Unfinished = {} THEN "record" ELSE pc
    BY DEF Observe
  <1>4. Unfinished' = Unfinished /\ \A s \in Steps : ResultOf(s)' = ResultOf(s)
    BY <1>1 DEF Unfinished, ResultOf
  <1>5. \A s \in Steps : ResultOf(s) \in Result
    BY DEF ResultOf, Result, TypeOK
  <1>6. TypeOK'
    <2>1. results' \in [Steps -> Result]
      BY <1>2, <1>5 DEF TypeOK
    <2>2. cancelling' \subseteq Steps
      BY <1>2 DEF TypeOK, Unfinished
    <2>3. pc' \in Locations
      BY <1>1, <1>2 DEF Locations
    <2>4. QED
      BY <1>1, <2>1, <2>2, <2>3 DEF TypeOK, rest
  <1>7. PermitsConserved' /\ CallsWithinLimit' /\ TaskFacts'
    BY <1>1, <1>2, TasksLeftAlone
  <1>9. ResultFacts'
    <2>1. \A s \in Steps : results'[s] # "none" =>
            task'[s] \in Ended /\ results'[s] = ResultOf(s)'
      BY <1>1, <1>2, <1>4 DEF ResultFacts
    <2>2. (\E s \in Steps : results'[s] = "FAILED") => Unfinished' \subseteq cancelling'
      BY <1>2, <1>4 DEF ResultFacts
    <2>3. QED
      BY <2>1, <2>2 DEF ResultFacts
  <1>10. RunnerFacts'
    <2>1. pc' = "record" => Settled'
      <3>1. SUFFICES ASSUME pc' = "record", NEW s \in Steps
                     PROVE  task[s] \in Ended /\ results'[s] = ResultOf(s)
        BY <1>1, <1>4 DEF Settled
      <3>2. Unfinished = {}
        BY <1>1, <1>2, <3>1
      <3>3. task[s] \in Ended
        BY <3>2 DEF Unfinished
      <3>4. QED
        BY <3>3, <1>2 DEF ResultFacts
    <2>2. pc' \in {"gather", "reap", "record"}
      BY <1>1, <1>2
    <2>3. QED
      BY <1>1, <2>1, <2>2 DEF RunnerFacts, rest
  <1>11. CompletedFacts'
    BY <1>1 DEF CompletedFacts, rest
  <1>12. QED
    BY <1>6, <1>7, <1>9, <1>10, <1>11

(* The end of the wait: all tasks have ended and each has its result, or   *)
(* the run was interrupted.                                                *)
LEMMA ReapKeeps == ASSUME IInv, Reap \/ Gathered PROVE IInv'
  <1> USE DEF IInv
  <1>1. /\ pc \in {"gather", "reap"} /\ terminal = "none"
        /\ \A s \in Steps : reported[s] = "started"
        /\ UNCHANGED <<task, cancelling, outcome, permits, called, queued, rest>>
    BY DEF Reap, Gathered, RunnerFacts
  <1>2. Unfinished' = Unfinished /\ \A s \in Steps : ResultOf(s)' = ResultOf(s)
    BY <1>1 DEF Unfinished, ResultOf
  <1>3. \/ /\ pc' = "record" /\ raised = "none" /\ raised' = "none"
           /\ \A s \in Steps : task[s] \in Ended
           /\ results' = [s \in Steps |-> ResultOf(s)]
        \/ /\ pc' = "finalize" /\ raised' \in {"timeout", "cancel", "error", "sink"}
           /\ results' = results
    <2>1. CASE Reap
      BY <2>1 DEF Reap, Unfinished, TypeOK
    <2>2. CASE Gathered
      <3>1. pc = "gather" /\ raised = "none"
        BY <2>2 DEF Gathered, RunnerFacts
      <3>2. ASSUME \A s \in Steps : task[s] = "done", results' = outcome
            PROVE  results' = [s \in Steps |-> ResultOf(s)]
        BY <3>2 DEF ResultOf, TypeOK
      <3>3. QED
        BY <2>2, <3>1, <3>2 DEF Gathered, Ended
    <2>3. QED
      BY <2>1, <2>2
  <1>4. \A s \in Steps : ResultOf(s) \in Result
    BY DEF ResultOf, Result, TypeOK
  <1>5. TypeOK'
    <2>1. results' \in [Steps -> Result]
      BY <1>3, <1>4 DEF TypeOK
    <2>2. pc' \in Locations /\ raised' \in {"none", "timeout", "cancel", "error", "sink"}
      BY <1>3 DEF Locations
    <2>3. QED
      BY <1>1, <2>1, <2>2 DEF TypeOK, rest
  <1>6. PermitsConserved' /\ CallsWithinLimit' /\ TaskFacts'
    BY <1>1, TasksLeftAlone
  <1>7. ResultFacts'
    BY <1>1, <1>2, <1>3 DEF ResultFacts, Unfinished
  <1>8. RunnerFacts'
    BY <1>1, <1>2, <1>3 DEF RunnerFacts, Settled, rest
  <1>9. CompletedFacts'
    BY <1>1 DEF CompletedFacts, rest
  <1>10. QED
    BY <1>5, <1>6, <1>7, <1>8, <1>9

(* An interrupt cancels all unfinished tasks or none. *)
LEMMA InterruptedKeeps == ASSUME IInv, Interrupted PROVE IInv'
  <1> USE DEF IInv
  <1>1. /\ pc \in {"gather", "reap"} /\ terminal = "none"
        /\ \A s \in Steps : reported[s] = "started"
        /\ UNCHANGED <<task, outcome, permits, called, results, queued, rest>>
        /\ raised' \in {"timeout", "cancel"}
        /\ pc' \in {"reap", "finalize"}
        /\ cancelling' = cancelling \/ cancelling' = cancelling \cup Unfinished
    BY ModeAssumption DEF Interrupted, RunnerFacts, TypeOK
  <1>2. Unfinished' = Unfinished /\ \A s \in Steps : ResultOf(s)' = ResultOf(s)
    BY <1>1 DEF Unfinished, ResultOf
  <1>3. TypeOK'
    <2>1. cancelling' \subseteq Steps /\ pc' \in Locations
          /\ raised' \in {"none", "timeout", "cancel", "error", "sink"}
      BY <1>1 DEF TypeOK, Unfinished, Locations
    <2>2. QED
      BY <1>1, <2>1 DEF TypeOK, rest
  <1>4. PermitsConserved' /\ CallsWithinLimit' /\ TaskFacts'
    BY <1>1, TasksLeftAlone
  <1>5. ResultFacts'
    BY <1>1, <1>2 DEF ResultFacts
  <1>6. RunnerFacts'
    BY <1>1 DEF RunnerFacts, rest
  <1>7. CompletedFacts'
    BY <1>1 DEF CompletedFacts, rest
  <1>8. QED
    BY <1>3, <1>4, <1>5, <1>6, <1>7

(* The last steps of arun(): reports, terminal event, sink. *)
LEMMA EndingKeeps == ASSUME IInv, Record \/ Finalize \/ Close PROVE IInv'
  <1> USE DEF IInv
  <1>1. UNCHANGED <<failFast, task, cancelling, outcome, permits, called, results, queued>>
    BY DEF Record, Finalize, Close, rest
  <1>2. Unfinished' = Unfinished /\ \A s \in Steps : ResultOf(s)' = ResultOf(s)
    BY <1>1 DEF Unfinished, ResultOf
  <1>3. PermitsConserved' /\ CallsWithinLimit' /\ TaskFacts' /\ ResultFacts'
    BY <1>1, <1>2, TasksLeftAlone DEF ResultFacts
  <1>4. ASSUME Record PROVE TypeOK' /\ RunnerFacts' /\ CompletedFacts'
    <2>1. /\ pc = "record" /\ Settled /\ raised = "none" /\ terminal = "none"
          /\ pc' = "finalize" /\ raised' = "none" /\ reported' = results
          /\ terminal' = "none" /\ sunk' = sunk
      BY <1>4 DEF Record, RunnerFacts, rest
    <2>2. \A s \in Steps : results[s] \in {"SUCCEEDED", "FAILED"}
      BY <2>1 DEF Settled, ResultOf, TypeOK, Result, TaskFacts
    <2>3. TypeOK'
      BY <1>1, <2>1, <2>2 DEF TypeOK, Locations
    <2>4. QED
      BY <1>1, <1>2, <2>1, <2>3 DEF RunnerFacts, CompletedFacts, Settled
  <1>5. ASSUME Finalize PROVE TypeOK' /\ RunnerFacts' /\ CompletedFacts'
    <2>1. /\ pc = "finalize" /\ terminal = "none" /\ pc' = "closing" /\ reported' = reported
      BY <1>5 DEF Finalize, RunnerFacts
    <2>2. /\ terminal' \in {"completed", "failed"} /\ sunk' \in BOOLEAN
          /\ raised' \in {"none", "timeout", "cancel", "error", "sink"}
          /\ terminal' = "completed" =>
               raised = "none" /\ sunk' /\ \A s \in Steps : results[s] = "SUCCEEDED"
      BY <1>5 DEF Finalize, TypeOK
    <2>3. TypeOK'
      BY <1>1, <2>1, <2>2 DEF TypeOK, Locations
    <2>4. RunnerFacts'
      BY <2>1, <2>2 DEF RunnerFacts
    <2>5. CompletedFacts'
      <3>1. SUFFICES ASSUME terminal' = "completed", NEW s \in Steps
                     PROVE  task[s] = "done" /\ outcome[s] = "SUCCEEDED"
                            /\ reported[s] = "SUCCEEDED"
        BY <1>1, <2>1, <2>2 DEF CompletedFacts
      <3>2. Settled /\ reported = results /\ results[s] = "SUCCEEDED"
        BY <2>1, <2>2, <3>1 DEF RunnerFacts
      <3>3. QED
        BY <3>2 DEF Settled, ResultOf
    <2>6. QED
      BY <2>3, <2>4, <2>5
  <1>6. ASSUME Close PROVE TypeOK' /\ RunnerFacts' /\ CompletedFacts'
    <2>1. pc = "closing" /\ pc' = "returned" /\ UNCHANGED <<raised, rest>>
      BY <1>6 DEF Close
    <2>2. QED
      BY <1>1, <2>1 DEF TypeOK, RunnerFacts, CompletedFacts, Locations, rest
  <1>7. QED
    BY <1>3, <1>4, <1>5, <1>6

-----------------------------------------------------------------------------
(* The theorems. *)

(* Nothing is known, held or reported initially. *)
LEMMA InitIInv == Init => IInv
  <1> SUFFICES ASSUME Init PROVE IInv
    OBVIOUS
  <1> USE DEF Init
  <1>1. TypeOK
    <2>1. Limit \in 0..Limit
      BY LimitAssumption
    <2>2. /\ task \in [Steps -> TaskStates]
          /\ outcome \in [Steps -> Result] /\ results \in [Steps -> Result]
          /\ reported \in [Steps -> {"none", "started", "SUCCEEDED", "FAILED"}]
      BY DEF TaskStates, Result
    <2>3. failFast \in BOOLEAN
      BY ModeAssumption
    <2>4. QED
      BY <2>1, <2>2, <2>3 DEF TypeOK, Locations
  <1>2. Holders = {} /\ InFlight = {}
    BY DEF Holders, InFlight, Holding
  <1>3. PermitsConserved /\ CallsWithinLimit
    BY <1>2, LimitAssumption, FS_EmptySet DEF PermitsConserved, CallsWithinLimit, Limited
  <1>4. TaskFacts /\ ResultFacts /\ RunnerFacts /\ CompletedFacts
    BY DEF TaskFacts, ResultFacts, RunnerFacts, CompletedFacts
  <1>5. QED
    BY <1>1, <1>3, <1>4 DEF IInv

(* Every step of the run keeps the inductive invariant. *)
LEMMA NextIInv == IInv /\ [Next]_vars => IInv'
  <1> SUFFICES ASSUME IInv, [Next]_vars PROVE IInv'
    OBVIOUS
  <1>1. CASE Runner
    BY <1>1, LaunchKeeps, ObserveKeeps, ReapKeeps, EndingKeeps DEF Runner
  <1>2. CASE Interrupted
    BY <1>2, InterruptedKeeps
  <1>3. ASSUME NEW s \in Steps, TaskStep(s) PROVE IInv'
    BY <1>3, TaskStartsKeeps, TaskResumesKeeps, ProviderCalledKeeps, TaskEndsKeeps DEF TaskStep
  <1>4. CASE UNCHANGED vars
    BY <1>4 DEF vars, rest, IInv, TypeOK, PermitsConserved, CallsWithinLimit, TaskFacts,
                ResultFacts, RunnerFacts, CompletedFacts, Holders, InFlight, Settled,
                ResultOf, Unfinished
  <1>5. QED
    BY <1>1, <1>2, <1>3, <1>4 DEF Next, Returned

(* The inductive invariant holds in every behaviour of arun(). *)
THEOREM Invariance == Spec => []IInv
  BY InitIInv, NextIInv, PTL DEF Spec

(* The state of the run is well formed throughout. *)
THEOREM TypeCorrectness == Spec => []TypeOK
  <1>1. IInv => TypeOK
    BY DEF IInv
  <1>2. QED
    BY <1>1, Invariance, PTL

(* No permit of the semaphore is lost or duplicated, whatever completions, *)
(* hand-overs and cancellations meet.                                      *)
THEOREM PermitSafety == Spec => []PermitsConserved
  <1>1. IInv => PermitsConserved
    BY DEF IInv
  <1>2. QED
    BY <1>1, Invariance, PTL

(* max_concurrency bounds the provider calls in flight, those that outlive *)
(* the cancellation of their step included.                                *)
THEOREM ConcurrencyBound == Spec => []CallsWithinLimit
  <1>1. IInv => CallsWithinLimit
    BY DEF IInv
  <1>2. QED
    BY <1>1, Invariance, PTL

(* The results of a run that was not aborted tell what each step did. *)
THEOREM ResultSafety == Spec => []ResultsFaithful
  <1>1. IInv => ResultsFaithful
    <2> SUFFICES ASSUME IInv, pc \in {"record", "finalize"}, raised = "none", NEW s \in Steps
                 PROVE  /\ results[s] # "none"
                        /\ results[s] = "SUCCEEDED" <=> outcome[s] = "SUCCEEDED"
      BY DEF ResultsFaithful
    <2>1. results[s] = ResultOf(s)
      BY DEF IInv, RunnerFacts, Settled
    <2>2. outcome[s] # "none" <=> task[s] = "done"
      BY DEF IInv, TaskFacts
    <2>3. QED
      BY <2>1, <2>2 DEF ResultOf
  <1>2. QED
    BY <1>1, Invariance, PTL

(* A run is reported completed only when every step succeeded, was         *)
(* reported so, and the sink accepted the manifest.                        *)
THEOREM CompletionSafety == Spec => []CompletedIsTotal
  <1>1. IInv => CompletedIsTotal
    BY DEF IInv, CompletedFacts, CompletedIsTotal
  <1>2. QED
    BY <1>1, Invariance, PTL

(* No provider call starts once the runner has seen a failure. *)
THEOREM FailFastSafety == Spec => NoCallAfterObservedFailure
  <1>1. IInv /\ [Next]_vars =>
          [(\E s \in Steps : results[s] = "FAILED") => called' = called]_vars
    <2> SUFFICES ASSUME IInv, Next, \E s \in Steps : results[s] = "FAILED"
                 PROVE  called' = called
      OBVIOUS
    <2>1. Unfinished \subseteq cancelling
      BY DEF IInv, ResultFacts
    <2>2. ASSUME NEW s \in Steps, ProviderCalled(s) PROVE FALSE
      BY <2>1, <2>2 DEF ProviderCalled, Unfinished, Ended
    <2>3. CASE Runner
      BY <2>3 DEF Runner, Launch, Observe, Reap, Gathered, Record, Finalize, Close
    <2>4. CASE Interrupted
      BY <2>4 DEF Interrupted
    <2>5. ASSUME NEW s \in Steps, TaskStep(s) PROVE called' = called
      BY <2>2, <2>5 DEF TaskStep, TaskStarts, TaskResumes, TaskEnds, TaskCancelled
    <2>6. CASE Returned
      BY <2>6 DEF Returned, vars
    <2>7. QED
      BY <2>3, <2>4, <2>5, <2>6 DEF Next
  <1>2. QED
    BY <1>1, Invariance, PTL DEF Spec, NoCallAfterObservedFailure

(* A run that nothing interrupted from outside outlives its tasks. *)
TasksGone ==
  /\ raised = "sink" => pc \in {"closing", "returned"}
  /\ pc \in {"closing", "returned"} /\ raised \in {"none", "sink"} =>
       \A s \in Steps : task[s] \in Ended

(* No task survives the finalisation of such a run. *)
LEMMA TasksGoneKept == IInv /\ TasksGone /\ [Next]_vars => TasksGone'
  <1> SUFFICES ASSUME IInv, TasksGone, [Next]_vars PROVE TasksGone'
    OBVIOUS
  <1>1. CASE Finalize
    <2>1. /\ pc = "finalize" /\ pc' = "closing" /\ task' = task
          /\ raised = "none" \/ raised' = raised
      BY <1>1 DEF Finalize
    <2>2. raised = "none" => \A s \in Steps : task[s] \in Ended
      BY <2>1 DEF IInv, RunnerFacts, Settled
    <2>3. QED
      BY <2>1, <2>2 DEF TasksGone
  <1>2. CASE Launch \/ Observe \/ Reap \/ Gathered \/ Record \/ Interrupted
    <2>1. pc' \notin {"closing", "returned"} /\ pc \notin {"closing", "returned"}
      BY <1>2 DEF Launch, Observe, Reap, Gathered, Record, Interrupted
    <2>2. raised' = raised \/ raised' \in {"timeout", "cancel", "error"}
      BY <1>2, ModeAssumption
         DEF Launch, Observe, Reap, Gathered, Record, Interrupted
    <2>3. QED
      BY <2>1, <2>2 DEF TasksGone
  <1>3. CASE Close
    BY <1>3 DEF Close, TasksGone
  <1>4. ASSUME NEW s \in Steps, TaskStep(s) PROVE TasksGone'
    <2>1. task[s] \notin Ended
      BY <1>4 DEF TaskStep, TaskStarts, TaskResumes, ProviderCalled, TaskEnds, TaskCancelled,
                  Holding, Ended
    <2>2. UNCHANGED <<pc, raised>>
      BY <1>4 DEF TaskStep, TaskStarts, TaskResumes, ProviderCalled, TaskEnds, TaskCancelled
    <2>3. QED
      BY <2>1, <2>2 DEF TasksGone
  <1>5. CASE UNCHANGED vars
    BY <1>5 DEF vars, TasksGone
  <1>6. QED
    BY <1>1, <1>2, <1>3, <1>4, <1>5 DEF Next, Runner, Returned

(* A fail-fast run that returned, or raised what its sink raised, makes no *)
(* more provider calls.                                                    *)
THEOREM NoStrayCalls == Spec => NoStrayCall
  <1>1. Init => TasksGone
    BY DEF Init, TasksGone
  <1>2. TasksGone /\ [Next]_vars =>
          [pc = "returned" /\ failFast /\ raised \in {"none", "sink"} => called' = called]_vars
    <2> SUFFICES ASSUME TasksGone, Next, pc = "returned", raised \in {"none", "sink"}
                 PROVE  called' = called
      OBVIOUS
    <2>1. ASSUME NEW s \in Steps, ProviderCalled(s) PROVE FALSE
      BY <2>1 DEF ProviderCalled, TasksGone, Ended
    <2>2. CASE Runner
      BY <2>2 DEF Runner, Launch, Observe, Reap, Gathered, Record, Finalize, Close
    <2>3. CASE Interrupted
      BY <2>3 DEF Interrupted
    <2>4. ASSUME NEW s \in Steps, TaskStep(s) PROVE called' = called
      BY <2>1, <2>4 DEF TaskStep, TaskStarts, TaskResumes, TaskEnds, TaskCancelled
    <2>5. CASE Returned
      BY <2>5 DEF Returned, vars
    <2>6. QED
      BY <2>2, <2>3, <2>4, <2>5 DEF Next
  <1>3. QED
    BY <1>1, <1>2, TasksGoneKept, Invariance, PTL DEF Spec, NoStrayCall

(* The events of arun() keep the contract of a run: announced before      *)
(* reported, reported once, one terminal event, nothing after it, and      *)
(* completed only when every report was a success.                         *)
THEOREM Refinement == Spec => ImplementsContract
  <1>1. Init => Contract!Init
    BY DEF Init, Contract!Init
  <1>2. IInv /\ [Next]_vars => [Contract!Next]_(Contract!vars)
    <2> SUFFICES ASSUME IInv, [Next]_vars PROVE [Contract!Next]_(Contract!vars)
      OBVIOUS
    <2> USE DEF IInv
    <2>1. CASE Launch
      <3>1. pc = "launch" /\ terminal = "none" /\ terminal' = terminal
            /\ \A s \in Steps : reported[s] = "none"
        BY <2>1 DEF Launch, RunnerFacts
      <3>2. CASE reported' = reported
        BY <3>1, <3>2 DEF Contract!vars
      <3>3. CASE reported' = [s \in Steps |-> "started"]
        <4>1. Steps \in SUBSET {s \in Steps : reported[s] = "none"}
          BY <3>1
        <4>2. reported' = [s \in Steps |-> IF s \in Steps THEN "started" ELSE reported[s]]
          BY <3>3
        <4>3. Contract!Announce
          BY <3>1, <4>1, <4>2 DEF Contract!Announce
        <4>4. QED
          BY <4>3 DEF Contract!Next
      <3>4. QED
        BY <2>1, <3>2, <3>3 DEF Launch
    <2>2. CASE Record
      <3>1. /\ pc = "record" /\ terminal = "none" /\ terminal' = terminal
            /\ Settled /\ reported' = results
            /\ \A s \in Steps : reported[s] = "started"
        BY <2>2 DEF Record, RunnerFacts
      <3>2. \A s \in Steps : reported'[s] \in {"SUCCEEDED", "FAILED"}
        BY <3>1 DEF Settled, ResultOf, TypeOK, Result, TaskFacts
      <3>3. reported' \in [Steps -> {"none", "started", "SUCCEEDED", "FAILED"}]
        BY <3>1, <3>2 DEF TypeOK
      <3>4. QED
        BY <3>1, <3>2, <3>3 DEF Contract!Next, Contract!Report
    <2>3. CASE Finalize
      <3>1. terminal = "none" /\ pc = "finalize" /\ reported' = reported
        BY <2>3 DEF Finalize, RunnerFacts
      <3>2. \/ terminal' = "failed"
            \/ /\ terminal' = "completed"
               /\ raised = "none" /\ \A s \in Steps : results[s] = "SUCCEEDED"
        BY <2>3 DEF Finalize
      <3>3. terminal' = "completed" => \A s \in Steps : reported[s] = "SUCCEEDED"
        BY <3>1, <3>2 DEF RunnerFacts
      <3>4. QED
        BY <3>1, <3>2, <3>3 DEF Contract!Next, Contract!End
    <2>4. CASE Observe \/ Reap \/ Gathered \/ Close \/ Interrupted \/ Returned
      <3>1. UNCHANGED <<reported, terminal>>
        BY <2>4 DEF Observe, Reap, Gathered, Close, Interrupted, Returned, vars, rest
      <3>2. QED
        BY <3>1 DEF Contract!vars
    <2>5. ASSUME NEW s \in Steps, TaskStep(s) PROVE UNCHANGED Contract!vars
      BY <2>5 DEF TaskStep, TaskStarts, TaskResumes, ProviderCalled, TaskEnds, TaskCancelled,
                  rest, Contract!vars
    <2>6. CASE UNCHANGED vars
      BY <2>6 DEF vars, rest, Contract!vars
    <2>7. QED
      BY <2>1, <2>2, <2>3, <2>4, <2>5, <2>6 DEF Next, Runner
  <1>3. QED
    BY <1>1, <1>2, Invariance, PTL DEF Spec, ImplementsContract, Contract!Spec

-----------------------------------------------------------------------------
(* The batch maintainer: plans, for every set of numbered issues, whatever *)
(* the scout finds and however pull requests end.                          *)

(* Issues have numbers. *)
IssuesAreNumbers == Issues \subseteq Nat

(* A set of issues that is closed under shared files. *)
Closed(S, within) == \A a \in S, b \in within : B!Overlap(a, b) => b \in S

(* Nobody in a pull request for c waits for an open issue outside it. *)
Fit(c) ==
  \A i \in c : \A e \in deps[i] \cap open :
     e \in c \/ (c = {i} /\ i < e /\ B!Linked(i, e))

(* No two of these pull requests share a file. *)
Apart(work) == \A c, d \in work : c # d => \A i \in c, j \in d : ~B!Overlap(i, j)

(* What a plan would send off. *)
SentOff(clusters) == {c.issues : c \in {x \in clusters : x.executable}}

GoodPlan(clusters) == (\A c \in SentOff(clusters) : Fit(c)) /\ Apart(SentOff(clusters))

Fresh == {p.issues : p \in {q \in prs : q.fresh}}

(* The token of a document says what the plan was, and it was a good one,  *)
(* also after the document was edited.                                     *)
DocFacts ==
  \A d \in doc : /\ d = [base |-> d.base, clusters |-> d.clusters, token |-> d.token]
                 /\ GoodPlan(d.token.clusters)

(* What is in work was sent off by good plans, and what is not yet         *)
(* finished of the last one is apart.                                      *)
WorkFacts ==
  /\ \A p \in prs : p = [issues |-> p.issues, fresh |-> p.fresh]
  /\ \A c \in B!InWork : Fit(c)
  /\ Apart(run \cup Fresh)

BatchInv == open \subseteq Issues /\ DocFacts /\ WorkFacts

(* An issue is in its component, which holds whatever shares files with it. *)
LEMMA OwnComponent ==
  ASSUME NEW i \in B!Active
  PROVE  /\ i \in B!Component(i) /\ B!Component(i) \subseteq B!Active
         /\ Closed(B!Component(i), B!Active)
  BY DEF B!Component, Closed

(* Whoever is reached from an issue reaches the same issues. *)
LEMMA SameComponent ==
  ASSUME NEW k \in B!Active, NEW j \in B!Component(k)
  PROVE  B!Component(j) = B!Component(k)
<1>1. j \in B!Active
  BY OwnComponent
<1>2. ASSUME NEW x \in B!Component(j) PROVE x \in B!Component(k)
  <2>1. x \in B!Active /\ Closed(B!Component(k), B!Active)
    BY <1>2, OwnComponent, <1>1
  <2>2. B!Component(k) \in SUBSET B!Active
    BY OwnComponent
  <2>3. QED
    BY <1>2, <2>1, <2>2 DEF B!Component, Closed
<1>3. ASSUME NEW x \in B!Component(k) PROVE x \in B!Component(j)
  <2>1. x \in B!Active
    BY <1>3, OwnComponent
  <2>2. SUFFICES ASSUME NEW S \in SUBSET B!Active, j \in S, Closed(S, B!Active), x \notin S
                 PROVE  FALSE
    BY <2>1 DEF B!Component, Closed
  <2>3. Closed(B!Active \ S, B!Active)
    BY <2>2 DEF Closed, B!Overlap
  <2>4. k \in S
    BY <2>2, <2>3 DEF B!Component, Closed
  <2>5. x \in S
    BY <1>3, <2>2, <2>4 DEF B!Component, Closed
  <2>6. QED
    BY <2>2, <2>5
<1>4. QED
  BY <1>2, <1>3

(* Components are disjoint, and an open issue is in its own. *)
LEMMA ComponentsPartition ==
  ASSUME NEW c \in B!Components, NEW i \in c
  PROVE  i \in B!Active /\ c = B!Component(i) /\ c \subseteq B!Active
<1>1. PICK k \in B!Active : c = B!Component(k)
  BY DEF B!Components
<1>2. QED
  BY <1>1, OwnComponent, SameComponent

(* What shares a component is linked by files, also among all issues. *)
LEMMA ComponentIsLinked ==
  ASSUME open \subseteq Issues, NEW i \in B!Active, NEW e \in B!Component(i)
  PROVE  B!Linked(i, e)
<1>1. SUFFICES ASSUME NEW S \in SUBSET Issues, i \in S, Closed(S, Issues)
               PROVE  e \in S
  BY DEF B!Linked, Closed
<1>2. B!Active \subseteq Issues
  BY DEF B!Active
<1>3. Closed(S \cap B!Active, B!Active)
  BY <1>1, <1>2 DEF Closed
<1>4. QED
  BY <1>1, <1>3 DEF B!Component, Closed

(* A set of issues has a first one. *)
LEMMA FirstIssue ==
  ASSUME IssuesAreNumbers, NEW c \in SUBSET Issues, c # {}
  PROVE  B!Min(c) \in c /\ \A y \in c : B!Min(c) <= y
<1>1. IsWellFoundedOn(OpToRel(<, Nat), Nat) /\ c \subseteq Nat
  BY NatLessThanWellFounded DEF IssuesAreNumbers
<1>2. PICK x \in c : \A y \in c : ~(<<y, x>> \in OpToRel(<, Nat))
  BY <1>1, WFMin
<1>3. ASSUME NEW y \in c PROVE x <= y
  <2>1. x \in Nat /\ y \in Nat /\ <<y, x>> \in Nat \X Nat
    BY <1>1, <1>2
  <2>2. <<y, x>> \notin {ss \in Nat \X Nat : ss[1] < ss[2]}
    BY <1>2, Zenon DEF OpToRel
  <2>3. ~(<<y, x>>[1] < <<y, x>>[2])
    BY <2>1, <2>2, Zenon
  <2>4. QED
    BY <2>1, <2>3
<1>4. QED
  BY <1>3 DEF B!Min

(* A component that is ready waits for no open issue but its own. *)
LEMMA ReadyWaitsForNobody ==
  ASSUME NEW c \in B!Components, B!Ready(c), NEW i \in c, NEW e \in deps[i] \cap open
  PROVE  e \in c
<1>1. e \notin B!Skipped
  BY DEF B!Ready, B!InFlight
<1>2. e \in B!Active
  BY <1>1 DEF B!Active
<1>3. B!Component(e) \in B!Components /\ e \in B!Component(e)
  BY <1>2, OwnComponent DEF B!Components
<1>4. B!Component(e) \notin B!Prereqs(c)
  BY DEF B!Ready
<1>5. QED
  BY <1>3, <1>4 DEF B!Prereqs

(* What a component sends off is ready, of its issues, and fits. *)
LEMMA WhatIsSentOff ==
  ASSUME IssuesAreNumbers, open \subseteq Issues,
         NEW c \in B!Components, NEW s \in SentOff(B!Clusters(c))
  PROVE  /\ B!Ready(c) /\ s # {} /\ s \subseteq c /\ Fit(s)
         /\ s = IF B!Oversized(c) THEN {B!Min(c)} ELSE c
<1>1. c # {} /\ c \in SUBSET Issues /\ c \in SUBSET B!Active
  <2>1. PICK k \in B!Active : c = B!Component(k)
    BY DEF B!Components
  <2>2. QED
    BY <2>1, OwnComponent DEF B!Active
<1>2. B!Min(c) \in c /\ \A y \in c : B!Min(c) <= y
  BY <1>1, FirstIssue
<1>3. B!Ready(c) /\ s = IF B!Oversized(c) THEN {B!Min(c)} ELSE c
  <2>1. PICK x \in B!Clusters(c) : x.executable /\ s = x.issues
    BY Zenon DEF SentOff
  <2>2. CASE B!Oversized(c)
    <3>1. \/ x = [issues |-> {B!Min(c)}, executable |-> B!Ready(c)]
          \/ x = [issues |-> c \ {B!Min(c)}, executable |-> FALSE]
      BY <2>1, <2>2, Zenon DEF B!Clusters
    <3>2. x = [issues |-> {B!Min(c)}, executable |-> B!Ready(c)]
      <4>1. ASSUME x = [issues |-> c \ {B!Min(c)}, executable |-> FALSE] PROVE x.executable = FALSE
        BY <4>1, Zenon
      <4>2. QED
        BY <2>1, <3>1, <4>1, Zenon
    <3>4. x.executable = B!Ready(c) /\ x.issues = {B!Min(c)}
      BY <3>2, Zenon
    <3>3. QED
      BY <2>1, <2>2, <3>4, Zenon
  <2>3. CASE ~B!Oversized(c)
    <3>1. x = [issues |-> c, executable |-> B!Ready(c)]
      BY <2>1, <2>3, Zenon DEF B!Clusters
    <3>2. x.executable = B!Ready(c) /\ x.issues = c
      BY <3>1, Zenon
    <3>3. QED
      BY <2>1, <2>3, <3>2, Zenon
  <2>4. QED
    BY <2>2, <2>3
<1>4. s # {} /\ s \subseteq c
  BY <1>1, <1>2, <1>3
<1>5. Fit(s)
  <2>1. SUFFICES ASSUME NEW i \in s, NEW e \in deps[i] \cap open
                 PROVE  e \in s \/ (s = {i} /\ i < e /\ B!Linked(i, e))
    BY DEF Fit
  <2>2. i \in c /\ e \in c
    BY <1>3, <1>4, ReadyWaitsForNobody
  <2>3. CASE B!Oversized(c)
    <3>1. s = {i} /\ i = B!Min(c)
      BY <1>3, <2>3
    <3>2. i \in Nat /\ e \in Nat /\ i <= e
      BY <1>1, <1>2, <2>2, <3>1 DEF IssuesAreNumbers
    <3>3. i \in B!Active /\ e \in B!Component(i)
      BY <2>2, ComponentsPartition
    <3>4. B!Linked(i, e)
      BY <3>3, ComponentIsLinked
    <3>5. QED
      BY <3>1, <3>2, <3>4
  <2>4. QED
    BY <1>3, <2>2, <2>3
<1>6. QED
  BY <1>3, <1>4, <1>5

(* The planner's plan is good: what it sends off waits for nobody, and no  *)
(* two pull requests of it share a file.                                   *)
LEMMA PlanIsGood ==
  ASSUME IssuesAreNumbers, open \subseteq Issues
  PROVE  GoodPlan(B!PlanOf)
<1>1. ASSUME NEW s \in SentOff(B!PlanOf)
      PROVE  \E c \in B!Components : s \in SentOff(B!Clusters(c))
  <2>1. PICK x \in B!PlanOf : x.executable /\ s = x.issues
    BY <1>1, Zenon DEF SentOff
  <2>2. PICK c \in B!Components : x \in B!Clusters(c)
    BY <2>1 DEF B!PlanOf
  <2>3. QED
    BY <2>1, <2>2, Zenon DEF SentOff
<1>2. ASSUME NEW s \in SentOff(B!PlanOf) PROVE Fit(s)
  BY <1>1, <1>2, WhatIsSentOff
<1>3. ASSUME NEW s \in SentOff(B!PlanOf), NEW t \in SentOff(B!PlanOf), s # t,
             NEW i \in s, NEW j \in t
      PROVE  ~B!Overlap(i, j)
  <2>1. PICK c \in B!Components : s \in SentOff(B!Clusters(c))
    BY <1>1, <1>3
  <2>2. PICK d \in B!Components : t \in SentOff(B!Clusters(d))
    BY <1>1, <1>3
  <2> DEFINE sends(x) == IF B!Oversized(x) THEN {B!Min(x)} ELSE x
  <2>7. s \subseteq c /\ s = sends(c)
    BY <2>1, WhatIsSentOff, Zenon
  <2>8. t \subseteq d /\ t = sends(d)
    BY <2>2, WhatIsSentOff, Zenon
  <2> HIDE DEF sends
  <2>3. c # d /\ i \in c /\ j \in d
    BY <1>3, <2>7, <2>8
  <2>4. /\ i \in B!Active /\ c = B!Component(i)
        /\ j \in B!Active /\ d = B!Component(j)
    BY <2>3, ComponentsPartition
  <2>5. B!Overlap(i, j) => j \in c
    BY <2>4, OwnComponent DEF Closed
  <2>6. QED
    BY <2>3, <2>4, <2>5, ComponentsPartition
<1>4. QED
  BY <1>2, <1>3 DEF GoodPlan, Apart
-----------------------------------------------------------------------------
(* What fits and is apart stays so: the estimates do not change, issues    *)
(* are only ever closed, and a part of what is in work is apart as well.   *)
LEMMA WorkKeeps ==
  ASSUME UNCHANGED <<touches, deps>>, open' \subseteq open
  PROVE  /\ \A c : Fit(c) => Fit(c)'
         /\ \A work, part : Apart(work) /\ part \subseteq work => Apart(part)'
<1>1. \A i, j : B!Overlap(i, j)' = B!Overlap(i, j)
  BY DEF B!Overlap
<1>2. ASSUME NEW i, NEW j PROVE B!Linked(i, j) => B!Linked(i, j)'
  BY <1>1 DEF B!Linked
<1>3. ASSUME NEW c, Fit(c) PROVE Fit(c)'
  BY <1>2, <1>3 DEF Fit
<1>4. ASSUME NEW work, NEW part, Apart(work), part \subseteq work PROVE Apart(part)'
  BY <1>1, <1>4 DEF Apart
<1>5. QED
  BY <1>3, <1>4

(* The plan of a document stays good. *)
LEMMA PlanKeeps ==
  ASSUME UNCHANGED <<touches, deps>>, open' \subseteq open, NEW clusters, GoodPlan(clusters)
  PROVE  GoodPlan(clusters)'
<1>1. SentOff(clusters)' = SentOff(clusters)
  BY DEF SentOff
<1>2. \A c \in SentOff(clusters) : Fit(c)'
  BY WorkKeeps DEF GoodPlan
<1>3. Apart(SentOff(clusters))'
  BY WorkKeeps DEF GoodPlan
<1>4. QED
  BY <1>1, <1>2, <1>3, Zenon DEF GoodPlan

(* The documents stay good when none is written. *)
LEMMA DocsKeep ==
  ASSUME UNCHANGED <<touches, deps>>, open' \subseteq open, doc' \subseteq doc, DocFacts
  PROVE  DocFacts'
<1> SUFFICES ASSUME NEW d \in doc'
             PROVE  /\ d = [base |-> d.base, clusters |-> d.clusters, token |-> d.token]
                    /\ GoodPlan(d.token.clusters)'
  BY Zenon DEF DocFacts
<1>1. /\ d = [base |-> d.base, clusters |-> d.clusters, token |-> d.token]
      /\ GoodPlan(d.token.clusters)
  BY Zenon DEF DocFacts
<1>2. QED
  BY <1>1, PlanKeeps, Zenon

(* When pull requests end, or a cluster leaves the execution, what remains *)
(* in work is part of what was. *)
LEMMA WorkShrinks ==
  ASSUME UNCHANGED <<touches, deps>>, open' \subseteq open, run' \subseteq run,
         prs' \subseteq prs, WorkFacts
  PROVE  WorkFacts'
<1>1. B!InWork' \subseteq B!InWork /\ (run \cup Fresh)' \subseteq run \cup Fresh
  BY Zenon DEF B!InWork, Fresh
<1>2. \A c \in B!InWork' : Fit(c)'
  BY <1>1, WorkKeeps DEF WorkFacts
<1>3. Apart(run \cup Fresh)'
  <2>1. PICK work : work = (run \cup Fresh)'
    OBVIOUS
  <2>2. Apart(work)'
    BY <1>1, <2>1, WorkKeeps DEF WorkFacts
  <2>3. QED
    BY <2>1, <2>2 DEF Apart
<1>4. QED
  BY <1>2, <1>3, Zenon DEF WorkFacts

(* At first nothing is planned or in work. *)
LEMMA BatchInit == B!Init => BatchInv
<1> SUFFICES ASSUME B!Init PROVE BatchInv
  OBVIOUS
<1>1. open = Issues /\ prs = {} /\ doc = {} /\ run = {}
  BY DEF B!Init
<1>2. B!InWork = {} /\ run \cup Fresh = {}
  BY <1>1 DEF B!InWork, Fresh
<1>3. QED
  BY <1>1, <1>2 DEF BatchInv, DocFacts, WorkFacts, Apart

(* A document that is written holds the planner's plan, and its token too. *)
LEMMA WriteDocKeeps == ASSUME IssuesAreNumbers, BatchInv, B!WriteDoc PROVE BatchInv'
<1>1. UNCHANGED <<touches, deps, open, prs, run>>
  BY DEF B!WriteDoc
<1>2. WorkFacts' /\ open' \subseteq Issues
  BY <1>1, WorkShrinks DEF BatchInv
<1>3. PICK plan : plan = B!PlanOf
  OBVIOUS
<1>4. DocFacts'
  <2>1. GoodPlan(plan)
    BY <1>3, PlanIsGood DEF BatchInv
  <2>2. GoodPlan(plan)'
    BY <1>1, <2>1, PlanKeeps
  <2> DEFINE token == [base |-> main, clusters |-> plan]
  <2>3. token.clusters = plan
    OBVIOUS
  <2> HIDE DEF token
  <2>4. doc' = {[base |-> main, clusters |-> plan, token |-> token]}
    BY <1>3 DEF B!WriteDoc, token
  <2>5. SUFFICES ASSUME NEW d \in doc'
                 PROVE  /\ d = [base |-> d.base, clusters |-> d.clusters, token |-> d.token]
                        /\ GoodPlan(d.token.clusters)'
    BY Zenon DEF DocFacts
  <2>6. d = [base |-> main, clusters |-> plan, token |-> token]
    BY <2>4
  <2>7. d.base = main /\ d.clusters = plan /\ d.token = token /\ d.token.clusters = plan
    BY <2>3, <2>6
  <2>8. QED
    BY <2>2, <2>6, <2>7, Zenon
<1>5. QED
  BY <1>2, <1>4 DEF BatchInv

(* An edit of the document leaves its token alone. *)
LEMMA HandEditKeeps ==
  ASSUME BatchInv, NEW d \in doc, NEW c, B!HandEdit(d, c) PROVE BatchInv'
<1>1. UNCHANGED <<touches, deps, open, prs, run>>
  BY DEF B!HandEdit
<1>2. WorkFacts' /\ open' \subseteq Issues
  BY <1>1, WorkShrinks DEF BatchInv
<1>3. DocFacts'
  <2> DEFINE more == (d.clusters \ {c}) \cup {[c EXCEPT !.executable = TRUE]}
  <2>1. doc' = {[d EXCEPT !.clusters = more]}
    BY DEF B!HandEdit
  <2> HIDE DEF more
  <2>2. /\ d = [base |-> d.base, clusters |-> d.clusters, token |-> d.token]
        /\ GoodPlan(d.token.clusters)
    BY Zenon DEF BatchInv, DocFacts
  <2>3. GoodPlan(d.token.clusters)'
    BY <1>1, <2>2, PlanKeeps
  <2>4. SUFFICES ASSUME NEW e \in doc'
                 PROVE  /\ e = [base |-> e.base, clusters |-> e.clusters, token |-> e.token]
                        /\ GoodPlan(e.token.clusters)'
    BY Zenon DEF DocFacts
  <2>5. e = [d EXCEPT !.clusters = more]
    BY <2>1, <2>4
  <2>6. e = [base |-> d.base, clusters |-> more, token |-> d.token]
    BY <2>2, <2>5
  <2>7. e.base = d.base /\ e.clusters = more /\ e.token = d.token
    BY <2>6
  <2>8. QED
    BY <2>3, <2>6, <2>7, Zenon
<1>4. QED
  BY <1>2, <1>3 DEF BatchInv

(* A document that is carried out is one whose token still matches: what   *)
(* is dispatched is what the planner sent off.                             *)
LEMMA ExecuteKeeps ==
  ASSUME BatchInv, NEW d \in doc, B!Execute(d) PROVE BatchInv'
<1>1. /\ UNCHANGED <<touches, deps, open, main>>
      /\ run = {} /\ run' = B!Planned(d) /\ doc' = {}
      /\ prs' = {[p EXCEPT !.fresh = FALSE] : p \in prs}
      /\ d.token = [base |-> d.base, clusters |-> d.clusters]
  BY DEF B!Execute, B!Valid, B!TokenMatches
<1>2. GoodPlan(d.clusters)
  <2>1. d.token.clusters = d.clusters
    BY <1>1
  <2>2. GoodPlan(d.token.clusters)
    BY Zenon DEF BatchInv, DocFacts
  <2>3. QED
    BY <2>1, <2>2, Zenon
<1>3. run' = SentOff(d.clusters)
  BY <1>1, Zenon DEF SentOff, B!Planned
<1>4. ASSUME NEW q \in prs'
      PROVE  /\ q = [issues |-> q.issues, fresh |-> q.fresh] /\ q.fresh = FALSE
             /\ q.issues \in B!InWork
  <2>1. PICK p \in prs : q = [p EXCEPT !.fresh = FALSE]
    BY <1>1, <1>4
  <2>2. p = [issues |-> p.issues, fresh |-> p.fresh]
    BY DEF BatchInv, WorkFacts
  <2>3. q = [issues |-> p.issues, fresh |-> FALSE]
    BY <2>1, <2>2, Zenon
  <2>4. q.issues = p.issues /\ q.fresh = FALSE
    BY <2>3, Zenon
  <2>5. p.issues \in B!InWork
    BY DEF B!InWork
  <2>6. QED
    BY <2>3, <2>4, <2>5, Zenon
<1>5. Fresh' = {}
  BY <1>4, Zenon DEF Fresh
<1>6. ASSUME NEW c \in B!InWork' PROVE Fit(c)'
  <2>1. Fit(c)
    <3>1. CASE c \in run'
      BY <1>2, <1>3, <3>1 DEF GoodPlan
    <3>2. CASE c \notin run'
      <4>1. PICK q \in prs' : c = q.issues
        BY <1>6, <3>2, Zenon DEF B!InWork
      <4>2. QED
        BY <1>4, <4>1 DEF BatchInv, WorkFacts
    <3>3. QED
      BY <3>1, <3>2
  <2>2. QED
    BY <1>1, <2>1, WorkKeeps
<1>7. Apart(run \cup Fresh)'
  <2>1. PICK work : work = run'
    OBVIOUS
  <2>2. Apart(work)
    BY <1>2, <1>3, <2>1 DEF GoodPlan
  <2>3. Apart(work)'
    BY <1>1, <2>2, WorkKeeps
  <2>4. (run \cup Fresh)' = work
    BY <1>5, <2>1
  <2>5. QED
    BY <2>3, <2>4, Zenon DEF Apart
<1>8. DocFacts'
  BY <1>1 DEF DocFacts
<1>9. WorkFacts'
  BY <1>4, <1>6, <1>7, Zenon DEF WorkFacts
<1>10. QED
  BY <1>1, <1>8, <1>9 DEF BatchInv

(* A cluster that is dispatched was in work already. *)
LEMMA DispatchKeeps ==
  ASSUME BatchInv, NEW c \in run, B!Dispatch(c) PROVE BatchInv'
<1>1. /\ UNCHANGED <<touches, deps, open, doc>>
      /\ run' = run \ {c} /\ prs' = prs \cup {[issues |-> c, fresh |-> TRUE]}
  BY DEF B!Dispatch
<1>2. DocFacts' /\ open' \subseteq Issues
  BY <1>1, DocsKeep DEF BatchInv
<1>3. ASSUME NEW p \in prs'
      PROVE  /\ p = [issues |-> p.issues, fresh |-> p.fresh] /\ p.issues \in B!InWork
             /\ (p \in prs \/ p.issues = c)
  <2>1. CASE p \in prs
    BY <2>1 DEF BatchInv, WorkFacts, B!InWork
  <2>2. CASE p = [issues |-> c, fresh |-> TRUE]
    <3>1. p.issues = c /\ p.fresh = TRUE
      BY <2>2, Zenon
    <3>2. c \in B!InWork
      BY DEF B!InWork
    <3>3. QED
      BY <2>2, <3>1, <3>2, Zenon
  <2>3. QED
    BY <1>1, <1>3, <2>1, <2>2
<1>4. ASSUME NEW s \in B!InWork' PROVE Fit(s)'
  <2>1. s \in B!InWork
    <3>1. CASE s \in run'
      BY <1>1, <3>1 DEF B!InWork
    <3>2. CASE s \notin run'
      <4>1. PICK p \in prs' : s = p.issues
        BY <1>4, <3>2, Zenon DEF B!InWork
      <4>2. QED
        BY <1>3, <4>1
    <3>3. QED
      BY <3>1, <3>2
  <2>2. QED
    BY <1>1, <2>1, WorkKeeps DEF BatchInv, WorkFacts
<1>5. (run \cup Fresh)' \subseteq run \cup Fresh
  <2>1. SUFFICES ASSUME NEW s \in Fresh' PROVE s \in run \cup Fresh
    BY <1>1
  <2>2. PICK p \in prs' : p.fresh /\ s = p.issues
    BY <2>1, Zenon DEF Fresh
  <2>3. CASE p \in prs
    BY <2>2, <2>3, Zenon DEF Fresh
  <2>4. QED
    BY <1>3, <2>2, <2>3
<1>6. Apart(run \cup Fresh)'
  <2>1. PICK work : work = (run \cup Fresh)'
    OBVIOUS
  <2>2. Apart(work)'
    BY <1>1, <1>5, <2>1, WorkKeeps DEF BatchInv, WorkFacts
  <2>3. QED
    BY <2>1, <2>2 DEF Apart
<1>7. WorkFacts'
  BY <1>3, <1>4, <1>6, Zenon DEF WorkFacts
<1>8. QED
  BY <1>2, <1>7 DEF BatchInv

(* Every step of the maintainer keeps the invariant. *)
LEMMA BatchNext == ASSUME IssuesAreNumbers, BatchInv, [B!Next]_B!vars PROVE BatchInv'
<1>1. ASSUME UNCHANGED <<touches, deps>>, open' \subseteq open, run' \subseteq run,
             prs' \subseteq prs, doc' \subseteq doc
      PROVE  BatchInv'
  BY <1>1, WorkShrinks, DocsKeep DEF BatchInv
<1>2. CASE B!WriteDoc
  BY <1>2, WriteDocKeeps
<1>3. CASE B!Push \/ UNCHANGED B!vars
  BY <1>1, <1>3 DEF B!Push, B!vars
<1>4. ASSUME NEW d \in doc, B!Execute(d) PROVE BatchInv'
  BY <1>4, ExecuteKeeps
<1>5. ASSUME NEW d \in doc, NEW c \in d.clusters, B!HandEdit(d, c) PROVE BatchInv'
  BY <1>5, HandEditKeeps
<1>6. ASSUME NEW c \in run, B!Dispatch(c) PROVE BatchInv'
  BY <1>6, DispatchKeeps
<1>7. ASSUME NEW p \in prs, B!Merge(p) \/ B!GiveUp(p) PROVE BatchInv'
  BY <1>1, <1>7 DEF B!Merge, B!GiveUp
<1>8. ASSUME NEW i \in open, B!CloseIssue(i) PROVE BatchInv'
  BY <1>1, <1>8 DEF B!CloseIssue
<1>9. QED
  BY <1>2, <1>3, <1>4, <1>5, <1>6, <1>7, <1>8 DEF B!Next

(* When nothing is in flight, every component waits for another one, or    *)
(* one of them sends off a cluster: what the planner can always do.        *)
LEMMA PlannerFindsWork == ASSUME IssuesAreNumbers, open \subseteq Issues PROVE B!NoStall
<1> SUFFICES ASSUME prs = {}, open # {}, ~ \E S \in SUBSET B!Components : B!Circle(S)
             PROVE  \E x \in B!PlanOf : x.executable /\ x.issues # {}
  BY Zenon DEF B!NoStall
<1>1. B!Skipped = {} /\ B!Active = open
  BY DEF B!Skipped, B!Active
<1>2. B!Components # {}
  BY <1>1 DEF B!Components
<1>3. PICK c \in B!Components : B!Prereqs(c) = {}
  <2>1. ~B!Circle(B!Components)
    OBVIOUS
  <2>2. PICK c \in B!Components : B!Prereqs(c) \cap B!Components = {}
    BY <1>2, <2>1 DEF B!Circle
  <2>3. B!Prereqs(c) \subseteq B!Components
    BY DEF B!Prereqs
  <2>4. QED
    BY <2>2, <2>3
<1>4. B!Ready(c)
  BY <1>1, <1>3 DEF B!Ready, B!InFlight
<1>5. c # {} /\ c \in SUBSET Issues
  <2>1. PICK k \in B!Active : c = B!Component(k)
    BY DEF B!Components
  <2>2. QED
    BY <2>1, OwnComponent DEF B!Active
<1>6. \E x \in B!Clusters(c) : x.executable /\ x.issues # {}
  <2>1. CASE B!Oversized(c)
    <3> DEFINE x == [issues |-> {B!Min(c)}, executable |-> B!Ready(c)]
    <3>1. x \in B!Clusters(c)
      BY <2>1, Zenon DEF B!Clusters
    <3>2. x.executable = B!Ready(c) /\ x.issues = {B!Min(c)}
      BY Zenon
    <3> HIDE DEF x
    <3>3. QED
      BY <1>4, <3>1, <3>2, Zenon
  <2>2. CASE ~B!Oversized(c)
    <3> DEFINE x == [issues |-> c, executable |-> B!Ready(c)]
    <3>1. x \in B!Clusters(c)
      BY <2>2, Zenon DEF B!Clusters
    <3>2. x.executable = B!Ready(c) /\ x.issues = c
      BY Zenon
    <3> HIDE DEF x
    <3>3. QED
      BY <1>4, <1>5, <3>1, <3>2, Zenon
  <2>3. QED
    BY <2>1, <2>2
<1>7. QED
  BY <1>6 DEF B!PlanOf

(* The invariant is what the maintainer's safety properties need. *)
LEMMA BatchIsSafe ==
  ASSUME IssuesAreNumbers, BatchInv
  PROVE  B!OrderRespected /\ B!FilesDisjoint /\ B!NoStall
<1>1. B!OrderRespected
  BY DEF BatchInv, WorkFacts, Fit, B!OrderRespected
<1>2. B!FilesDisjoint
  BY Zenon DEF BatchInv, WorkFacts, Apart, Fresh, B!FilesDisjoint
<1>3. QED
  BY <1>1, <1>2, PlannerFindsWork DEF BatchInv

(* The machines of MCSchedules take their own steps or none. *)
LEMMA Machines ==
  /\ MCInit => Init /\ W!Init /\ B!Init
  /\ [MCNext]_all => [Next]_vars
  /\ [MCNext]_all => [W!Next]_W!vars
  /\ [MCNext]_all => [B!Next]_B!vars
<1>1. MCInit => Init /\ W!Init /\ B!Init
  BY DEF MCInit
<1>2. [MCNext]_all => [Next]_vars
  BY DEF MCNext, Stepping, all
<1>3. [MCNext]_all => [W!Next]_W!vars
  BY DEF MCNext, Stepping, all, waveVars, W!vars
<1>4. [MCNext]_all => [B!Next]_B!vars
  BY DEF MCNext, Stepping, all, batchVars, B!vars
<1>5. QED
  BY <1>1, <1>2, <1>3, <1>4

(* Nobody works on an issue whose prerequisite is open, not through a stale *)
(* or an edited document either; the pull requests of one plan share no    *)
(* file; and the planner finds work unless what is open waits in a circle. *)
THEOREM BatchSafety ==
  ASSUME IssuesAreNumbers
  PROVE  /\ B!Spec => [](B!OrderRespected /\ B!FilesDisjoint /\ B!NoStall)
         /\ MCSpec => []BatchIsOrderly
  <1>1. BatchInv /\ [B!Next]_B!vars => BatchInv'
    BY BatchNext
  <1>2. BatchInv => B!OrderRespected /\ B!FilesDisjoint /\ B!NoStall
    BY BatchIsSafe
  <1>3. B!OrderRespected /\ B!FilesDisjoint /\ B!NoStall => BatchIsOrderly
    BY DEF BatchIsOrderly
  <1>4. B!Spec => [](B!OrderRespected /\ B!FilesDisjoint /\ B!NoStall)
    BY <1>1, <1>2, BatchInit, PTL DEF B!Spec
  <1>5. MCSpec => []BatchIsOrderly
    BY <1>1, <1>2, <1>3, BatchInit, Machines, PTL DEF MCSpec
  <1>6. QED
    BY <1>4, <1>5

-----------------------------------------------------------------------------
(* The release wave: for every set of connectors, whatever is edited, when *)
(* the tool dies and in which order the jobs of a release succeed.         *)

(* No connector is called like the packages every release has. *)
ConnectorsHaveNames == {"core", "cli", "meta"} \cap (Always \cup Extras) = {}

(* A source tree: its versions are numbers, from one on in a real one. *)
Source(s) == /\ s = [version |-> s.version, pins |-> s.pins, code |-> s.code]
             /\ s.version \in [W!Packages -> Nat]
             /\ \A k \in W!Packages : s.version[k] >= 1

WaveTypes ==
  /\ Source(tree) /\ Source(head) /\ tree.code = head.code
  /\ tag.version \in [W!Packages -> Nat] /\ tags \in Nat
  /\ \A w \in pypi : w.pkg \in W!Packages /\ w.version \in Nat \ {0}

(* As long as nobody is careless, versions go up from the tag to the tree. *)
VersionsRise ==
  orderly => \A k \in W!Packages : /\ tag.version[k] <= head.version[k]
                                   /\ tag.version[k] <= tree.version[k]

(* The index holds of every package what was tagged, or older versions. *)
WheelsAreTagged ==
  orderly => \A w \in pypi :
    /\ w.version <= tag.version[w.pkg]
    /\ w.version = tag.version[w.pkg] =>
         w.code = tag.code[w.pkg] /\ w.pins = tag.pins[w.pkg]

(* Behind the gate, no wheel has other pins than the tag, and the jobs that *)
(* are done have left theirs.                                               *)
ReleaseFacts ==
  /\ ~release.gate => release.pending = W!Packages
  /\ release = [gate |-> release.gate, pending |-> release.pending]
  /\ tags = 0 => release.pending = {}
  /\ tags > 0 => \A k \in W!Packages : tag.version[k] >= 1
  /\ tags > 0 /\ release.gate =>
       \A k \in W!Packages : ~W!Drift(k) /\ (k \notin release.pending => W!Wheel(k) # {})

(* A prepared tag pins what it carries. *)
TagIsPinned ==
  orderly /\ tags > 0 => \A k \in W!Synced : tag.pins[k] = W!RewriteFloors(k, tag.version)

(* Pins are not rewritten without a bump. *)
PinsComeWithBumps ==
  orderly /\ settled # "postponed" =>
    \A k \in W!Packages : tree.pins[k] # head.pins[k] => tree.version[k] > tag.version[k]

(* There is nothing for the tool to do. *)
Quiet ==
  /\ \A k \in W!Packages :
       k \in W!Changed /\ tag.version[k] # 0 => tree.version[k] # tag.version[k]
  /\ \A k \in W!Synced : tree.pins[k] = W!RewriteFloors(k, tree.version)

WaveInv ==
  /\ WaveTypes /\ VersionsRise /\ WheelsAreTagged /\ ReleaseFacts /\ TagIsPinned
  /\ PinsComeWithBumps
  /\ orderly /\ settled = "yes" => Quiet
  /\ W!WheelsInstall

(* The synced files pin packages that are not synced themselves, and their *)
(* jobs wait for those.                                                    *)
LEMMA SyncedDeps ==
  ASSUME ConnectorsHaveNames, NEW k \in W!Synced
  PROVE  /\ k \in W!Packages /\ W!Deps(k) \subseteq W!Packages
         /\ W!Deps(k) \cap W!Synced = {} /\ W!Needs(k) = W!Deps(k)
<1>1. CASE k = "cli"
  BY <1>1 DEF ConnectorsHaveNames, W!Synced, W!Deps, W!BaseDeps, W!Needs, W!Packages, W!Conns
<1>2. CASE k = "meta"
  BY <1>2 DEF ConnectorsHaveNames, W!Synced, W!Deps, W!BaseDeps, W!Needs, W!Packages, W!Conns
<1>3. QED
  BY <1>1, <1>2 DEF W!Synced

(* What the plan decides of a package, override by override. *)
LEMMA FinalOf ==
  ASSUME WaveTypes, NEW set \in W!Overrides, NEW k \in W!Packages
  PROVE  LET v == W!FinalVersions(set)[k] IN
         /\ v \in Nat /\ v >= 1
         /\ k \in DOMAIN set => v = set[k]
         /\ W!NeedsPatch(k, set) => v = tree.version[k] + 1
         /\ W!FloorBump(k, set, W!Decided(set)) => v = tree.version[k] + 1
         /\ \/ k \in DOMAIN set \/ W!NeedsPatch(k, set) \/ W!FloorBump(k, set, W!Decided(set))
            \/ v = tree.version[k]
<1> DEFINE v == W!FinalVersions(set)[k]
           d == W!Decided(set)[k]
           bump == W!FloorBump(k, set, W!Decided(set))
<1>1. v = IF bump THEN tree.version[k] + 1 ELSE d
  BY DEF W!FinalVersions, W!Candidate
<1>2. d = CASE k \in DOMAIN set -> set[k]
            [] W!NeedsPatch(k, set) -> tree.version[k] + 1
            [] OTHER -> tree.version[k]
  BY Zenon DEF W!Decided, W!Candidate
<1>3. /\ k \in DOMAIN set => ~W!NeedsPatch(k, set) /\ ~bump
      /\ W!NeedsPatch(k, set) => ~bump
  BY DEF W!NeedsPatch, W!FloorBump
<1>4. k \in DOMAIN set => set[k] \in Nat /\ set[k] >= 1
  <2>1. CASE set = W!NoSet
    BY <2>1 DEF W!NoSet
  <2>2. CASE \E p \in W!Packages : set \in [{p} -> W!Near(tree.version[p])]
    <3>1. PICK p \in W!Packages : set \in [{p} -> W!Near(tree.version[p])]
      BY <2>2
    <3>2. k \in DOMAIN set => set[k] \in W!Near(tree.version[p])
      BY <3>1
    <3>3. \A x \in W!Near(tree.version[p]) : x \in Nat /\ x >= 1
      BY DEF W!Near
    <3>4. QED
      BY <3>2, <3>3
  <2>3. QED
    BY <2>1, <2>2 DEF W!Overrides
<1>5. tree.version[k] \in Nat /\ tree.version[k] >= 1
  BY DEF WaveTypes, Source
<1> HIDE DEF v, d, bump
<1>6. d = IF k \in DOMAIN set THEN set[k]
          ELSE IF W!NeedsPatch(k, set) THEN tree.version[k] + 1 ELSE tree.version[k]
  BY <1>2, <1>3
<1>7. /\ v \in Nat /\ v >= 1
      /\ k \in DOMAIN set => v = set[k]
      /\ W!NeedsPatch(k, set) => v = tree.version[k] + 1
      /\ bump => v = tree.version[k] + 1
      /\ k \in DOMAIN set \/ W!NeedsPatch(k, set) \/ bump \/ v = tree.version[k]
  BY <1>1, <1>3, <1>4, <1>5, <1>6
<1>8. QED
  BY <1>7, Zenon DEF v, bump

(* The plan is a version for each package, and the floors of a synced file *)
(* do not depend on the bumps the floors themselves force.                 *)
LEMMA FloorsOfFinal ==
  ASSUME ConnectorsHaveNames, WaveTypes, NEW set \in W!Overrides
  PROVE  /\ W!FinalVersions(set) \in [W!Packages -> Nat]
         /\ \A k \in W!Synced : W!RewriteFloors(k, W!FinalVersions(set))
                                  = W!RewriteFloors(k, W!Decided(set))
<1>1. W!FinalVersions(set) = [k \in W!Packages |-> W!FinalVersions(set)[k]]
  BY DEF W!FinalVersions
<1>2. W!FinalVersions(set) \in [W!Packages -> Nat]
  BY <1>1, FinalOf
<1>3. ASSUME NEW k \in W!Synced, NEW d \in W!Deps(k)
      PROVE  W!FinalVersions(set)[d] = W!Decided(set)[d]
  <2>1. d \in W!Packages /\ d \notin W!Synced
    BY <1>3, SyncedDeps
  <2>2. ~W!FloorBump(d, set, W!Decided(set))
    BY <2>1 DEF W!FloorBump
  <2>3. QED
    BY <2>1, <2>2, Zenon DEF W!FinalVersions
<1>4. QED
  BY <1>2, <1>3 DEF W!RewriteFloors

(* A synced file whose pins the plan changes gets a new version: by hand,  *)
(* or one more than it had.                                                *)
LEMMA PinsForceABump ==
  ASSUME ConnectorsHaveNames, WaveTypes, NEW set \in W!Overrides, NEW k \in W!Synced,
         W!StalePins(k, W!FinalVersions(set)), k \notin DOMAIN set
  PROVE  W!FinalVersions(set)[k] = tree.version[k] + 1
<1>1. W!StalePins(k, W!Decided(set))
  BY FloorsOfFinal DEF W!StalePins
<1>2. W!NeedsPatch(k, set) \/ W!FloorBump(k, set, W!Decided(set))
  BY <1>1 DEF W!FloorBump
<1>3. k \in W!Packages
  BY SyncedDeps
<1>4. QED
  BY <1>2, <1>3, FinalOf

(* The tool finds nothing to do exactly when there is nothing. *)
LEMMA NothingIsQuiet ==
  ASSUME ConnectorsHaveNames, WaveTypes
  PROVE  W!Nothing <=> Quiet
<1> DEFINE final == W!FinalVersions(W!NoSet)
<1>1. W!NoSet \in W!Overrides /\ DOMAIN W!NoSet = {}
  BY DEF W!Overrides, W!NoSet
<1>2. W!Nothing <=> final = tree.version /\ \A k \in W!Synced : ~W!StalePins(k, final)
  BY Zenon DEF W!Nothing, W!PrepNeeded
<1>3. final \in [W!Packages -> Nat] /\ tree.version \in [W!Packages -> Nat]
  BY <1>1, FloorsOfFinal DEF WaveTypes, Source
<1>4. \A k \in W!Packages :
        W!NeedsPatch(k, W!NoSet) <=> /\ k \in W!Changed /\ tag.version[k] # 0
                                     /\ tree.version[k] = tag.version[k]
  BY <1>1 DEF W!NeedsPatch
<1>5. \A k \in W!Synced : W!StalePins(k, tree.version) <=>
                            tree.pins[k] # W!RewriteFloors(k, tree.version)
  BY DEF W!StalePins
<1>6. ASSUME W!Nothing PROVE Quiet
  <2>1. ASSUME NEW k \in W!Packages PROVE ~W!NeedsPatch(k, W!NoSet)
    <3>1. final[k] = tree.version[k] /\ tree.version[k] \in Nat
      BY <1>2, <1>3, <1>6
    <3>2. W!NeedsPatch(k, W!NoSet) => final[k] = tree.version[k] + 1
      BY <1>1, FinalOf
    <3>3. QED
      BY <3>1, <3>2
  <2>2. QED
    BY <1>2, <1>4, <1>5, <1>6, <2>1 DEF Quiet
<1>7. ASSUME Quiet PROVE W!Nothing
  <2>1. ASSUME NEW k \in W!Packages PROVE ~W!NeedsPatch(k, W!NoSet)
    BY <1>4, <1>7 DEF Quiet
  <2>2. W!Decided(W!NoSet) = tree.version
    <3>1. \A k \in W!Packages : W!Decided(W!NoSet)[k] = tree.version[k]
      BY <1>1, <2>1 DEF W!Decided
    <3>2. W!Decided(W!NoSet) = [k \in W!Packages |-> W!Decided(W!NoSet)[k]]
      BY DEF W!Decided
    <3>3. QED
      BY <1>3, <3>1, <3>2
  <2>3. ASSUME NEW k \in W!Packages PROVE ~W!FloorBump(k, W!NoSet, W!Decided(W!NoSet))
    BY <1>5, <1>7, <2>2 DEF Quiet, W!FloorBump
  <2>4. \A k \in W!Packages : final[k] = tree.version[k]
    BY <1>1, <2>1, <2>3, FinalOf
  <2>5. final = tree.version
    BY <1>3, <2>4
  <2>6. QED
    BY <1>2, <1>5, <1>7, <2>5 DEF Quiet
<1>8. QED
  BY <1>6, <1>7

-----------------------------------------------------------------------------
(* At first some connectors are new since the tag. *)
LEMMA WaveInit == ASSUME ConnectorsHaveNames, W!Init PROVE WaveInv
<1> DEFINE at(v) == [version |-> [k \in W!Packages |-> v[k]],
                     pins |-> [k \in W!Packages |-> [d \in W!Deps(k) |-> v[d]]],
                     code |-> [k \in W!Packages |-> 0]]
<1>1. PICK new \in SUBSET Extras :
        LET since(k) == IF k \in new THEN 0 ELSE 1
        IN /\ tree = at([k \in W!Packages |-> 1]) /\ head = tree
           /\ tag = at([k \in W!Packages |-> since(k)])
           /\ pypi = {[pkg |-> k, version |-> 1, code |-> 0, pins |-> tag.pins[k]] :
                         k \in W!Packages \ new}
           /\ release = [gate |-> TRUE, pending |-> {}]
           /\ tags = 0 /\ settled = "no"
  BY DEF W!Init
<1> DEFINE since == [k \in W!Packages |-> IF k \in new THEN 0 ELSE 1]
<1>2. /\ tree.version = [k \in W!Packages |-> 1]
      /\ tree = [version |-> tree.version, pins |-> tree.pins, code |-> tree.code]
      /\ head = tree
  BY <1>1
<1>3. /\ tag.version = since
      /\ tag.pins = [k \in W!Packages |-> [d \in W!Deps(k) |-> since[d]]]
      /\ tag.code = [k \in W!Packages |-> 0]
  BY <1>1
<1>4. /\ pypi = {[pkg |-> k, version |-> 1, code |-> 0, pins |-> tag.pins[k]] :
                    k \in W!Packages \ new}
      /\ release.gate = TRUE /\ release.pending = {}
      /\ release = [gate |-> TRUE, pending |-> {}] /\ tags = 0 /\ settled = "no"
  BY <1>1
<1>5. ASSUME NEW w \in pypi
      PROVE  /\ w.pkg \in W!Packages /\ w.pkg \notin new /\ w.version = 1 /\ w.code = 0
             /\ w.pins = tag.pins[w.pkg]
  BY <1>4
<1>14. since \in [W!Packages -> {0, 1}] /\ \A k \in W!Packages : since[k] = IF k \in new THEN 0 ELSE 1
  OBVIOUS
<1> HIDE DEF since
<1>15. ASSUME NEW w \in pypi
       PROVE  tag.version[w.pkg] = 1 /\ tag.code[w.pkg] = 0
  <2>1. w.pkg \in W!Packages /\ w.pkg \notin new
    BY <1>5
  <2>2. QED
    BY <1>3, <1>14, <2>1
<1>6. WaveTypes
  <2>1. Source(tree) /\ Source(head) /\ tree.code = head.code
    BY <1>2 DEF Source
  <2>2. tag.version \in [W!Packages -> Nat]
    BY <1>3, <1>14
  <2>3. QED
    BY <1>4, <1>5, <2>1, <2>2 DEF WaveTypes
<1>7. VersionsRise
  BY <1>2, <1>3, <1>14 DEF VersionsRise
<1>8. WheelsAreTagged
  BY <1>5, <1>15 DEF WheelsAreTagged
<1>9. ReleaseFacts
  <2>1. release = [gate |-> release.gate, pending |-> release.pending]
    BY <1>4, Zenon
  <2>2. QED
    BY <1>4, <2>1 DEF ReleaseFacts
<1>10. TagIsPinned
  BY <1>4 DEF TagIsPinned
<1>11. PinsComeWithBumps
  BY <1>2 DEF PinsComeWithBumps
<1>12. W!WheelsInstall
  <2>1. SUFFICES ASSUME NEW w \in pypi, w.pkg \in W!Synced, NEW d \in W!Deps(w.pkg)
                 PROVE  w.pins[d] = 0 \/ \E x \in pypi : x.pkg = d /\ x.version >= w.pins[d]
    BY DEF W!WheelsInstall
  <2>2. d \in W!Packages /\ w.pins[d] = since[d]
    <3>1. d \in W!Packages /\ w.pkg \in W!Packages /\ w.pins = tag.pins[w.pkg]
      BY <1>5, <2>1, SyncedDeps
    <3>2. tag.pins[w.pkg] = [e \in W!Deps(w.pkg) |-> since[e]]
      BY <1>3, <3>1
    <3>3. QED
      BY <2>1, <3>1, <3>2
  <2>3. CASE d \in new
    BY <1>14, <2>2, <2>3
  <2>4. CASE d \notin new
    <3> DEFINE x == [pkg |-> d, version |-> 1, code |-> 0, pins |-> tag.pins[d]]
    <3>1. x \in pypi
      BY <1>4, <2>2, <2>4
    <3>2. x.pkg = d /\ x.version = 1 /\ w.pins[d] = 1
      BY <1>14, <2>2, <2>4
    <3> HIDE DEF x
    <3>3. QED
      BY <3>1, <3>2
  <2>5. QED
    BY <2>3, <2>4
<1>13. QED
  BY <1>4, <1>6, <1>7, <1>8, <1>9, <1>10, <1>11, <1>12 DEF WaveInv

(* What only depends on the tag, the index and the release, as long as    *)
(* those do not change. *)
LEMMA TaggedKeeps ==
  ASSUME WaveInv, UNCHANGED <<tag, pypi, release, tags>>, orderly' => orderly
  PROVE  /\ WheelsAreTagged' /\ ReleaseFacts' /\ TagIsPinned' /\ W!WheelsInstall'
         /\ tag'.version \in [W!Packages -> Nat] /\ tags' \in Nat
         /\ \A w \in pypi' : w.pkg \in W!Packages /\ w.version \in Nat \ {0}
<1>1. WheelsAreTagged'
  BY DEF WaveInv, WheelsAreTagged
<1>2. ReleaseFacts'
  <2>1. \A k : W!Drift(k)' = W!Drift(k) /\ W!Wheel(k)' = W!Wheel(k)
    BY DEF W!Drift, W!Wheel
  <2>2. QED
    BY <2>1 DEF WaveInv, ReleaseFacts
<1>3. TagIsPinned'
  BY DEF WaveInv, TagIsPinned, W!RewriteFloors
<1>4. W!WheelsInstall'
  BY DEF WaveInv, W!WheelsInstall
<1>5. QED
  BY <1>1, <1>2, <1>3, <1>4 DEF WaveInv, WaveTypes

(* A step that only commits a raised version, or other content. *)
LEMMA EditKeeps ==
  ASSUME WaveInv, W!Edited, orderly' => orderly, Source(tree'),
         orderly' => \A k \in W!Packages : tree'.version[k] >= tree.version[k]
  PROVE  WaveInv'
<1>1. head' = tree' /\ settled' = "no" /\ UNCHANGED <<tag, pypi, release, tags>>
  BY DEF W!Edited
<1>2. /\ WheelsAreTagged' /\ ReleaseFacts' /\ TagIsPinned' /\ W!WheelsInstall'
      /\ tag'.version \in [W!Packages -> Nat] /\ tags' \in Nat
      /\ \A w \in pypi' : w.pkg \in W!Packages /\ w.version \in Nat \ {0}
  BY <1>1, TaggedKeeps
<1>3. WaveTypes'
  BY <1>1, <1>2 DEF WaveTypes, Source
<1>4. VersionsRise'
  <2>1. SUFFICES ASSUME orderly', NEW k \in W!Packages PROVE tag.version[k] <= tree'.version[k]
    BY <1>1 DEF VersionsRise
  <2>2. tag.version[k] <= tree.version[k] /\ tree'.version[k] >= tree.version[k]
    BY <2>1 DEF WaveInv, VersionsRise
  <2>3. tag.version[k] \in Nat /\ tree.version[k] \in Nat /\ tree'.version[k] \in Nat
    BY DEF WaveInv, WaveTypes, Source
  <2>4. QED
    BY <2>2, <2>3
<1>5. PinsComeWithBumps'
  BY <1>1 DEF PinsComeWithBumps
<1>6. QED
  BY <1>1, <1>2, <1>3, <1>4, <1>5 DEF WaveInv

(* Code, versions and pins that are edited by hand. *)
LEMMA EditsKeep ==
  ASSUME WaveInv, NEW k \in W!Packages,
         \/ W!EditCode(k)
         \/ \E v \in W!Near(tree.version[k]) : W!EditVersion(k, v)
         \/ \E d \in W!Deps(k) : W!EditPin(k, d)
  PROVE  WaveInv'
<1>1. /\ tree = [version |-> tree.version, pins |-> tree.pins, code |-> tree.code]
      /\ tree.version \in [W!Packages -> Nat] /\ \A p \in W!Packages : tree.version[p] >= 1
  BY DEF WaveInv, WaveTypes, Source
<1>2. CASE W!EditCode(k)
  <2>1. W!Edited /\ orderly' = orderly
    BY <1>2 DEF W!EditCode
  <2>2. PICK c : tree' = [tree EXCEPT !.code = c]
    BY <1>2 DEF W!EditCode
  <2>3. tree' = [version |-> tree.version, pins |-> tree.pins, code |-> c]
    BY <1>1, <2>2
  <2>4. Source(tree') /\ tree'.version = tree.version
    BY <1>1, <2>3 DEF Source
  <2>5. QED
    BY <1>1, <2>1, <2>4, EditKeeps
<1>3. ASSUME NEW v \in W!Near(tree.version[k]), W!EditVersion(k, v) PROVE WaveInv'
  <2>1. W!Edited /\ (orderly' => orderly /\ v > tree.version[k])
    BY <1>3, Zenon DEF W!EditVersion
  <2>2. tree' = [tree EXCEPT !.version = [tree.version EXCEPT ![k] = v]]
    BY <1>3 DEF W!EditVersion
  <2>3. tree' = [version |-> [tree.version EXCEPT ![k] = v], pins |-> tree.pins,
                 code |-> tree.code]
    BY <1>1, <2>2
  <2>4. v \in Nat /\ v >= 1
    BY DEF W!Near
  <2>5. Source(tree') /\ tree'.version = [tree.version EXCEPT ![k] = v]
    BY <1>1, <2>3, <2>4 DEF Source
  <2>6. orderly' => \A p \in W!Packages : tree'.version[p] >= tree.version[p]
    BY <1>1, <2>1, <2>4, <2>5
  <2>7. QED
    BY <2>1, <2>5, <2>6, EditKeeps
<1>4. ASSUME NEW d \in W!Deps(k), W!EditPin(k, d) PROVE WaveInv'
  <2>1. W!Edited /\ orderly' = orderly
    BY <1>4 DEF W!EditPin
  <2>2. PICK p : tree' = [tree EXCEPT !.pins = p]
    BY <1>4 DEF W!EditPin
  <2>3. tree' = [version |-> tree.version, pins |-> p, code |-> tree.code]
    BY <1>1, <2>2
  <2>4. Source(tree') /\ tree'.version = tree.version
    BY <1>1, <2>3 DEF Source
  <2>5. QED
    BY <1>1, <2>1, <2>4, EditKeeps
<1>5. QED
  BY <1>2, <1>3, <1>4

(* The tool applies a plan, to the end or until it dies. *)
LEMMA ApplyKeeps ==
  ASSUME ConnectorsHaveNames, WaveInv, NEW set \in W!Overrides, W!Apply(set)
  PROVE  WaveInv'
<1> DEFINE final == W!FinalVersions(set)
           new == {k \in W!Packages : final[k] # tree.version[k]}
<1>1. PICK done \in SUBSET new, synced \in SUBSET W!Synced :
        /\ synced # {} => done = new
        /\ tree' = W!Written(final, done, synced)
        /\ settled' = IF \/ settled = "postponed"
                         \/ \E k \in DOMAIN set : set[k] <= tree.version[k]
                      THEN "postponed"
                      ELSE IF done = new /\ synced = W!Synced THEN "yes" ELSE "no"
  BY Zenon DEF W!Apply
<1>2. /\ UNCHANGED <<head, tag, pypi, release, tags>>
      /\ orderly' => orderly /\ \A k \in new : final[k] > tree.version[k]
  BY Zenon DEF W!Apply
<1>3. /\ settled' # "postponed" => /\ settled # "postponed"
                                 /\ \A k \in DOMAIN set : ~(set[k] <= tree.version[k])
      /\ settled' = "yes" => done = new /\ synced = W!Synced /\ settled' # "postponed"
  <2> DEFINE low == settled = "postponed" \/ \E k \in DOMAIN set : set[k] <= tree.version[k]
             whole == done = new /\ synced = W!Synced
  <2>1. settled' = IF low THEN "postponed" ELSE IF whole THEN "yes" ELSE "no"
    BY <1>1, Zenon
  <2> HIDE DEF low, whole
  <2>2. (settled' # "postponed" => ~low) /\ (settled' = "yes" => whole)
    BY <2>1
  <2>3. QED
    BY <2>2, Zenon DEF low, whole
<1> DEFINE vv == [k \in W!Packages |-> IF k \in done THEN final[k] ELSE tree.version[k]]
           pp == [k \in W!Packages |-> IF k \in synced THEN W!RewriteFloors(k, final)
                                                       ELSE tree.pins[k]]
<1>4. /\ WaveTypes /\ Source(tree) /\ tree.version \in [W!Packages -> Nat]
      /\ tag.version \in [W!Packages -> Nat]
  BY DEF WaveInv, WaveTypes, Source
<1>5. final \in [W!Packages -> Nat] /\ \A k \in W!Packages : final[k] >= 1
  BY <1>4, FloorsOfFinal, FinalOf
<1>6. tree' = [version |-> vv, pins |-> pp, code |-> tree.code]
  <2>1. tree = [version |-> tree.version, pins |-> tree.pins, code |-> tree.code]
    BY <1>4 DEF Source
  <2>2. tree' = [tree EXCEPT !.version = vv, !.pins = pp]
    BY <1>1 DEF W!Written
  <2> HIDE DEF vv, pp
  <2>3. QED
    BY <2>1, <2>2
<1>7. \A k \in W!Packages : vv[k] = IF k \in done THEN final[k] ELSE tree.version[k]
  BY Zenon
<1>8. \A k \in W!Packages : pp[k] = IF k \in synced THEN W!RewriteFloors(k, final)
                                                    ELSE tree.pins[k]
  BY Zenon
<1>9. vv \in [W!Packages -> Nat] /\ \A k \in W!Packages : vv[k] >= 1
  BY <1>4, <1>5 DEF Source
<1>10. done = new => vv = final
  <2>1. ASSUME done = new PROVE \A k \in W!Packages : vv[k] = final[k]
    BY <1>7, <2>1
  <2> HIDE DEF vv
  <2>2. QED
    BY <1>5, <1>9, <2>1
<1>11. new = {k \in W!Packages : final[k] # tree.version[k]}
  OBVIOUS
<1> HIDE DEF vv, pp, new
<1>12. tree'.version = vv /\ tree'.pins = pp /\ tree'.code = tree.code
  BY <1>6
<1>13. Source(tree')
  BY <1>6, <1>9, <1>12 DEF Source
<1>14. ASSUME orderly', NEW k \in W!Packages
       PROVE  /\ vv[k] >= tree.version[k] /\ tree.version[k] >= tag.version[k]
              /\ vv[k] \in Nat /\ tree.version[k] \in Nat /\ tag.version[k] \in Nat
  <2>1. k \in done => final[k] > tree.version[k]
    BY <1>2, <1>14
  <2>2. tree.version[k] >= tag.version[k]
    BY <1>2, <1>4, <1>14 DEF WaveInv, VersionsRise
  <2>3. QED
    BY <1>4, <1>5, <1>7, <1>9, <2>1, <2>2
<1>15. /\ WheelsAreTagged' /\ ReleaseFacts' /\ TagIsPinned' /\ W!WheelsInstall'
       /\ tag'.version \in [W!Packages -> Nat] /\ tags' \in Nat
       /\ \A w \in pypi' : w.pkg \in W!Packages /\ w.version \in Nat \ {0}
  BY <1>2, TaggedKeeps
<1>16. WaveTypes'
  <2>1. Source(head) /\ tree.code = head.code
    BY DEF WaveInv, WaveTypes
  <2>2. Source(tree)' /\ Source(head)' /\ tree'.code = head'.code
    BY <1>2, <1>12, <1>13, <2>1 DEF Source
  <2>3. QED
    BY <1>15, <2>2 DEF WaveTypes
<1>17. VersionsRise'
  <2>1. SUFFICES ASSUME orderly', NEW k \in W!Packages
                 PROVE  tag.version[k] <= head.version[k] /\ tag.version[k] <= vv[k]
    BY <1>2, <1>12 DEF VersionsRise
  <2>2. tag.version[k] <= head.version[k]
    BY <1>2, <2>1 DEF WaveInv, VersionsRise
  <2>3. QED
    BY <1>14, <2>1, <2>2
<1>18. ASSUME orderly', settled' # "postponed", NEW k \in W!Synced, W!StalePins(k, final)
       PROVE  final[k] > tree.version[k]
  <2>1. k \in W!Packages
    BY SyncedDeps
  <2>2. CASE k \in DOMAIN set
    <3>1. final[k] = set[k]
      BY <1>4, <2>1, <2>2, FinalOf
    <3>2. ~(final[k] <= tree.version[k])
      BY <1>3, <1>18, <2>2, <3>1
    <3>3. QED
      BY <1>4, <1>5, <2>1, <3>2
  <2>3. CASE k \notin DOMAIN set
    <3>1. final[k] = tree.version[k] + 1
      BY <1>4, <1>18, <2>3, PinsForceABump
    <3>2. QED
      BY <1>4, <2>1, <3>1
  <2>4. QED
    BY <2>2, <2>3
<1>19. PinsComeWithBumps'
  <2>1. SUFFICES ASSUME orderly', settled' # "postponed", NEW k \in W!Packages,
                        pp[k] # head.pins[k]
                 PROVE  vv[k] > tag.version[k]
    BY <1>2, <1>12 DEF PinsComeWithBumps
  <2>2. CASE k \in synced /\ W!StalePins(k, final)
    <3>1. final[k] > tree.version[k] /\ vv[k] = final[k]
      BY <1>1, <1>10, <1>18, <2>1, <2>2
    <3>2. QED
      BY <1>14, <2>1, <3>1
  <2>3. CASE ~(k \in synced /\ W!StalePins(k, final))
    <3>1. pp[k] = tree.pins[k]
      BY <1>8, <2>3 DEF W!StalePins
    <3>2. tree.version[k] > tag.version[k]
      BY <1>2, <1>3, <2>1, <3>1 DEF WaveInv, PinsComeWithBumps
    <3>3. QED
      BY <1>14, <2>1, <3>2
  <2>4. QED
    BY <2>2, <2>3
<1>20. orderly' /\ settled' = "yes" => Quiet'
  <2>1. SUFFICES ASSUME orderly', settled' = "yes" PROVE Quiet'
    OBVIOUS
  <2>2. vv = final /\ synced = W!Synced /\ settled' # "postponed"
    BY <1>3, <1>10, <2>1
  <2>3. W!Changed' = W!Changed
    BY <1>2 DEF W!Changed
  <2>4. ASSUME NEW k \in W!Packages, k \in W!Changed, tag.version[k] # 0,
               final[k] = tag.version[k]
        PROVE  FALSE
    <3>1. tree.version[k] = tag.version[k] /\ final[k] = tree.version[k]
      BY <1>14, <2>1, <2>2, <2>4
    <3>2. CASE k \in DOMAIN set
      <4>1. final[k] = set[k]
        BY <1>4, <3>2, FinalOf
      <4>2. ~(final[k] <= tree.version[k])
        BY <1>3, <2>2, <3>2, <4>1
      <4>3. QED
        BY <1>4, <3>1, <4>2
    <3>3. CASE k \notin DOMAIN set
      <4>1. W!NeedsPatch(k, set)
        BY <2>4, <3>1, <3>3 DEF W!NeedsPatch
      <4>2. final[k] = tree.version[k] + 1
        BY <1>4, <4>1, FinalOf
      <4>3. QED
        BY <1>4, <3>1, <4>2
    <3>4. QED
      BY <3>2, <3>3
  <2>5. \A k \in W!Synced : pp[k] = W!RewriteFloors(k, final)
    BY <1>8, <2>2, SyncedDeps
  <2> HIDE DEF final
  <2>6. \A k \in W!Synced : tree'.pins[k] = W!RewriteFloors(k, tree.version)'
    BY <1>12, <2>2, <2>5 DEF W!RewriteFloors
  <2>7. \A k \in W!Packages : k \in W!Changed' /\ tag'.version[k] # 0 =>
                                tree'.version[k] # tag'.version[k]
    BY <1>2, <1>12, <2>2, <2>3, <2>4
  <2>8. QED
    BY <2>6, <2>7, Zenon DEF Quiet
<1>21. QED
  BY <1>15, <1>16, <1>17, <1>19, <1>20, Zenon DEF WaveInv

(* What the tool has written is committed. *)
LEMMA GitCommitKeeps == ASSUME WaveInv, W!GitCommit PROVE WaveInv'
<1>1. /\ head' = tree /\ UNCHANGED <<tree, tag, pypi, release, edits, tags, orderly>>
      /\ settled' = "yes" => settled = "yes"
  BY DEF W!GitCommit
<1>2. /\ WheelsAreTagged' /\ ReleaseFacts' /\ TagIsPinned' /\ W!WheelsInstall'
      /\ tag'.version \in [W!Packages -> Nat] /\ tags' \in Nat
      /\ \A w \in pypi' : w.pkg \in W!Packages /\ w.version \in Nat \ {0}
  BY <1>1, TaggedKeeps
<1>3. WaveTypes'
  BY <1>1, <1>2 DEF WaveInv, WaveTypes, Source
<1>4. VersionsRise'
  BY <1>1 DEF WaveInv, VersionsRise
<1>5. PinsComeWithBumps'
  BY <1>1 DEF PinsComeWithBumps
<1>6. orderly' /\ settled' = "yes" => Quiet'
  <2>1. SUFFICES ASSUME orderly', settled' = "yes" PROVE Quiet'
    OBVIOUS
  <2>2. orderly /\ settled = "yes" /\ Quiet
    BY <1>1, <2>1 DEF WaveInv
  <2>3. ASSUME NEW k \in W!Packages, k \in W!Changed', tag.version[k] # 0,
               tree.version[k] = tag.version[k]
        PROVE  FALSE
    <3>1. tree.code[k] # tag.code[k] \/ tree.pins[k] # tag.pins[k]
      BY <1>1, <2>3 DEF W!Changed
    <3>2. tree.pins[k] = head.pins[k]
      <4>1. tree.pins[k] # head.pins[k] => tree.version[k] > tag.version[k]
        BY <2>2 DEF WaveInv, PinsComeWithBumps
      <4>2. tag.version[k] \in Nat
        BY DEF WaveInv, WaveTypes
      <4>3. QED
        BY <2>3, <4>1, <4>2
    <3>3. k \in W!Changed
      BY <3>1, <3>2 DEF WaveInv, WaveTypes, W!Changed
    <3>4. QED
      BY <2>2, <2>3, <3>3 DEF Quiet
  <2>4. \A k \in W!Synced : tree'.pins[k] = W!RewriteFloors(k, tree.version)'
    BY <1>1, <2>2 DEF Quiet, W!RewriteFloors
  <2>5. QED
    BY <1>1, <2>3, <2>4 DEF Quiet
<1>7. QED
  BY <1>2, <1>3, <1>4, <1>5, <1>6, Zenon DEF WaveInv

(* When there is nothing to prepare, a wheel of the version that a package *)
(* carries is the one its source builds. *)
LEMMA PreparedWheels ==
  ASSUME ConnectorsHaveNames, WaveInv, orderly, tree = head, W!CheckPasses, NEW w \in pypi
  PROVE  /\ w.version <= head.version[w.pkg]
         /\ w.version = head.version[w.pkg] =>
              w.code = head.code[w.pkg] /\ w.pins = head.pins[w.pkg]
<1> DEFINE k == w.pkg
<1>1. Quiet
  BY NothingIsQuiet DEF WaveInv, W!CheckPasses
<1>2. /\ k \in W!Packages /\ w.version \in Nat /\ w.version # 0
      /\ tag.version[k] \in Nat /\ head.version[k] \in Nat
  BY DEF WaveInv, WaveTypes, Source
<1>3. /\ w.version <= tag.version[k] /\ tag.version[k] <= head.version[k]
      /\ w.version = tag.version[k] => w.code = tag.code[k] /\ w.pins = tag.pins[k]
  BY <1>2 DEF WaveInv, VersionsRise, WheelsAreTagged
<1>4. ASSUME w.version = head.version[k] PROVE w.code = head.code[k] /\ w.pins = head.pins[k]
  <2>1. tag.version[k] = w.version /\ tree.version[k] = tag.version[k] /\ tag.version[k] # 0
    BY <1>2, <1>3, <1>4
  <2>2. k \notin W!Changed
    BY <1>1, <1>2, <2>1 DEF Quiet
  <2>3. head.code[k] = tag.code[k] /\ head.pins[k] = tag.pins[k]
    BY <1>2, <2>2 DEF W!Changed
  <2>4. QED
    BY <1>3, <2>1, <2>3
<1>5. QED
  BY <1>2, <1>3, <1>4

(* The head is tagged, prepared or not. *)
LEMMA TagKeeps == ASSUME ConnectorsHaveNames, WaveInv, W!Tag PROVE WaveInv'
<1>1. /\ tag' = head /\ release' = [gate |-> FALSE, pending |-> W!Packages]
      /\ tags' = tags + 1 /\ settled' = "no" /\ UNCHANGED <<tree, head, pypi>>
  BY DEF W!Tag
<1>2. orderly' => orderly /\ head = tree /\ W!CheckPasses
  BY Zenon DEF W!Tag
<1>3. tags \in Nat /\ tags' \in Nat /\ tags' > 0 /\ tags' # 0
  BY <1>1 DEF WaveInv, WaveTypes
<1>4. WaveTypes'
  BY <1>1, <1>3 DEF WaveInv, WaveTypes, Source
<1>5. VersionsRise'
  BY <1>1, <1>2 DEF WaveInv, WaveTypes, Source, VersionsRise
<1>6. WheelsAreTagged'
  BY <1>1, <1>2, PreparedWheels DEF WheelsAreTagged
<1>7. ReleaseFacts'
  <2>1. release'.gate = FALSE /\ release'.pending = W!Packages
    BY <1>1, Zenon
  <2>2. release' = [gate |-> release'.gate, pending |-> release'.pending]
    BY <1>1, <2>1, Zenon
  <2>3. \A k \in W!Packages : tag'.version[k] >= 1
    BY <1>1 DEF WaveInv, WaveTypes, Source
  <2>4. QED
    BY <1>3, <2>1, <2>2, <2>3 DEF ReleaseFacts
<1>8. TagIsPinned'
  <2>1. SUFFICES ASSUME orderly', NEW k \in W!Synced
                 PROVE  head.pins[k] = [d \in W!Deps(k) |-> head.version[d]]
    BY <1>1 DEF TagIsPinned, W!RewriteFloors
  <2>2. Quiet /\ head = tree
    BY <1>2, <2>1, NothingIsQuiet DEF WaveInv, W!CheckPasses
  <2>3. QED
    BY <2>2 DEF Quiet, W!RewriteFloors
<1>9. PinsComeWithBumps'
  BY <1>1, <1>2 DEF PinsComeWithBumps
<1>10. W!WheelsInstall'
  BY <1>1, <1>2 DEF WaveInv, W!WheelsInstall
<1>11. QED
  BY <1>1, <1>4, <1>5, <1>6, <1>7, <1>8, <1>9, <1>10 DEF WaveInv

(* What only depends on the sources, when those do not change. *)
LEMMA SourcesKeep ==
  ASSUME WaveInv, UNCHANGED <<tree, head, tag, tags, settled, orderly>>
  PROVE  /\ VersionsRise' /\ TagIsPinned' /\ PinsComeWithBumps'
         /\ orderly' /\ settled' = "yes" => Quiet'
         /\ Source(tree)' /\ Source(head)' /\ tree'.code = head'.code
         /\ tag'.version \in [W!Packages -> Nat] /\ tags' \in Nat
<1>1. VersionsRise' /\ TagIsPinned' /\ PinsComeWithBumps'
  BY DEF WaveInv, VersionsRise, TagIsPinned, PinsComeWithBumps, W!RewriteFloors
<1>2. orderly' /\ settled' = "yes" => Quiet'
  BY DEF WaveInv, Quiet, W!Changed, W!RewriteFloors
<1>3. Source(tree)' /\ Source(head)' /\ tree'.code = head'.code
  BY DEF WaveInv, WaveTypes, Source
<1>4. QED
  BY <1>1, <1>2, <1>3 DEF WaveInv, WaveTypes

(* The gate opens. *)
LEMMA PinParityKeeps == ASSUME WaveInv, W!PinParity PROVE WaveInv'
<1>1. /\ ~release.gate /\ \A k \in W!Packages : ~W!Drift(k)
      /\ release' = [release EXCEPT !.gate = TRUE]
      /\ UNCHANGED <<tree, head, tag, pypi, edits, tags, settled, orderly>>
  BY DEF W!PinParity
<1>2. release = [gate |-> release.gate, pending |-> release.pending]
      /\ release.pending = W!Packages
  BY <1>1 DEF WaveInv, ReleaseFacts
<1>3. release'.gate = TRUE /\ release'.pending = W!Packages
      /\ release' = [gate |-> release'.gate, pending |-> release'.pending]
  <2>1. release' = [gate |-> TRUE, pending |-> W!Packages]
    BY <1>1, <1>2, Zenon
  <2>2. release'.gate = TRUE /\ release'.pending = W!Packages
    BY <2>1, Zenon
  <2>3. QED
    BY <2>1, <2>2, Zenon
<1>4. ReleaseFacts'
  <2>1. \A k : W!Drift(k)' = W!Drift(k)
    BY <1>1 DEF W!Drift, W!Wheel
  <2>2. tags' = 0 => W!Packages = {}
    <3>1. tags = 0 => release.pending = {}
      BY Zenon DEF WaveInv, ReleaseFacts
    <3>2. QED
      BY <1>1, <1>2, <3>1
  <2>3. tags' > 0 => \A k \in W!Packages : tag'.version[k] >= 1
    BY <1>1 DEF WaveInv, ReleaseFacts
  <2>4. QED
    BY <1>1, <1>3, <2>1, <2>2, <2>3 DEF ReleaseFacts
<1>5. WaveTypes'
  BY <1>1, SourcesKeep DEF WaveInv, WaveTypes
<1>6. WheelsAreTagged'
  BY <1>1 DEF WaveInv, WheelsAreTagged
<1>7. W!WheelsInstall'
  BY <1>1 DEF WaveInv, W!WheelsInstall
<1>8. QED
  BY <1>1, <1>4, <1>5, <1>6, <1>7, SourcesKeep DEF WaveInv

(* A package is published after what it needs. *)
LEMMA PublishKeeps ==
  ASSUME ConnectorsHaveNames, WaveInv, NEW k \in W!Packages, W!Publish(k)
  PROVE  WaveInv'
<1> DEFINE wheel == [pkg |-> k, version |-> tag.version[k],
                     code |-> tag.code[k], pins |-> tag.pins[k]]
<1>1. /\ release.gate /\ k \in release.pending /\ W!Needs(k) \cap release.pending = {}
      /\ release' = [release EXCEPT !.pending = @ \ {k}]
      /\ pypi' = IF W!Wheel(k) # {} THEN pypi ELSE pypi \cup {wheel}
      /\ UNCHANGED <<tree, head, tag, edits, tags, settled, orderly>>
  BY DEF W!Publish
<1>2. /\ wheel.pkg = k /\ wheel.version = tag.version[k]
      /\ wheel.code = tag.code[k] /\ wheel.pins = tag.pins[k]
  OBVIOUS
<1> HIDE DEF wheel
<1>3. release'.gate = release.gate /\ release'.pending = release.pending \ {k}
      /\ release' = [gate |-> release'.gate, pending |-> release'.pending]
  <2>1. release = [gate |-> release.gate, pending |-> release.pending]
    BY DEF WaveInv, ReleaseFacts
  <2> DEFINE more == release.pending \ {k}
             gate == release.gate
  <2>2. release' = [release EXCEPT !.pending = more]
    BY <1>1
  <2>3. release = [gate |-> gate, pending |-> release.pending]
    BY <2>1, Zenon
  <2> HIDE DEF more, gate
  <2>4. release' = [gate |-> gate, pending |-> more]
    BY <2>2, <2>3
  <2>5. release'.gate = gate /\ release'.pending = more
    BY <2>4, Zenon
  <2>6. QED
    BY <2>4, <2>5, Zenon DEF more, gate
<1>4. tags > 0 /\ tag.version[k] \in Nat /\ tag.version[k] # 0
  <2>1. tags # 0 /\ tags \in Nat
    BY <1>1 DEF WaveInv, ReleaseFacts, WaveTypes
  <2>2. tags > 0
    BY <2>1
  <2>3. tag.version[k] \in Nat /\ tag.version[k] >= 1
    BY <2>2 DEF WaveInv, ReleaseFacts, WaveTypes
  <2>4. QED
    BY <2>2, <2>3
<1>5. /\ \A w \in pypi' : w \in pypi \/ w = wheel
      /\ pypi \subseteq pypi' /\ (wheel \in pypi' \/ W!Wheel(k) # {})
  BY <1>1
<1>6. WaveTypes'
  <2>1. \A w \in pypi' : w.pkg \in W!Packages /\ w.version \in Nat \ {0}
    BY <1>2, <1>4, <1>5 DEF WaveInv, WaveTypes
  <2>2. QED
    BY <1>1, <2>1, SourcesKeep DEF WaveTypes
<1>7. WheelsAreTagged'
  <2>1. SUFFICES ASSUME orderly, NEW w \in pypi'
                 PROVE  /\ w.version <= tag.version[w.pkg]
                        /\ w.version = tag.version[w.pkg] =>
                             w.code = tag.code[w.pkg] /\ w.pins = tag.pins[w.pkg]
    BY <1>1 DEF WheelsAreTagged
  <2>2. CASE w \in pypi
    BY <2>1, <2>2 DEF WaveInv, WheelsAreTagged
  <2>3. CASE w = wheel
    BY <1>2, <1>4, <2>3
  <2>4. QED
    BY <1>5, <2>2, <2>3
<1>8. ReleaseFacts'
  <2>1. ASSUME NEW j \in W!Packages
        PROVE  ~W!Drift(j)' /\ (j \notin release'.pending => W!Wheel(j)' # {})
    <3>1. W!Wheel(j)' = {w \in pypi' : w.pkg = j /\ w.version = tag.version[j]}
      BY <1>1 DEF W!Wheel
    <3>2. ~W!Drift(j) /\ (j \notin release.pending => W!Wheel(j) # {})
      BY <1>1, <1>4 DEF WaveInv, ReleaseFacts
    <3>3. W!Wheel(j) \subseteq W!Wheel(j)'
      BY <1>5, <3>1 DEF W!Wheel
    <3>4. ASSUME NEW w \in W!Wheel(j)' PROVE w.pins = tag.pins[j]
      <4>1. CASE w \in pypi
        <5>1. w \in W!Wheel(j)
          BY <3>1, <3>4, <4>1 DEF W!Wheel
        <5>2. QED
          BY <3>2, <5>1 DEF W!Drift
      <4>2. CASE w = wheel
        BY <1>2, <3>1, <3>4, <4>2
      <4>3. QED
        BY <1>5, <3>1, <4>1, <4>2
    <3>5. ~W!Drift(j)'
      BY <1>1, <3>4 DEF W!Drift
    <3>6. j \notin release'.pending => W!Wheel(j)' # {}
      <4>1. CASE j = k
        <5>1. wheel \in pypi' => wheel \in W!Wheel(k)'
          BY <1>2, <3>1, <4>1
        <5>2. QED
          BY <1>5, <3>3, <4>1, <5>1
      <4>2. CASE j # k
        BY <1>3, <3>2, <3>3, <4>2
      <4>3. QED
        BY <4>1, <4>2
    <3>7. QED
      BY <3>5, <3>6
  <2>2. release'.gate /\ tags' = tags /\ tags' # 0
    BY <1>1, <1>3, <1>4, Zenon DEF WaveInv, ReleaseFacts
  <2>3. \A j \in W!Packages : tag'.version[j] >= 1
    BY <1>1, <1>4 DEF WaveInv, ReleaseFacts
  <2>4. QED
    BY <1>3, <2>1, <2>2, <2>3 DEF ReleaseFacts
<1>9. W!WheelsInstall'
  <2>1. SUFFICES ASSUME orderly, NEW w \in pypi', w.pkg \in W!Synced, NEW d \in W!Deps(w.pkg)
                 PROVE  w.pins[d] = 0 \/ \E x \in pypi' : x.pkg = d /\ x.version >= w.pins[d]
    BY <1>1 DEF W!WheelsInstall
  <2>2. CASE w \in pypi
    BY <1>5, <2>1, <2>2 DEF WaveInv, W!WheelsInstall
  <2>3. CASE w = wheel
    <3>1. k \in W!Synced /\ d \in W!Deps(k)
      BY <1>2, <2>1, <2>3
    <3>2. d \in W!Packages /\ d \notin release.pending
      BY <1>1, <3>1, SyncedDeps
    <3>3. w.pins[d] = tag.version[d]
      <4>1. tag.pins[k] = [e \in W!Deps(k) |-> tag.version[e]]
        BY <1>4, <2>1, <3>1 DEF WaveInv, TagIsPinned, W!RewriteFloors
      <4>2. QED
        BY <1>2, <2>3, <3>1, <4>1
    <3>4. PICK x : x \in W!Wheel(d)
      BY <1>1, <1>4, <3>2 DEF WaveInv, ReleaseFacts
    <3>5. x \in pypi' /\ x.pkg = d /\ x.version = tag.version[d]
      BY <1>5, <3>4 DEF W!Wheel
    <3>6. tag.version[d] \in Nat
      BY <3>2 DEF WaveInv, WaveTypes
    <3>7. QED
      BY <3>3, <3>5, <3>6
  <2>4. QED
    BY <1>5, <2>2, <2>3
<1>10. QED
  BY <1>1, <1>6, <1>7, <1>8, <1>9, SourcesKeep DEF WaveInv

(* Every step of a wave keeps the invariant. *)
LEMMA WaveNext == ASSUME ConnectorsHaveNames, WaveInv, [W!Next]_W!vars PROVE WaveInv'
<1>1. ASSUME NEW k \in W!Packages, W!EditCode(k) PROVE WaveInv'
  BY <1>1, EditsKeep
<1>2. ASSUME NEW k \in W!Packages, NEW v \in W!Near(tree.version[k]), W!EditVersion(k, v)
      PROVE  WaveInv'
  BY <1>2, EditsKeep
<1>3. ASSUME NEW k \in W!Packages, NEW d \in W!Deps(k), W!EditPin(k, d) PROVE WaveInv'
  BY <1>3, EditsKeep
<1>4. ASSUME NEW k \in W!Packages, W!Publish(k) PROVE WaveInv'
  BY <1>4, PublishKeeps
<1>5. ASSUME NEW set \in W!Overrides, W!Apply(set) PROVE WaveInv'
  BY <1>5, ApplyKeeps
<1>6. CASE W!GitCommit
  BY <1>6, GitCommitKeeps
<1>7. CASE W!Tag
  BY <1>7, TagKeeps
<1>8. CASE W!PinParity
  BY <1>8, PinParityKeeps
<1>9. CASE UNCHANGED W!vars
  <2>1. UNCHANGED <<tree, head, tag, pypi, release, edits, tags, settled, orderly>>
    BY <1>9 DEF W!vars
  <2>2. WaveTypes' /\ WheelsAreTagged' /\ ReleaseFacts' /\ W!WheelsInstall'
    BY <2>1, SourcesKeep, TaggedKeeps DEF WaveInv, WaveTypes
  <2>3. QED
    BY <2>1, <2>2, SourcesKeep DEF WaveInv
<1>10. QED
  BY <1>1, <1>2, <1>3, <1>4, <1>5, <1>6, <1>7, <1>8, <1>9 DEF W!Next

(* The invariant is what the safety properties of a wave need. *)
LEMMA WaveIsSafe ==
  ASSUME ConnectorsHaveNames, WaveInv
  PROVE  W!PreparedIsPublishable /\ W!ApplySettles /\ W!WheelsInstall /\ W!GateKeepsPins
<1>1. W!PreparedIsPublishable
  BY PreparedWheels DEF W!PreparedIsPublishable
<1>2. W!ApplySettles
  BY NothingIsQuiet DEF WaveInv, W!ApplySettles
<1>3. W!GateKeepsPins
  <2>1. SUFFICES ASSUME release.gate, release.pending = {}, tags > 0, NEW k \in W!Packages
                 PROVE  \E w \in W!Wheel(k) : w.pins = tag.pins[k]
    BY DEF W!GateKeepsPins
  <2>2. ~W!Drift(k) /\ W!Wheel(k) # {}
    BY <2>1 DEF WaveInv, ReleaseFacts
  <2>3. QED
    BY <2>2 DEF W!Drift
<1>4. QED
  BY <1>1, <1>2, <1>3 DEF WaveInv

(* A package that the tool finds prepared loses nothing to a wheel that is *)
(* on the index already; what it applied to the end leaves nothing to do;  *)
(* what is on the index can be installed; and a release that went through  *)
(* its gate has the pins of the tagged source.                             *)
THEOREM WaveSafety ==
  ASSUME ConnectorsHaveNames
  PROVE  /\ W!Spec => [](W!PreparedIsPublishable /\ W!ApplySettles
                           /\ W!WheelsInstall /\ W!GateKeepsPins)
         /\ MCSpec => []WaveIsWhole
  <1>1. WaveInv /\ [W!Next]_W!vars => WaveInv'
    BY WaveNext
  <1>2. WaveInv => W!PreparedIsPublishable /\ W!ApplySettles
                     /\ W!WheelsInstall /\ W!GateKeepsPins
    BY WaveIsSafe
  <1>3. W!PreparedIsPublishable /\ W!ApplySettles /\ W!WheelsInstall /\ W!GateKeepsPins
          => WaveIsWhole
    BY DEF WaveIsWhole
  <1>4. W!Spec => [](W!PreparedIsPublishable /\ W!ApplySettles
                       /\ W!WheelsInstall /\ W!GateKeepsPins)
    BY <1>1, <1>2, WaveInit, PTL DEF W!Spec
  <1>5. MCSpec => []WaveIsWhole
    BY <1>1, <1>2, <1>3, WaveInit, Machines, PTL DEF MCSpec
  <1>6. QED
    BY <1>4, <1>5

=============================================================================
