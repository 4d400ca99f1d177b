---------------------------- MODULE StepContract ----------------------------
(***************************************************************************)
(* What a provider step promises to a caller that checkpoints: the step is *)
(* durably bound to at most one upstream job, for good, and it succeeds    *)
(* only once it is bound.  Retries, timeouts, crashes and restarts are     *)
(* invisible at this level.                                                *)
(***************************************************************************)
EXTENDS Naturals

VARIABLES
  job,       \* the upstream job the checkpoint names, 0 before there is one
  outcome    \* what the call returned: "none", "SUCCEEDED" or "FAILED"

vars == <<job, outcome>>

Init == job = 0 /\ outcome = "none"

(* The prediction id is persisted. *)
Bind ==
  /\ job = 0
  /\ outcome = "none"
  /\ job' \in Nat \ {0}
  /\ UNCHANGED outcome

Succeed ==
  /\ outcome = "none"
  /\ job # 0
  /\ outcome' = "SUCCEEDED"
  /\ UNCHANGED job

(* A failing call may still have persisted the id just before. *)
Fail ==
  /\ outcome = "none"
  /\ outcome' = "FAILED"
  /\ \/ UNCHANGED job
     \/ job = 0 /\ job' \in Nat \ {0}

Next == Bind \/ Succeed \/ Fail

Spec == Init /\ [][Next]_vars

=============================================================================
