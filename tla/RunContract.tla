---------------------------- MODULE RunContract ----------------------------
(***************************************************************************)
(* What the observer of a pipeline run (a stream consumer, a tracer, a     *)
(* dashboard) is promised, however the steps are scheduled: a step is      *)
(* announced before its result is reported, its result is reported once    *)
(* and never changes, the run ends once, nothing about a step is reported  *)
(* after that, and only a run whose every step succeeded is reported       *)
(* completed.                                                              *)
(***************************************************************************)
CONSTANT Steps

VARIABLES
  reported,   \* what was said of each step: "none", "started", or its status
  end         \* the run's terminal event: "none", "completed" or "failed"

vars == <<reported, end>>

Init ==
  /\ reported = [s \in Steps |-> "none"]
  /\ end = "none"

(* Start events, for one step or for several at once. *)
Announce ==
  /\ end = "none"
  /\ \E S \in SUBSET {s \in Steps : reported[s] = "none"} :
       reported' = [s \in Steps |-> IF s \in S THEN "started" ELSE reported[s]]
  /\ UNCHANGED end

(* step.completed and step.failed events. *)
Report ==
  /\ end = "none"
  /\ reported' \in [Steps -> {"none", "started", "SUCCEEDED", "FAILED"}]
  /\ \A s \in Steps : reported'[s] # reported[s] =>
       reported[s] = "started" /\ reported'[s] \in {"SUCCEEDED", "FAILED"}
  /\ UNCHANGED end

End ==
  /\ end = "none"
  /\ \/ end' = "failed"
     \/ end' = "completed" /\ \A s \in Steps : reported[s] = "SUCCEEDED"
  /\ UNCHANGED reported

Next == Announce \/ Report \/ End

Spec == Init /\ [][Next]_vars

=============================================================================
