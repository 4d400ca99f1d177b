----------------------------- MODULE MCCustody -----------------------------
EXTENDS Custody

\* Two runs are made before anything is written, or one whose document goes on.
MCNext ==
  /\ prior = Nothing
  /\ Next
  /\ doc # Nothing => mem' = mem
  /\ prior' # Nothing => mem = fresh /\ doc = Nothing

MCSpec == Init /\ [][MCNext]_vars
=============================================================================
