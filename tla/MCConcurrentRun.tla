-------------------------- MODULE MCConcurrentRun --------------------------
(* Instances of ConcurrentRun for TLC; the bounds are in the .cfg files. *)
EXTENDS ConcurrentRun

=============================================================================
