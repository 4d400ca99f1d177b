----------------------------- MODULE MCDiscovery -----------------------------
(* Instances of Discovery for TLC; the bounds are in the .cfg files. *)
EXTENDS Discovery

=============================================================================
