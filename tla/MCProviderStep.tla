--------------------------- MODULE MCProviderStep ---------------------------
(* Instances of ProviderStep for TLC; the bounds are in the .cfg files. *)
EXTENDS ProviderStep

=============================================================================
