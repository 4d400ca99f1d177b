---------------------------- MODULE MCObjectSink ----------------------------
(* Instances of ObjectSink for TLC: the configurations of the batch. *)
EXTENDS ObjectSink

AllModes == [eager : BOOLEAN, cache : BOOLEAN, failFast : BOOLEAN]

EagerAndCached == {m \in AllModes : m.eager /\ m.cache}

=============================================================================
