------------------------- MODULE MCAccountCollection -------------------------
(* Instances of AccountCollection for TLC. *)
EXTENDS AccountCollection
=============================================================================
