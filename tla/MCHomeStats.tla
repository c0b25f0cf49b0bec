---------------------------- MODULE MCHomeStats ----------------------------
(* Instances of HomeStats for TLC.                                         *)
EXTENDS HomeStats
=============================================================================
