----------------------------- MODULE MCSyncFlow -----------------------------
(* Instances of SyncFlow for TLC. *)
EXTENDS SyncFlow
=============================================================================
