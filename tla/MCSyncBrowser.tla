---------------------------- MODULE MCSyncBrowser ----------------------------
(* An instance of SyncBrowser for TLC. *)
EXTENDS SyncBrowser
=============================================================================
