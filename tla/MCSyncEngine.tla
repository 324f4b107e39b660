----------------------------- MODULE MCSyncEngine -----------------------------
(* Small instances of SyncEngine for TLC. *)
EXTENDS SyncEngine
=============================================================================
