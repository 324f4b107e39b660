------------------------------ MODULE MCBatchSync ------------------------------
(* Instances of BatchSync for TLC. *)
EXTENDS BatchSync
=============================================================================
