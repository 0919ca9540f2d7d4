---------------------------- MODULE MCOfflineQueue ----------------------------
(* Instances of OfflineQueue for TLC. *)
EXTENDS OfflineQueue
=============================================================================
