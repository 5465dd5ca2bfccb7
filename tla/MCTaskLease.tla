---------------------------- MODULE MCTaskLease ----------------------------
(* Instantiates TaskLease for TLC. *)
EXTENDS TaskLease
============================================================================
