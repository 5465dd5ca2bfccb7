-------------------------- MODULE MCPostgresStore --------------------------
(* Instantiates PostgresStore for TLC. *)
EXTENDS PostgresStore, TLC

SessionSymmetry == Permutations(Sessions)
=============================================================================
