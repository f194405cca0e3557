-------------------------- MODULE MCPostgresEngine --------------------------
(* PostgresEngine for TLC: calls are interchangeable, and so are ids. *)
EXTENDS PostgresEngine, TLC

Symmetry == Permutations(Calls) \cup Permutations(Ids)
=============================================================================
