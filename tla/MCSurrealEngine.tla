--------------------------- MODULE MCSurrealEngine ---------------------------
(* SurrealEngine for TLC: calls are interchangeable, and so are ids. *)
EXTENDS SurrealEngine, TLC

Symmetry == Permutations(Calls) \cup Permutations(Ids)
=============================================================================
