---------------------------- MODULE MCMongoEngine ----------------------------
(* MongoEngine for TLC: calls are interchangeable. *)
EXTENDS MongoEngine

Symmetry == Permutations(Calls)
=============================================================================
