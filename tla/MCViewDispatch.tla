--------------------------- MODULE MCViewDispatch ---------------------------
(* ViewDispatch for TLC: the two dispatchers of the bank example, a view   *)
(* per account and a view per movement; every event but the second of a    *)
(* command updates a view.                                                 *)
EXTENDS ViewDispatch, TLC

MCDispatchers == <<"aggregate", "event">>
MCShown == Calls \X (1..MaxEvents \ {2})

Symmetry == Permutations(Calls)
=============================================================================
