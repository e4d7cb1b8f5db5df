----------------------------- MODULE MCDispatch -----------------------------
(* Dispatch for TLC: the goroutines of an instance, from its agents and the *)
(* capacity of each.                                                        *)
EXTENDS Dispatch, TLC

CONSTANTS p1, a1, a2

MCProc1 == {p1} \cup {a1, <<a1, 1>>, <<a1, 1, "log">>}
MCProc2 == MCProc1 \cup {a2, <<a2, 1>>, <<a2, 1, "log">>}

Symmetry == Permutations({a1, a2})
=============================================================================
