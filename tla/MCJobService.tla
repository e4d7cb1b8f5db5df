---------------------------- MODULE MCJobService ----------------------------
(* JobService for TLC: the goroutines are interchangeable, and so are the   *)
(* agents.                                                                  *)
EXTENDS JobService, TLC

Symmetry == Permutations(Proc) \cup Permutations(AgentId)
=============================================================================
