---------------------------- MODULE MCPoolWait ----------------------------
(* Bounded instances of PoolWait; node names are interchangeable. *)
EXTENDS PoolWait, TLC

NodeSymmetry == Permutations(Nodes)
===========================================================================
