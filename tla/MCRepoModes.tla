---------------------------- MODULE MCRepoModes ----------------------------
(* Bounded instance of RepoModes: two clients of one checkout. *)
EXTENDS RepoModes, TLC

ClientSymmetry == Permutations(Clients)
===========================================================================
