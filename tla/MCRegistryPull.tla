-------------------------- MODULE MCRegistryPull --------------------------
(* Bounded instance of RegistryPull: runs are interchangeable. *)
EXTENDS RegistryPull, TLC

RunSymmetry == Permutations(Runs)
===========================================================================
