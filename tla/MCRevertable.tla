--------------------------- MODULE MCRevertable ---------------------------
(* RunRevertables on a list of N items, N given by the configuration. *)
EXTENDS Revertable
===========================================================================
