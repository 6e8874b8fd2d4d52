--------------------------- MODULE MCMCORollout ---------------------------
(* Bounded instances of MCORollout: see the configurations for their objects. *)
EXTENDS MCORollout
===========================================================================
