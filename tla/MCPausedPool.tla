--------------------------- MODULE MCPausedPool ---------------------------
(* Bounded instance of PausedPool: one node and one helper call at a time. *)
EXTENDS PausedPool
===========================================================================
