---------------------------- MODULE PoolConfigs ----------------------------
(* The rendered configs of a MachineConfigPool: what the models of waiting *)
(* and of pausing share.  A config is named by the hash of its content, so *)
(* a pool may come back to one it has asked for before.                    *)
EXTENDS Integers

CONSTANT MaxTarget      \* how many rendered configs there are: 1..MaxTarget

ASSUME ConfigAssumption == MaxTarget \in Nat \ {0}
===========================================================================
