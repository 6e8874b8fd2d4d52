----------------------------- MODULE PoolPause -----------------------------
(***************************************************************************)
(* Pausing a MachineConfigPool: the three helpers of                        *)
(* internal/pkg/utils/apiutils.go.  Each reads the pool, changes its copy    *)
(* and sends the whole object back, which the API server refuses if anybody  *)
(* wrote the pool in between; no helper retries.  Meanwhile administrators   *)
(* pause, unpause and annotate the pool by hand, and controllers write the   *)
(* rest of the object.                                                      *)
(***************************************************************************)
EXTENDS PoolConfigs

CONSTANT Callers    \* helper calls that may be under way at the same time

AllOps == {"pause", "unpause", "unpauseIfOurs"}

VARIABLES
    target,         \* mcp.Spec.Configuration.Name: what else is in the object
    paused,         \* mcp.Spec.Paused
    marked,         \* does the pool have the annotation mcpPausedByHelper?
    step,           \* where each call is
    op,             \* which helper it is
    seen,           \* the target in the copy it holds, 0 for no copy
    fresh,          \* is that copy the object as it is now (same resourceVersion)?
    overtaken       \* history: calls since whose read others changed the pause or its mark

pauseVars == <<paused, marked, step, op, seen, fresh, overtaken>>
pauseAll == <<target, pauseVars>>

PauseTypeOK ==
    /\ target \in 1..MaxTarget
    /\ paused \in BOOLEAN /\ marked \in BOOLEAN
    /\ step \in [Callers -> {"idle", "get", "update"}]
    /\ op \in [Callers -> AllOps]
    /\ seen \in [Callers -> 0..MaxTarget]
    /\ fresh \in [Callers -> BOOLEAN]
    /\ overtaken \subseteq Callers

PauseInit ==
    /\ target = 1
    /\ paused \in BOOLEAN /\ marked \in BOOLEAN     \* earlier calls may have left a mark
    /\ step = [c \in Callers |-> "idle"]
    /\ op = [c \in Callers |-> "pause"]
    /\ seen = [c \in Callers |-> 0]
    /\ fresh = [c \in Callers |-> FALSE]
    /\ overtaken = {}

---------------------------------------------------------------------------
\* Anybody else's write of the pool makes every copy stale.
Stale == fresh' = [c \in Callers |-> FALSE]

\* The calls that hold a copy of the pool.
Holding == {c \in Callers : step[c] = "update"}

\* oc patch or oc annotate, by hand: the pause, its mark, or both.
AdminPatches ==
    /\ paused' \in BOOLEAN /\ marked' \in BOOLEAN
    /\ <<paused', marked'>> # <<paused, marked>>
    /\ Stale
    /\ overtaken' = Holding
    /\ UNCHANGED <<target, step, op, seen>>

\* A controller gives the pool another rendered config.
ControllerRenders ==
    /\ target' \in (1..MaxTarget) \ {target}
    /\ Stale
    /\ UNCHANGED <<paused, marked, step, op, seen, overtaken>>

\* ... or writes its status.
ControllerWritesStatus == Stale /\ UNCHANGED <<target, paused, marked, step, op, seen, overtaken>>

---------------------------------------------------------------------------
StartHelper(c) ==
    /\ step[c] = "idle"
    /\ step' = [step EXCEPT ![c] = "get"]
    /\ \E o \in AllOps : op' = [op EXCEPT ![c] = o]
    /\ UNCHANGED <<target, paused, marked, seen, fresh, overtaken>>

\* The call is over; what it held is forgotten.
HelperEnds(c) ==
    /\ step' = [step EXCEPT ![c] = "idle"]
    /\ op' = [op EXCEPT ![c] = "pause"]
    /\ seen' = [seen EXCEPT ![c] = 0]

\* UnpauseMachineConfigPoolOnlyIfWePausedIt returns without an error when the pool it
\* read has no annotation.
LeavesAll(c) == FALSE
LeavesPoolAlone(c) == op[c] = "unpauseIfOurs" /\ ~marked

\* What is sent back is the object that was read, not one with nothing but the new state.
Copy == target

GetPool(c) ==
    /\ step[c] = "get"
    /\ IF LeavesPoolAlone(c)
       THEN HelperEnds(c) /\ UNCHANGED fresh
       ELSE /\ step' = [step EXCEPT ![c] = "update"]
            /\ seen' = [seen EXCEPT ![c] = Copy]
            /\ fresh' = [fresh EXCEPT ![c] = TRUE]
            /\ UNCHANGED op
    /\ UNCHANGED <<target, paused, marked, overtaken>>

\* The API server compares the resourceVersion of the object it is sent with its own.
AcceptsAny(c) == TRUE
Accepts(c) == fresh[c]

\* setMachineConfigPoolPauseState: the annotation goes with the field, the rest of the
\* object is the copy.  The answer may be lost, and the call fails though it took effect.
UpdatePool(c) ==
    /\ step[c] = "update" /\ Accepts(c)
    /\ paused' = (op[c] = "pause")
    /\ marked' = (op[c] = "pause")
    /\ target' = seen[c]
    /\ fresh' = IF <<paused', marked', target'>> = <<paused, marked, target>>
                THEN [fresh EXCEPT ![c] = FALSE] ELSE [d \in Callers |-> FALSE]
    /\ overtaken' = (IF <<paused', marked'>> = <<paused, marked>> THEN overtaken ELSE Holding) \ {c}
    /\ HelperEnds(c)

\* A request fails: a conflict, or any other error.
HelperFails(c) ==
    /\ step[c] \in {"get", "update"}
    /\ HelperEnds(c)
    /\ fresh' = [fresh EXCEPT ![c] = FALSE]
    /\ overtaken' = overtaken \ {c}
    /\ UNCHANGED <<target, paused, marked>>

Helper(c) == StartHelper(c) \/ GetPool(c) \/ UpdatePool(c) \/ HelperFails(c)

PauseNext ==
    \/ AdminPatches \/ ControllerRenders \/ ControllerWritesStatus
    \/ \E c \in Callers : Helper(c)

PauseSpec == PauseInit /\ [][PauseNext]_pauseAll

---------------------------------------------------------------------------
\* What a controller wrote while a helper held its copy is never written over: the whole
\* object is sent back, and only the resourceVersion protects the rest of it
\* (setMachineConfigPoolPauseState).
NoWriteIsLost ==
    [][\A c \in Callers : (step[c] = "update" /\ step'[c] # "update") => target' = target]_pauseAll

\* The conditional unpause lifts no pause but the one it read, and that one is marked: nobody,
\* administrator or other helper, has changed the pause or its mark since the read.  A pool
\* that was unpaused and paused again looks as it was read, and yet its pause is another one
\* (UnpauseMachineConfigPoolOnlyIfWePausedIt looks for the annotation in the first of its two
\* requests only, and sends what it found back in the second).
OnlyMarkedPauseIsLifted ==
    [][\A c \in Callers :
          (op[c] = "unpauseIfOurs" /\ step[c] = "update" /\ step'[c] # "update"
               /\ paused /\ ~paused') =>
              marked /\ c \notin overtaken]_pauseAll
===========================================================================
