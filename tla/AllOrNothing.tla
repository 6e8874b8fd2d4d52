--------------------------- MODULE AllOrNothing ---------------------------
(***************************************************************************)
(* What RunRevertables promises its caller: the items take effect one after *)
(* the other; then either all of them stay in force, or they are undone,    *)
(* and whatever could not be undone is blamed on a Revert that said so.     *)
(***************************************************************************)
EXTENDS Naturals

CONSTANT N

VARIABLES
    inForce,      \* items that had an effect and have not been undone
    phase,
    blamed        \* items the caller is told could not be undone

Items == 1..N
vars == <<inForce, phase, blamed>>

Init == inForce = {} /\ phase = "doing" /\ blamed = {}

Do(i) ==
    /\ phase = "doing"
    /\ inForce = 1..(i - 1)
    /\ inForce' = inForce \cup {i}
    /\ phase' \in {"doing", "undoing"}
    /\ UNCHANGED blamed

StartUndo == phase = "doing" /\ phase' = "undoing" /\ UNCHANGED <<inForce, blamed>>

Undo(i) ==
    /\ phase = "undoing"
    /\ i \in inForce
    /\ inForce' = inForce \ {i}
    /\ UNCHANGED <<phase, blamed>>

\* Nothing was undone: the whole list stays in force.
Commit ==
    /\ phase = "undoing" /\ inForce = Items
    /\ phase' = "committed"
    /\ UNCHANGED <<inForce, blamed>>

RollBack ==
    /\ phase = "undoing" /\ inForce = {}
    /\ phase' = "rolledBack"
    /\ UNCHANGED <<inForce, blamed>>

\* Something is left: each item that is was blamed, or lies below one that was.
LeaveDirty ==
    /\ phase = "undoing" /\ inForce # {}
    /\ phase' = "leftDirty"
    /\ blamed' \in {b \in SUBSET inForce :
                      \A j \in inForce : \E i \in b : j <= i}
    /\ UNCHANGED inForce

\* A panic leaves to the caller: no promise is made.
Break ==
    /\ phase = "undoing"
    /\ phase' = "broken"
    /\ blamed' \in SUBSET inForce
    /\ UNCHANGED inForce

Next ==
    \/ \E i \in Items : Do(i) \/ Undo(i)
    \/ StartUndo \/ Commit \/ RollBack \/ LeaveDirty \/ Break

Spec == Init /\ [][Next]_vars
===========================================================================
