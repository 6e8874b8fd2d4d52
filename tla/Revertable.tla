---------------------------- MODULE Revertable ----------------------------
(***************************************************************************)
(* RunRevertables of internal/experimental/revertable: a list of items is   *)
(* applied in order; every Apply pushes a deferred closure, and when one    *)
(* fails the closures run in reverse order and revert what was done, until  *)
(* a Revert answers ErrCanceledRevert.  Apply and Revert are the caller's    *)
(* functions: each may succeed, fail or panic.                              *)
(***************************************************************************)
EXTENDS Naturals

CONSTANT N                     \* the number of items in the list rs

ASSUME NAssumption == N \in Nat

VARIABLES
    pc,                  \* "apply" in the loop, "defers" unwinding, or ended
    next,                \* the item whose Apply the loop calls next
    depth,               \* deferred closures not yet run: items 1..depth
    applyErr,            \* what Apply of each item answered
    revertErr,           \* what Revert of each item answered
    errs,                \* errs, as the set of calls whose error it holds
    isCanceledRevert,
    retErr               \* the calls whose errors the returned aggregate holds

vars == <<pc, next, depth, applyErr, revertErr, errs, isCanceledRevert, retErr>>

Items == 1..N
Ended == {"returned", "panicked"}
Calls == {"apply", "revert"} \X Items      \* whose errors errs may hold

TypeOK ==
    /\ pc \in {"apply", "defers", "panicking"} \cup Ended
    /\ next \in 1..(N + 1)
    /\ depth \in 0..N
    /\ applyErr \in [Items -> {"uncalled", "nil", "err", "panic"}]
    /\ revertErr \in [Items -> {"uncalled", "nil", "err", "canceled", "panic"}]
    /\ errs \subseteq Calls
    /\ isCanceledRevert \in BOOLEAN
    /\ retErr \subseteq Calls

Init ==
    /\ pc = "apply"
    /\ next = 1
    /\ depth = 0
    /\ applyErr = [i \in Items |-> "uncalled"]
    /\ revertErr = [i \in Items |-> "uncalled"]
    /\ errs = {}
    /\ isCanceledRevert = FALSE
    /\ retErr = {}

---------------------------------------------------------------------------
MoreItems == next \in Items

\* r.Apply() succeeded: its closure is pushed and the loop goes on.
ApplySucceeds ==
    /\ pc = "apply" /\ MoreItems
    /\ applyErr' = [applyErr EXCEPT ![next] = "nil"]
    /\ depth' = next
    /\ next' = next + 1
    /\ UNCHANGED <<pc, revertErr, errs, isCanceledRevert, retErr>>

\* r.Apply() failed: its closure is pushed all the same, then the function returns.
ApplyFails ==
    /\ pc = "apply" /\ MoreItems
    /\ applyErr' = [applyErr EXCEPT ![next] = "err"]
    /\ depth' = next
    /\ pc' = "defers"
    /\ UNCHANGED <<next, revertErr, errs, isCanceledRevert, retErr>>

\* r.Apply() panicked: the defer statement of this item is never reached.
ApplyPanics ==
    /\ pc = "apply" /\ MoreItems
    /\ applyErr' = [applyErr EXCEPT ![next] = "panic"]
    /\ pc' = "panicking"
    /\ UNCHANGED <<next, depth, revertErr, errs, isCanceledRevert, retErr>>

LoopEnds ==
    /\ pc = "apply" /\ ~MoreItems
    /\ pc' = "defers"
    /\ UNCHANGED <<next, depth, applyErr, revertErr, errs, isCanceledRevert, retErr>>

\* Each closure runs once, the last one pushed first.
NotPopped(d) == d
Popped(d) == d - 1

Unwinding == pc \in {"defers", "panicking"} /\ depth > 0

\* The error of item i's Apply, collected when its closure runs and not before.
ApplyErrOf(i) == IF applyErr[i] = "err" THEN {<<"apply", i>>} ELSE {}

\* Does the closure of item i call runRevertFunc, given what errs holds by then?
WantsRevertKeepingFailed(i) == applyErr[i] = "nil" /\ errs # {}
WantsRevert(i) == applyErr[i] = "err" \/ (applyErr[i] = "nil" /\ errs # {})

\* The closure of the last item pushed runs without calling Revert.
DeferSkips ==
    /\ Unwinding
    /\ ~WantsRevert(depth) \/ isCanceledRevert
    /\ errs' = errs \cup ApplyErrOf(depth)
    /\ depth' = Popped(depth)
    /\ UNCHANGED <<pc, next, applyErr, revertErr, isCanceledRevert, retErr>>

\* runRevertFunc appends the error of Revert; only ErrCanceledRevert stops the rest.
RevertErrOfCancelOnly(i, answer) == IF answer = "canceled" THEN {<<"revert", i>>} ELSE {}
RevertErrOf(i, answer) == IF answer = "nil" THEN {} ELSE {<<"revert", i>>}

CancelsOnAnyError(answer) == answer # "nil"
CancelsNever(answer) == FALSE
Cancels(answer) == answer = "canceled"

DeferReverts ==
    /\ Unwinding
    /\ WantsRevert(depth) /\ ~isCanceledRevert
    /\ \E answer \in {"nil", "err", "canceled"} :
          /\ revertErr' = [revertErr EXCEPT ![depth] = answer]
          /\ errs' = errs \cup ApplyErrOf(depth) \cup RevertErrOf(depth, answer)
          /\ isCanceledRevert' = Cancels(answer)
    /\ depth' = Popped(depth)
    /\ UNCHANGED <<pc, next, applyErr, retErr>>

\* A Revert that panics: nothing is appended for it, and the closures below still run.
DeferPanics ==
    /\ Unwinding
    /\ WantsRevert(depth) /\ ~isCanceledRevert
    /\ revertErr' = [revertErr EXCEPT ![depth] = "panic"]
    /\ errs' = errs \cup ApplyErrOf(depth)
    /\ depth' = Popped(depth)
    /\ pc' = "panicking"
    /\ UNCHANGED <<next, applyErr, isCanceledRevert, retErr>>

\* The first defer statement, run last, aggregates errs; a panic goes on to the caller.
ReturnAggregate ==
    /\ pc \in {"defers", "panicking"} /\ depth = 0
    /\ retErr' = errs
    /\ pc' = IF pc = "panicking" THEN "panicked" ELSE "returned"
    /\ UNCHANGED <<next, depth, applyErr, revertErr, errs, isCanceledRevert>>

Done == pc \in Ended /\ UNCHANGED vars

Next ==
    \/ ApplySucceeds \/ ApplyFails \/ ApplyPanics \/ LoopEnds
    \/ DeferSkips \/ DeferReverts \/ DeferPanics \/ ReturnAggregate
    \/ Done

\* The caller's functions return: the code has no timeout of its own.
Spec == Init /\ [][Next]_vars /\ WF_vars(Next)

---------------------------------------------------------------------------
Attempted == {i \in Items : applyErr[i] \in {"nil", "err"}}
Canceled == {i \in Items : revertErr[i] = "canceled"}
SomeApplyFailed == \E i \in Items : applyErr[i] = "err"

\* When a failure ended the loop, every item whose Apply ran has had its Revert
\* called, the one that failed included, unless a later item canceled the revert;
\* this holds even when a Revert failed or panicked on the way.
RevertsReachEveryItem ==
    (pc \in Ended /\ SomeApplyFailed) =>
        \A i \in Attempted :
            revertErr[i] # "uncalled" \/ \E j \in Canceled : i < j

\* Reverts run strictly from the last item back: whenever item i's Revert has been
\* called, so has that of every later item that was applied, and none canceled.
RevertsRunBackwards ==
    \A i \in Items : revertErr[i] # "uncalled" =>
        \A j \in Attempted : i < j => revertErr[j] \notin {"uncalled", "canceled"}

\* The aggregate returned is nil exactly when every item is applied and none was
\* reverted, and otherwise names each failed Apply and each failed Revert.
AggregateTellsAll ==
    pc = "returned" =>
        /\ retErr = ({"apply"} \X {i \in Items : applyErr[i] = "err"})
                    \cup ({"revert"} \X {i \in Items : revertErr[i] \in {"err", "canceled"}})
        /\ retErr = {} => \A i \in Items : applyErr[i] = "nil" /\ revertErr[i] = "uncalled"

\* RunRevertables comes to an end whatever its items answer.
Terminates == <>(pc \in Ended)

---------------------------------------------------------------------------
\* What is left in the system, as an abstract transaction sees it.
LeftInForce == {i \in Attempted : revertErr[i] # "nil"}

Transaction == INSTANCE AllOrNothing WITH
    inForce <- LeftInForce,
    phase <- CASE pc = "apply" -> "doing"
               [] pc = "defers" \/ pc = "panicking" -> "undoing"
               [] pc = "panicked" -> "broken"
               [] OTHER -> IF retErr = {} THEN "committed"
                           ELSE IF LeftInForce = {} THEN "rolledBack"
                           ELSE "leftDirty",
    blamed <- {i \in Items : <<"revert", i>> \in retErr}

\* Every behaviour of RunRevertables is one of an all-or-nothing transaction.
ImplementsTransaction == Transaction!Spec
===========================================================================
