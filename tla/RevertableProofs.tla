------------------------- MODULE RevertableProofs -------------------------
(***************************************************************************)
(* Proofs about RunRevertables for a list of any length N: its type, its    *)
(* three safety invariants, and that it implements AllOrNothing.            *)
(***************************************************************************)
EXTENDS Revertable, TLAPS

\* The loop applies 1..next-1 without an error; item next is where it stopped.
LoopInv ==
    /\ pc = "apply" => depth = next - 1
    /\ \A i \in Items :
          /\ i < next => applyErr[i] = "nil"
          /\ i > next => applyErr[i] = "uncalled"
          /\ i = next => IF pc = "apply" THEN applyErr[i] = "uncalled"
                         ELSE applyErr[i] \in {"err", "panic"}
          /\ applyErr[i] = "panic" => pc \in {"panicking", "panicked"}
    /\ depth <= next
    /\ next \in Items /\ applyErr[next] # "err" => depth < next

\* Closures above depth have run: they reverted their item, or a later one canceled.
UnwindInv ==
    /\ \A i \in Items :
          /\ i <= depth => revertErr[i] = "uncalled"
          /\ revertErr[i] # "uncalled" => i \in Attempted /\ SomeApplyFailed
          /\ revertErr[i] = "canceled" => \A j \in Items : j < i => revertErr[j] = "uncalled"
          /\ (i > depth /\ i \in Attempted /\ SomeApplyFailed) =>
                revertErr[i] # "uncalled" \/ \E j \in Canceled : i < j
          /\ revertErr[i] = "panic" => pc \in {"panicking", "panicked"}
    /\ isCanceledRevert <=> Canceled # {}

\* What errs and retErr hold at every moment.
ErrsInv ==
    /\ \A i \in Items :
          /\ <<"apply", i>> \in errs <=> i > depth /\ applyErr[i] = "err"
          /\ <<"revert", i>> \in errs <=> revertErr[i] \in {"err", "canceled"}
    /\ pc \in Ended => depth = 0 /\ retErr = errs
    /\ pc \notin Ended => retErr = {}

IInv == TypeOK /\ LoopInv /\ UnwindInv /\ ErrsInv

LEMMA InitInv == Init => IInv
<1> SUFFICES ASSUME Init PROVE IInv
  OBVIOUS
<1> USE NAssumption DEF NAssumption, Init, Items, Ended
<1>1. TypeOK
  <2>1. pc \in {"apply", "defers", "panicking"} \cup Ended /\ next \in 1..(N + 1) /\ depth \in 0..N
    OBVIOUS
  <2>2. applyErr \in [Items -> {"uncalled", "nil", "err", "panic"}]
    OBVIOUS
  <2>3. revertErr \in [Items -> {"uncalled", "nil", "err", "canceled", "panic"}]
    OBVIOUS
  <2> QED
    BY <2>1, <2>2, <2>3 DEF TypeOK
<1>2. LoopInv
  BY DEF LoopInv
<1>3. UnwindInv
  BY DEF UnwindInv, Attempted, Canceled, SomeApplyFailed
<1>4. ErrsInv
  BY DEF ErrsInv
<1> QED
  BY <1>1, <1>2, <1>3, <1>4 DEF IInv

\* The loop's steps: no Revert has been called and errs is still empty.
LEMMA LoopStepInv ==
    ASSUME IInv, ApplySucceeds \/ ApplyFails \/ ApplyPanics \/ LoopEnds
    PROVE  IInv'
<1> USE NAssumption DEF NAssumption, Items, Ended, MoreItems
<1>1. pc = "apply"
  BY DEF ApplySucceeds, ApplyFails, ApplyPanics, LoopEnds
<1>2. TypeOK'
  <2>1. /\ pc' \in {"apply", "defers", "panicking"} \cup Ended
        /\ next' \in 1..(N + 1)
        /\ depth' \in 0..N
    BY <1>1 DEF IInv, TypeOK, LoopInv, ApplySucceeds, ApplyFails, ApplyPanics, LoopEnds
  <2>2. applyErr' \in [Items -> {"uncalled", "nil", "err", "panic"}]
    BY DEF IInv, TypeOK, ApplySucceeds, ApplyFails, ApplyPanics, LoopEnds
  <2>3. UNCHANGED <<revertErr, errs, isCanceledRevert, retErr>>
    BY DEF ApplySucceeds, ApplyFails, ApplyPanics, LoopEnds
  <2> QED
    BY <2>1, <2>2, <2>3 DEF IInv, TypeOK
<1>3. ~SomeApplyFailed
  BY <1>1 DEF IInv, TypeOK, LoopInv, SomeApplyFailed
<1>4. LoopInv'
  <2>1. CASE ApplySucceeds
    BY <2>1 DEF IInv, TypeOK, LoopInv, ApplySucceeds
  <2>2. CASE ApplyFails
    BY <2>2 DEF IInv, TypeOK, LoopInv, ApplyFails
  <2>3. CASE ApplyPanics
    BY <2>3 DEF IInv, TypeOK, LoopInv, ApplyPanics
  <2>4. CASE LoopEnds
    BY <2>4 DEF IInv, TypeOK, LoopInv, LoopEnds
  <2> QED
    BY <2>1, <2>2, <2>3, <2>4
<1>5. UnwindInv'
  BY <1>1, <1>3 DEF IInv, TypeOK, LoopInv, UnwindInv, Attempted, Canceled, SomeApplyFailed,
     ApplySucceeds, ApplyFails, ApplyPanics, LoopEnds
<1>6. ErrsInv'
  BY <1>1, <1>3 DEF IInv, TypeOK, LoopInv, UnwindInv, ErrsInv, SomeApplyFailed,
     ApplySucceeds, ApplyFails, ApplyPanics, LoopEnds
<1> QED
  BY <1>2, <1>4, <1>5, <1>6 DEF IInv

\* A deferred closure runs: the facts its three forms have in common.
ClosureStep == DeferSkips \/ DeferReverts \/ DeferPanics

LEMMA ClosureKeepsLoop ==
    ASSUME IInv, ClosureStep
    PROVE  /\ LoopInv'
           /\ depth \in Items /\ depth' = depth - 1
           /\ UNCHANGED <<next, applyErr, retErr>>
           /\ Attempted' = Attempted /\ (SomeApplyFailed' <=> SomeApplyFailed)
           /\ pc' \in {pc, "panicking"} /\ pc \in {"defers", "panicking"}
           /\ depth \in Attempted
<1> USE NAssumption DEF NAssumption, Items, Ended
<1>1. /\ depth \in Items /\ depth' = depth - 1 /\ depth' \in 0..N
      /\ pc \in {"defers", "panicking"} /\ pc' \in {pc, "panicking"}
      /\ UNCHANGED <<next, applyErr, retErr>>
  BY DEF ClosureStep, DeferSkips, DeferReverts, DeferPanics, Unwinding, Popped, IInv, TypeOK
<1>2. depth \in Attempted
  BY <1>1 DEF IInv, TypeOK, LoopInv, Attempted
<1>3. LoopInv'
  BY <1>1 DEF IInv, TypeOK, LoopInv
<1> QED
  BY <1>1, <1>2, <1>3 DEF Attempted, SomeApplyFailed

\* While closures run, errs is not empty once one of an item that failed has run.
LEMMA WantsRevertMeansFailure ==
    ASSUME IInv, Unwinding
    PROVE  /\ WantsRevert(depth) <=> SomeApplyFailed
           /\ depth \in Items
<1> USE NAssumption DEF NAssumption, Items, Ended
<1>1. depth \in Items /\ pc \in {"defers", "panicking"}
  BY DEF Unwinding, IInv, TypeOK
<1>2. ASSUME SomeApplyFailed PROVE WantsRevert(depth)
  <2>1. PICK i \in Items : applyErr[i] = "err"
    BY <1>2 DEF SomeApplyFailed
  <2>2. i = next /\ depth <= i
    BY <1>1, <2>1 DEF IInv, TypeOK, LoopInv
  <2>3. CASE depth = i
    BY <2>1, <2>3 DEF WantsRevert
  <2>4. CASE depth < i
    <3>1. applyErr[depth] = "nil"
      BY <1>1, <2>2, <2>4 DEF IInv, TypeOK, LoopInv
    <3>2. <<"apply", i>> \in errs
      BY <1>1, <2>1, <2>4 DEF IInv, TypeOK, ErrsInv
    <3> QED
      BY <3>1, <3>2 DEF WantsRevert
  <2> QED
    BY <1>1, <2>2, <2>3, <2>4 DEF IInv, TypeOK
<1>3. ASSUME WantsRevert(depth) PROVE SomeApplyFailed
  <2>1. CASE applyErr[depth] = "err"
    BY <1>1, <2>1 DEF SomeApplyFailed
  <2>2. CASE errs # {}
    <3>1. PICK e \in errs : TRUE
      BY <2>2
    <3>2. PICK k \in {"apply", "revert"}, i \in Items : e = <<k, i>>
      BY <3>1 DEF IInv, TypeOK, Calls
    <3> QED
      BY <3>1, <3>2 DEF IInv, ErrsInv, UnwindInv, SomeApplyFailed
  <2> QED
    BY <1>3, <2>1, <2>2 DEF WantsRevert
<1> QED
  BY <1>1, <1>2, <1>3

LEMMA ClosureStepInv ==
    ASSUME IInv, ClosureStep
    PROVE  IInv'
<1> USE NAssumption DEF NAssumption, Items, Ended
<1>1. /\ LoopInv' /\ depth \in Items /\ depth' = depth - 1
      /\ UNCHANGED <<next, applyErr, retErr>>
      /\ Attempted' = Attempted /\ (SomeApplyFailed' <=> SomeApplyFailed)
      /\ pc' \in {pc, "panicking"} /\ pc \in {"defers", "panicking"}
      /\ depth \in Attempted
  BY ClosureKeepsLoop
<1>2. WantsRevert(depth) <=> SomeApplyFailed
  BY WantsRevertMeansFailure DEF ClosureStep, DeferSkips, DeferReverts, DeferPanics
<1>3. /\ revertErr' \in [Items -> {"uncalled", "nil", "err", "canceled", "panic"}]
      /\ \A i \in Items : i # depth => revertErr'[i] = revertErr[i]
      /\ isCanceledRevert' \in BOOLEAN
  BY <1>1 DEF IInv, TypeOK, ClosureStep, DeferSkips, DeferReverts, DeferPanics, Cancels
<1>4. revertErr[depth] = "uncalled"
  BY <1>1 DEF IInv, TypeOK, UnwindInv
<1>5. CASE DeferSkips
  <2>1. errs' \subseteq Calls
    BY <1>1, <1>5 DEF IInv, TypeOK, DeferSkips, ApplyErrOf, Calls
  <2>2. TypeOK'
    BY <1>1, <1>3, <2>1 DEF IInv, TypeOK
  <2>3. UnwindInv'
    <3>1. UNCHANGED <<revertErr, isCanceledRevert>>
      BY <1>5 DEF DeferSkips
    <3>2. SomeApplyFailed => \E j \in Canceled : depth < j
      <4>1. SUFFICES ASSUME SomeApplyFailed PROVE \E j \in Canceled : depth < j
        OBVIOUS
      <4>2. PICK j \in Items : revertErr[j] = "canceled"
        BY <1>2, <1>5, <4>1 DEF DeferSkips, IInv, UnwindInv, Canceled
      <4>3. j > depth
        BY <1>1, <4>2 DEF IInv, UnwindInv, TypeOK
      <4> QED
        BY <4>2, <4>3 DEF Canceled
    <3> QED
      BY <1>1, <3>1, <3>2 DEF IInv, TypeOK, UnwindInv, Canceled
  <2>4. ErrsInv'
    BY <1>1, <1>5 DEF IInv, TypeOK, ErrsInv, DeferSkips, ApplyErrOf
  <2> QED
    BY <1>1, <2>2, <2>3, <2>4 DEF IInv
<1>6. ASSUME NEW answer \in {"nil", "err", "canceled", "panic"},
             WantsRevert(depth), ~isCanceledRevert,
             revertErr' = [revertErr EXCEPT ![depth] = answer],
             answer = "panic" => pc' = "panicking",
             isCanceledRevert' <=> answer = "canceled",
             errs' = errs \cup ApplyErrOf(depth)
                     \cup (IF answer = "panic" THEN {} ELSE RevertErrOf(depth, answer))
      PROVE  IInv'
  <2>1. errs' \subseteq Calls
    BY <1>1, <1>6 DEF IInv, TypeOK, ApplyErrOf, RevertErrOf, Calls
  <2>2. TypeOK'
    BY <1>1, <1>3, <2>1 DEF IInv, TypeOK
  <2>3. revertErr'[depth] = answer
    BY <1>1, <1>6 DEF IInv, TypeOK
  <2>4. UnwindInv'
    <3>1. SomeApplyFailed /\ Canceled = {}
      BY <1>2, <1>6 DEF IInv, UnwindInv
    <3>2. Canceled' = IF answer = "canceled" THEN {depth} ELSE {}
      BY <1>1, <1>3, <2>3, <3>1 DEF Canceled
    <3>3. isCanceledRevert' <=> Canceled' # {}
      BY <1>6, <3>2
    <3>4. ASSUME NEW i \in Items
          PROVE  /\ i <= depth' => revertErr'[i] = "uncalled"
                 /\ revertErr'[i] # "uncalled" => i \in Attempted' /\ SomeApplyFailed'
                 /\ (i > depth' /\ i \in Attempted' /\ SomeApplyFailed') =>
                        revertErr'[i] # "uncalled" \/ \E j \in Canceled' : i < j
                 /\ revertErr'[i] = "panic" => pc' \in {"panicking", "panicked"}
      <4>1. CASE i = depth
        BY <1>1, <1>6, <2>3, <3>1, <4>1
      <4>2. CASE i # depth
        BY <1>1, <1>3, <3>1, <4>2 DEF IInv, TypeOK, UnwindInv
      <4> QED
        BY <4>1, <4>2
    <3>5. ASSUME NEW i \in Items, revertErr'[i] = "canceled", NEW j \in Items, j < i
          PROVE  revertErr'[j] = "uncalled"
      <4>1. i = depth
        BY <1>3, <3>1, <3>5 DEF Canceled
      <4> QED
        BY <1>1, <1>3, <3>5, <4>1 DEF IInv, TypeOK, UnwindInv
    <3> QED
      BY <3>3, <3>4, <3>5 DEF UnwindInv
  <2>5. ErrsInv'
    <3>1. ASSUME NEW i \in Items
          PROVE  <<"apply", i>> \in errs' <=> i > depth' /\ applyErr'[i] = "err"
      <4>1. <<"apply", i>> \in errs' <=> <<"apply", i>> \in errs \cup ApplyErrOf(depth)
        BY <1>6 DEF RevertErrOf
      <4>2. <<"apply", i>> \in ApplyErrOf(depth) <=> i = depth /\ applyErr[i] = "err"
        BY DEF ApplyErrOf
      <4>3. <<"apply", i>> \in errs <=> i > depth /\ applyErr[i] = "err"
        BY DEF IInv, ErrsInv
      <4>4. i > depth' <=> i > depth \/ i = depth
        BY <1>1
      <4> QED
        BY <1>1, <4>1, <4>2, <4>3, <4>4
    <3>2. ASSUME NEW i \in Items
          PROVE  <<"revert", i>> \in errs' <=> revertErr'[i] \in {"err", "canceled"}
      <4>1. CASE i = depth
        BY <1>1, <1>4, <1>6, <2>3, <4>1 DEF IInv, TypeOK, ErrsInv, ApplyErrOf, RevertErrOf
      <4>2. CASE i # depth
        BY <1>1, <1>3, <1>6, <4>2 DEF IInv, TypeOK, ErrsInv, ApplyErrOf, RevertErrOf
      <4> QED
        BY <4>1, <4>2
    <3> QED
      BY <1>1, <3>1, <3>2 DEF IInv, ErrsInv, TypeOK
  <2> QED
    BY <1>1, <2>2, <2>4, <2>5 DEF IInv
<1>7. CASE DeferReverts
  <2>1. PICK answer \in {"nil", "err", "canceled"} :
          /\ revertErr' = [revertErr EXCEPT ![depth] = answer]
          /\ errs' = errs \cup ApplyErrOf(depth) \cup RevertErrOf(depth, answer)
          /\ isCanceledRevert' <=> answer = "canceled"
    BY <1>7 DEF DeferReverts, Cancels
  <2> QED
    BY <1>6, <1>7, <2>1 DEF DeferReverts
<1>8. CASE DeferPanics
  BY <1>6, <1>8 DEF DeferPanics
<1> QED
  BY <1>5, <1>7, <1>8 DEF ClosureStep

LEMMA ReturnStepInv ==
    ASSUME IInv, ReturnAggregate
    PROVE  IInv'
<1> USE DEF Ended, ReturnAggregate
<1>1. TypeOK'
  BY DEF IInv, TypeOK
<1>2. LoopInv'
  BY DEF IInv, LoopInv
<1>3. UnwindInv'
  BY DEF IInv, UnwindInv, Attempted, Canceled, SomeApplyFailed
<1>4. ErrsInv'
  BY DEF IInv, ErrsInv
<1> QED
  BY <1>1, <1>2, <1>3, <1>4 DEF IInv

LEMMA StutterInv == ASSUME IInv, UNCHANGED vars PROVE IInv'
BY DEF vars, IInv, TypeOK, LoopInv, UnwindInv, ErrsInv, Attempted, Canceled, SomeApplyFailed

THEOREM Invariance == Spec => []IInv
<1>1. IInv /\ [Next]_vars => IInv'
  <2> SUFFICES ASSUME IInv, [Next]_vars PROVE IInv'
    OBVIOUS
  <2>1. CASE ApplySucceeds \/ ApplyFails \/ ApplyPanics \/ LoopEnds
    BY <2>1, LoopStepInv
  <2>2. CASE DeferSkips \/ DeferReverts \/ DeferPanics
    BY <2>2, ClosureStepInv DEF ClosureStep
  <2>3. CASE ReturnAggregate
    BY <2>3, ReturnStepInv
  <2>4. CASE Done \/ UNCHANGED vars
    BY <2>4, StutterInv DEF Done
  <2> QED
    BY <2>1, <2>2, <2>3, <2>4 DEF Next
<1> QED
  BY <1>1, InitInv, PTL DEF Spec

\* The state stays in the declared sets for a list of any length.
THEOREM TypeCorrect == Spec => []TypeOK
<1>1. IInv => TypeOK
  BY DEF IInv
<1> QED
  BY <1>1, Invariance, PTL

\* After a failed Apply every attempted item is reverted, up to a canceled one.
THEOREM RevertsComplete == Spec => []RevertsReachEveryItem
<1>1. IInv => RevertsReachEveryItem
  <2> SUFFICES ASSUME IInv, pc \in Ended, SomeApplyFailed, NEW i \in Attempted
               PROVE  revertErr[i] # "uncalled" \/ \E j \in Canceled : i < j
    BY DEF RevertsReachEveryItem
  <2>1. i \in Items /\ i > depth
    BY NAssumption DEF NAssumption, IInv, ErrsInv, Attempted, Items
  <2> QED
    BY <2>1 DEF IInv, UnwindInv
<1> QED
  BY <1>1, Invariance, PTL

\* Reverts run from the last item back, and none runs past a canceled one.
THEOREM RevertsOrdered == Spec => []RevertsRunBackwards
<1>1. IInv => RevertsRunBackwards
  <2> SUFFICES ASSUME IInv, NEW i \in Items, revertErr[i] # "uncalled",
                      NEW j \in Attempted, i < j
               PROVE  revertErr[j] \notin {"uncalled", "canceled"}
    BY DEF RevertsRunBackwards
  <2>1. i > depth /\ j > depth /\ j \in Items /\ SomeApplyFailed
    BY NAssumption DEF NAssumption, IInv, TypeOK, UnwindInv, Attempted, Items
  <2>2. revertErr[j] # "canceled"
    BY <2>1 DEF IInv, UnwindInv
  <2>3. ASSUME NEW k \in Canceled PROVE ~(j < k)
    BY NAssumption, <2>1 DEF NAssumption, IInv, UnwindInv, Canceled, Items
  <2> QED
    BY <2>1, <2>2, <2>3 DEF IInv, UnwindInv
<1> QED
  BY <1>1, Invariance, PTL

\* The aggregate is nil exactly for a list applied in full, and hides no error.
THEOREM AggregateComplete == Spec => []AggregateTellsAll
<1>1. IInv => AggregateTellsAll
  <2> SUFFICES ASSUME IInv, pc = "returned" PROVE AggregateTellsAll
    BY DEF AggregateTellsAll
  <2>1. depth = 0 /\ retErr = errs
    BY DEF IInv, ErrsInv, Ended
  <2>2. retErr = ({"apply"} \X {i \in Items : applyErr[i] = "err"})
                 \cup ({"revert"} \X {i \in Items : revertErr[i] \in {"err", "canceled"}})
    <3> DEFINE All == ({"apply"} \X {i \in Items : applyErr[i] = "err"})
                 \cup ({"revert"} \X {i \in Items : revertErr[i] \in {"err", "canceled"}})
    <3>1. ASSUME NEW e \in errs PROVE e \in All
      <4>1. PICK k \in {"apply", "revert"}, i \in Items : e = <<k, i>>
        BY DEF IInv, TypeOK, Calls
      <4> QED
        BY <4>1 DEF IInv, ErrsInv
    <3>2. ASSUME NEW e \in All PROVE e \in errs
      <4>1. CASE e \in {"apply"} \X {i \in Items : applyErr[i] = "err"}
        <5>1. PICK i \in Items : e = <<"apply", i>> /\ applyErr[i] = "err"
          BY <4>1
        <5>2. i > depth
          BY NAssumption, <2>1 DEF NAssumption, Items
        <5> QED
          BY <2>1, <5>1, <5>2 DEF IInv, ErrsInv
      <4>2. CASE e \in {"revert"} \X {i \in Items : revertErr[i] \in {"err", "canceled"}}
        <5>1. PICK i \in Items : e = <<"revert", i>> /\ revertErr[i] \in {"err", "canceled"}
          BY <4>2
        <5> QED
          BY <5>1 DEF IInv, ErrsInv
      <4> QED
        BY <4>1, <4>2
    <3> QED
      BY <2>1, <3>1, <3>2
  <2>3. ASSUME retErr = {}, NEW i \in Items
        PROVE  applyErr[i] = "nil" /\ revertErr[i] = "uncalled"
    <3>1. \A j \in Items : applyErr[j] # "err"
      BY <2>1, <2>3 DEF IInv, ErrsInv, Items
    <3>2. revertErr[i] = "uncalled"
      BY <3>1 DEF IInv, UnwindInv, SomeApplyFailed
    <3>3. next \notin Items
      BY <3>1 DEF IInv, LoopInv
    <3> QED
      BY NAssumption, <3>2, <3>3 DEF NAssumption, IInv, TypeOK, LoopInv, Items
  <2> QED
    BY <2>2, <2>3 DEF AggregateTellsAll
<1> QED
  BY <1>1, Invariance, PTL

---------------------------------------------------------------------------
\* The variables of AllOrNothing as the refinement mapping reads them.
PhaseNow ==
    CASE pc = "apply" -> "doing"
      [] pc = "defers" \/ pc = "panicking" -> "undoing"
      [] pc = "panicked" -> "broken"
      [] OTHER -> IF retErr = {} THEN "committed"
                  ELSE IF LeftInForce = {} THEN "rolledBack"
                  ELSE "leftDirty"
BlamedNow == {i \in Items : <<"revert", i>> \in retErr}

LEMMA PhaseValues ==
    /\ pc = "apply" => PhaseNow = "doing"
    /\ pc \in {"defers", "panicking"} => PhaseNow = "undoing"
    /\ pc = "panicked" => PhaseNow = "broken"
    /\ pc = "returned" => PhaseNow = IF retErr = {} THEN "committed"
                                     ELSE IF LeftInForce = {} THEN "rolledBack"
                                     ELSE "leftDirty"
BY DEF PhaseNow

\* An Apply that ran puts its item in force; one that panicked does not.
LEMMA LoopStepRefines ==
    ASSUME IInv, ApplySucceeds \/ ApplyFails \/ ApplyPanics \/ LoopEnds
    PROVE  [Transaction!Next]_(Transaction!vars)
<1> USE NAssumption DEF NAssumption, Items, MoreItems
<1>1. /\ pc = "apply" /\ UNCHANGED <<revertErr, retErr>>
      /\ \A i \in Items : revertErr[i] = "uncalled"
  BY DEF ApplySucceeds, ApplyFails, ApplyPanics, LoopEnds, IInv, TypeOK, LoopInv,
     UnwindInv, SomeApplyFailed
<1>2. BlamedNow' = BlamedNow
  BY <1>1 DEF BlamedNow
<1>3. LeftInForce = {i \in Items : i < next}
  BY <1>1 DEF LeftInForce, Attempted, IInv, TypeOK, LoopInv
<1>4. CASE ApplySucceeds \/ ApplyFails
  <2>1. LeftInForce' = LeftInForce \cup {next}
    BY <1>1, <1>3, <1>4 DEF LeftInForce, Attempted, IInv, TypeOK, LoopInv, ApplySucceeds, ApplyFails
  <2>2. PhaseNow = "doing" /\ PhaseNow' \in {"doing", "undoing"}
    BY <1>1, <1>4, PhaseValues DEF ApplySucceeds, ApplyFails, PhaseNow
  <2>3. next \in Items /\ LeftInForce = 1..(next - 1)
    BY <1>3, <1>4 DEF ApplySucceeds, ApplyFails, IInv, TypeOK
  <2> QED
    BY <1>2, <2>1, <2>2, <2>3 DEF Transaction!Next, Transaction!Do, Transaction!Items,
       PhaseNow, BlamedNow
<1>5. CASE ApplyPanics \/ LoopEnds
  <2>1. LeftInForce' = LeftInForce
    BY <1>1, <1>5 DEF LeftInForce, Attempted, IInv, TypeOK, LoopInv, ApplyPanics, LoopEnds
  <2>2. PhaseNow = "doing" /\ PhaseNow' = "undoing"
    BY <1>1, <1>5, PhaseValues DEF ApplyPanics, LoopEnds, PhaseNow
  <2> QED
    BY <1>2, <2>1, <2>2 DEF Transaction!Next, Transaction!StartUndo, PhaseNow, BlamedNow
<1> QED
  BY <1>4, <1>5

\* A closure undoes its item, or leaves everything in force as it was.
LEMMA ClosureStepRefines ==
    ASSUME IInv, ClosureStep
    PROVE  [Transaction!Next]_(Transaction!vars)
<1> USE DEF Items
<1>1. /\ depth \in Items /\ UNCHANGED <<applyErr, retErr>>
      /\ Attempted' = Attempted /\ depth \in Attempted
      /\ pc \in {"defers", "panicking"} /\ pc' \in {"defers", "panicking"}
  BY ClosureKeepsLoop DEF ClosureStep, DeferSkips, DeferReverts, DeferPanics, Unwinding
<1>2. PhaseNow = "undoing" /\ PhaseNow' = "undoing" /\ BlamedNow' = BlamedNow
  BY <1>1 DEF PhaseNow, BlamedNow
<1>3. \/ UNCHANGED revertErr
      \/ \E answer \in {"nil", "err", "canceled", "panic"} :
            revertErr' = [revertErr EXCEPT ![depth] = answer]
  BY DEF ClosureStep, DeferSkips, DeferReverts, DeferPanics
<1>4. revertErr[depth] = "uncalled"
  BY <1>1 DEF IInv, TypeOK, UnwindInv
<1>5. \/ UNCHANGED LeftInForce
      \/ depth \in LeftInForce /\ LeftInForce' = LeftInForce \ {depth}
  <2>1. CASE UNCHANGED revertErr
    BY <1>1, <2>1 DEF LeftInForce
  <2>2. ASSUME NEW answer \in {"nil", "err", "canceled", "panic"},
               revertErr' = [revertErr EXCEPT ![depth] = answer]
        PROVE  \/ UNCHANGED LeftInForce
               \/ depth \in LeftInForce /\ LeftInForce' = LeftInForce \ {depth}
    <3>1. \A i \in Items : revertErr'[i] = IF i = depth THEN answer ELSE revertErr[i]
      BY <1>1, <2>2 DEF IInv, TypeOK
    <3> QED
      BY <1>1, <1>4, <3>1 DEF LeftInForce, Attempted
  <2> QED
    BY <1>3, <2>1, <2>2
<1> QED
  BY <1>1, <1>2, <1>5 DEF Transaction!Next, Transaction!Undo, Transaction!Items,
     Transaction!vars, PhaseNow, BlamedNow

\* What the aggregate blames is what is left in force, down to a canceled revert.
LEMMA ReturnStepRefines ==
    ASSUME IInv, ReturnAggregate
    PROVE  [Transaction!Next]_(Transaction!vars)
<1> USE NAssumption DEF NAssumption, Items, Ended
<1>1. /\ depth = 0 /\ retErr = {} /\ retErr' = errs
      /\ UNCHANGED <<applyErr, revertErr>>
      /\ pc \in {"defers", "panicking"}
      /\ pc' = IF pc = "panicking" THEN "panicked" ELSE "returned"
  BY DEF ReturnAggregate, IInv, ErrsInv
<1>2. LeftInForce' = LeftInForce /\ PhaseNow = "undoing" /\ BlamedNow = {}
  BY <1>1 DEF LeftInForce, Attempted, PhaseNow, BlamedNow
<1>3. BlamedNow' = {i \in Items : revertErr[i] \in {"err", "canceled"}}
  BY <1>1 DEF BlamedNow, IInv, ErrsInv
<1>4. BlamedNow' \subseteq LeftInForce
  BY <1>3 DEF LeftInForce, IInv, UnwindInv
<1>5. CASE pc = "panicking"
  <2>1. PhaseNow' = "broken"
    BY <1>1, <1>5 DEF PhaseNow
  <2> QED
    BY <1>2, <1>4, <2>1 DEF Transaction!Next, Transaction!Break, PhaseNow, BlamedNow
<1>6. CASE pc = "defers" /\ errs = {}
  <2>1. PhaseNow' = "committed"
    BY <1>1, <1>6 DEF PhaseNow
  <2>2. \A i \in Items : applyErr[i] # "err" /\ applyErr[i] # "panic"
    BY <1>1, <1>6 DEF IInv, ErrsInv, LoopInv
  <2>3. next \notin Items
    BY <1>6, <2>2 DEF IInv, LoopInv
  <2>4. \A i \in Items : applyErr[i] = "nil" /\ revertErr[i] = "uncalled"
    BY <2>2, <2>3 DEF IInv, TypeOK, LoopInv, UnwindInv, SomeApplyFailed
  <2>5. LeftInForce = Items /\ BlamedNow' = {}
    BY <1>3, <2>4 DEF LeftInForce, Attempted
  <2> QED
    BY <1>2, <2>1, <2>5 DEF Transaction!Next, Transaction!Commit, Transaction!Items,
       PhaseNow, BlamedNow
<1>7. CASE pc = "defers" /\ errs # {} /\ LeftInForce = {}
  <2>1. PhaseNow' = "rolledBack"
    BY <1>1, <1>2, <1>7 DEF PhaseNow
  <2> QED
    BY <1>2, <1>4, <1>7, <2>1 DEF Transaction!Next, Transaction!RollBack, PhaseNow, BlamedNow
<1>8. CASE pc = "defers" /\ errs # {} /\ LeftInForce # {}
  <2>1. PhaseNow' = "leftDirty"
    BY <1>1, <1>2, <1>8 DEF PhaseNow
  <2>2. SomeApplyFailed
    <3>1. PICK e \in errs : TRUE
      BY <1>8
    <3>2. PICK k \in {"apply", "revert"}, i \in Items : e = <<k, i>>
      BY <3>1 DEF IInv, TypeOK, Calls
    <3> QED
      BY <3>1, <3>2 DEF IInv, ErrsInv, UnwindInv, SomeApplyFailed
  <2>3. ASSUME NEW j \in LeftInForce PROVE \E i \in BlamedNow' : j <= i
    <3>1. j \in Items /\ j \in Attempted /\ revertErr[j] \in {"uncalled", "err", "canceled"}
      BY <1>8 DEF LeftInForce, Attempted, IInv, TypeOK, UnwindInv
    <3>2. CASE revertErr[j] = "uncalled"
      BY <1>1, <1>3, <2>2, <3>1, <3>2 DEF IInv, UnwindInv, Canceled
    <3>3. CASE revertErr[j] \in {"err", "canceled"}
      BY <1>3, <3>1, <3>3
    <3> QED
      BY <3>1, <3>2, <3>3
  <2> QED
    BY <1>2, <1>4, <1>8, <2>1, <2>3 DEF Transaction!Next, Transaction!LeaveDirty,
       PhaseNow, BlamedNow
<1> QED
  BY <1>1, <1>5, <1>6, <1>7, <1>8

\* RunRevertables implements the all-or-nothing transaction, for a list of any length.
THEOREM RefinesTransaction == Spec => ImplementsTransaction
<1>1. Init => Transaction!Init
  BY DEF Init, Transaction!Init, LeftInForce, Attempted
<1>2. IInv /\ [Next]_vars => [Transaction!Next]_(Transaction!vars)
  <2> SUFFICES ASSUME IInv, [Next]_vars PROVE [Transaction!Next]_(Transaction!vars)
    OBVIOUS
  <2>1. CASE ApplySucceeds \/ ApplyFails \/ ApplyPanics \/ LoopEnds
    BY <2>1, LoopStepRefines
  <2>2. CASE DeferSkips \/ DeferReverts \/ DeferPanics
    BY <2>2, ClosureStepRefines DEF ClosureStep
  <2>3. CASE ReturnAggregate
    BY <2>3, ReturnStepRefines
  <2>4. CASE Done \/ UNCHANGED vars
    BY <2>4 DEF Done, vars, Transaction!vars, LeftInForce, Attempted
  <2> QED
    BY <2>1, <2>2, <2>3, <2>4 DEF Next
<1> QED
  BY <1>1, <1>2, Invariance, PTL DEF Spec, ImplementsTransaction, Transaction!Spec
===========================================================================
