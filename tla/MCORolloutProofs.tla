-------------------------- MODULE MCORolloutProofs --------------------------
(***************************************************************************)
(* What MCORollout promises after any number of calls that succeeded,       *)
(* failed or died, proved for every set of DaemonSets, Deployments and      *)
(* images, and every number of attempts.                                    *)
(***************************************************************************)
EXTENDS MCORollout, TLAPS

---------------------------------------------------------------------------
(* Types, one kind of step at a time.                                       *)
LEMMA InitTyped == Init => TypeOK
  <1> SUFFICES ASSUME Init PROVE TypeOK
    OBVIOUS
  <1> USE RolloutAssumption DEF RolloutAssumption
  <1>1. exists \subseteq Objects /\ image \in [Objects -> Images]
    BY DEF Init, Images
  <1>2. pod \in [Operators -> BOOLEAN]
    <2>1. pod = [p \in Operators |-> TRUE]
      BY DEF Init
    <2> QED
      BY ONLY <2>1, Zenon
  <1>3. \A o \in Objects : Steps(o) \in Nat \ {0}
    BY DEF Steps
  <1>4. tries \in [Objects -> Nat] /\ \A o \in Objects : tries[o] < Steps(o)
    BY <1>3 DEF Init
  <1>5. /\ wanted \in Images
        /\ force \in BOOLEAN
        /\ calls \in 0..MaxCalls
    <2>1. wanted \in Images
      BY DEF Init, Images
    <2>2. force \in BOOLEAN
      BY DEF Init
    <2>3. calls = 0 /\ MaxCalls \in Nat
      BY DEF Init
    <2> QED
      BY <2>1, <2>2, <2>3
  <1>6. replicas \in [Operators -> {0, 1}]
    BY DEF Init
  <1>7. pc = "idle" /\ g \in [Objects -> {"idle"}] /\ stale = {} /\ foreign = {}
    BY DEF Init
  <1>8. op \in Operations
    BY DEF Init, Operations
  <1> QED
    BY <1>1, <1>2, <1>4, <1>5, <1>6, <1>7, <1>8 DEF TypeOK

LEMMA OperatorTyped == TypeOK /\ Operator => TypeOK'
  <1> SUFFICES ASSUME TypeOK, Operator PROVE TypeOK'
    OBVIOUS
  <1> USE RolloutAssumption DEF RolloutAssumption
  <1> USE DEF TypeOK, callVars
  <1>1. CASE CVOReconciles
    <2>1. MCO \in Objects /\ ConfigMap \in Objects /\ Release \in Images
      BY DEF Objects, Workloads, Images
    <2> QED
      BY <1>1, <2>1 DEF CVOReconciles, Written, Operators
  <1>2. ASSUME NEW p \in Operators, PodFollowsReplicas(p) PROVE TypeOK'
    <2>1. pod' \in [Operators -> BOOLEAN]
      <3>1. pod' = [pod EXCEPT ![p] = (replicas[p] = 1)] /\ pod \in [Operators -> BOOLEAN]
        BY <1>2 DEF PodFollowsReplicas
      <3> QED
        BY ONLY <3>1, Zenon
    <2>2. UNCHANGED <<exists, image, replicas, callVars, pc, g, stale, tries, foreign>>
      BY <1>2 DEF PodFollowsReplicas
    <2> QED
      BY <2>1, <2>2
  <1>3. ASSUME NEW o \in Objects, MCOReconciles(o) PROVE TypeOK'
    <2>1. ConfigMap \in Objects
      BY DEF Objects
    <2> QED
      BY <1>3, <2>1 DEF MCOReconciles, Written
  <1> QED
    BY <1>1, <1>2, <1>3 DEF Operator

LEMMA MainTyped ==
  TypeOK /\ (\/ StartCall \/ Prepare \/ ScaleCVODown \/ ScaleMCODown \/ Join \/ ScaleMCOUp
             \/ ScaleCVOUp \/ Crash) => TypeOK'
  <1> SUFFICES ASSUME TypeOK, \/ StartCall \/ Prepare \/ ScaleCVODown \/ ScaleMCODown \/ Join
                              \/ ScaleMCOUp \/ ScaleCVOUp \/ Crash
               PROVE  TypeOK'
    OBVIOUS
  <1> USE RolloutAssumption DEF RolloutAssumption
  <1> USE DEF TypeOK, callVars, clusterVars, MainSteps, Outcomes, Working
  <1>0. MCO \in Objects /\ ConfigMap \in Objects /\ Release \in Images
        /\ \A o \in Objects : Steps(o) \in Nat \ {0}
    BY DEF Objects, Workloads, Images, Steps
  <1>1. CASE StartCall
    <2>1. op' \in Operations /\ wanted' \in Images /\ calls' \in 0..MaxCalls
      BY <1>1 DEF StartCall
    <2>2. force' \in BOOLEAN
      BY <1>1 DEF StartCall
    <2>3. pc' \in {"cvoDown", "work", "prepare"}
      BY <1>1, <2>1 DEF StartCall, Operations
    <2>4. g' \in [Objects -> {"pods", "idle"}]
      BY <1>1 DEF StartCall
    <2>5. tries' \in [Objects -> Nat] /\ \A o \in Objects : tries'[o] < Steps(o)
      BY <1>1, <1>0 DEF StartCall
    <2>6. UNCHANGED <<exists, image, replicas, pod, stale, foreign>>
      BY <1>1 DEF StartCall
    <2> QED
      BY <2>1, <2>2, <2>3, <2>4, <2>5, <2>6
  <1>2. CASE Prepare
    BY <1>0, <1>2 DEF Prepare
  <1>3. CASE ScaleCVODown
    BY <1>0, <1>3 DEF ScaleCVODown, Scale, Operators
  <1>4. CASE ScaleMCODown
    <2>1. g' \in [Objects -> {"idle", "ok", "failed"} \cup Working]
      BY <1>4 DEF ScaleMCODown, FirstStep
    <2> QED
      BY <1>0, <1>4, <2>1 DEF ScaleMCODown, Scale, Operators
  <1>5. CASE Join
    BY <1>5 DEF Join, UnchangedButPc
  <1>6. CASE ScaleMCOUp
    BY <1>0, <1>6 DEF ScaleMCOUp, Scale, Operators
  <1>7. CASE ScaleCVOUp
    BY <1>0, <1>7 DEF ScaleCVOUp, Scale, Operators
  <1>8. CASE Crash
    <2>1. g' \in [Objects -> {"idle"}]
      BY <1>8 DEF Crash
    <2> QED
      BY <1>8, <2>1 DEF Crash
  <1> QED
    BY <1>1, <1>2, <1>3, <1>4, <1>5, <1>6, <1>7, <1>8

LEMMA GoroutineTyped ==
  ASSUME TypeOK, NEW o \in Objects, Goroutine(o) \/ CheckConfigMap
  PROVE  TypeOK'
  <1> USE RolloutAssumption DEF RolloutAssumption
  <1> USE DEF TypeOK, callVars, Working, UnchangedByGoroutine, Goes, AfterWrite
  <1>0. ConfigMap \in Objects
    BY DEF Objects
  <1>1. CASE CheckConfigMap
    BY <1>0, <1>1 DEF CheckConfigMap
  <1>2. CASE Read(o)
    BY <1>2 DEF Read
  <1>3. ASSUME Write(o) PROVE image' \in [Objects -> Images] /\ foreign' \subseteq Objects
    BY <1>3 DEF Write, NewImage
  <1>4. CASE Update(o)
    BY <1>3, <1>4 DEF Update
  <1>5. CASE Conflict(o)
    <2>1. Steps(o) \in Nat /\ tries[o] \in Nat
      BY DEF Steps
    <2>2. tries' \in [Objects -> Nat] /\ \A x \in Objects : tries'[x] < Steps(x)
      BY <1>5, <2>1 DEF Conflict, MayRetry
    <2> QED
      BY <1>5, <2>2 DEF Conflict
  <1>6. CASE RequestFails(o)
    BY <1>3, <1>6 DEF RequestFails
  <1>7. CASE DeletePods(o)
    BY <1>7 DEF DeletePods
  <1> QED
    BY <1>1, <1>2, <1>4, <1>5, <1>6, <1>7 DEF Goroutine

LEMMA TypeInductive == TypeOK /\ [Next]_vars => TypeOK'
  <1> SUFFICES ASSUME TypeOK, [Next]_vars PROVE TypeOK'
    OBVIOUS
  <1>1. CASE UNCHANGED vars
    BY <1>1 DEF TypeOK, vars, clusterVars, callVars
  <1>2. ASSUME NEW o \in Objects, Goroutine(o) PROVE TypeOK'
    BY <1>2, GoroutineTyped
  <1>3. CASE CheckConfigMap
    <2>1. ConfigMap \in Objects
      BY DEF Objects
    <2> QED
      BY <1>3, <2>1, GoroutineTyped
  <1> QED
    BY <1>1, <1>2, <1>3, OperatorTyped, MainTyped DEF Next, Helper

---------------------------------------------------------------------------
(* What each kind of step leaves alone.                                     *)

\* The operators of the cluster write objects, and scale the MCO up.
LEMMA OperatorFrame ==
  ASSUME TypeOK, Operator
  PROVE  /\ UNCHANGED <<exists, callVars, pc, g>>
         /\ foreign \subseteq foreign'
         /\ \A o \in Objects \ foreign' : image'[o] = image[o]
         /\ replicas'["cvo"] = replicas["cvo"]
         /\ replicas'["mco"] \in {replicas["mco"], 1}
  <1> USE RolloutAssumption DEF RolloutAssumption
  <1> USE DEF TypeOK, callVars, Written, Operators
  <1>1. CASE CVOReconciles
    BY <1>1 DEF CVOReconciles
  <1>2. CASE \E p \in Operators : PodFollowsReplicas(p)
    BY <1>2 DEF PodFollowsReplicas
  <1>3. CASE \E o \in Objects : MCOReconciles(o)
    BY <1>3 DEF MCOReconciles
  <1> QED
    BY <1>1, <1>2, <1>3 DEF Operator

\* A goroutine works on its own object, writes nothing but the image wanted, and ends, or
\* goes on to the pods, with that image in place.
GoroutineEffect(o, step) ==
    /\ UNCHANGED <<exists, replicas, callVars, pc>>
    /\ g[o] \in Working
    /\ g' = [g EXCEPT ![o] = step]
    /\ step \in {"read", "write"} => g[o] \in {"check", "read", "write"}
    /\ \A x \in Objects \ {o} : image'[x] = image[x] /\ (x \in foreign' <=> x \in foreign)
    /\ \/ g[o] = "write" /\ image'[o] = wanted
       \/ image' = image /\ foreign' = foreign
    /\ (step \in {"ok", "pods"} /\ g[o] # "pods" /\ o \in exists \ foreign') => image'[o] = wanted

LEMMA GoroutineFrame ==
  ASSUME TypeOK, NEW o \in Objects, Goroutine(o) \/ (o = ConfigMap /\ CheckConfigMap)
  PROVE  \E step \in {"read", "write", "pods", "ok", "failed"} : GoroutineEffect(o, step)
  <1> USE DEF TypeOK, callVars, Working, UnchangedByGoroutine, Goes, AfterWrite, GoroutineEffect
  <1>1. CASE o = ConfigMap /\ CheckConfigMap
    BY <1>1 DEF CheckConfigMap
  <1>2. CASE Read(o)
    BY <1>2 DEF Read
  <1>3. ASSUME Write(o)
        PROVE  /\ g[o] = "write" /\ image'[o] = wanted
               /\ \A x \in Objects \ {o} : image'[x] = image[x] /\ (x \in foreign' <=> x \in foreign)
    BY <1>3 DEF Write, NewImage
  <1>4. CASE Update(o)
    BY <1>3, <1>4 DEF Update
  <1>5. CASE Conflict(o)
    BY <1>5 DEF Conflict
  <1>6. CASE RequestFails(o)
    BY <1>3, <1>6 DEF RequestFails
  <1>7. CASE DeletePods(o)
    BY <1>7 DEF DeletePods
  <1> QED
    BY <1>1, <1>2, <1>4, <1>5, <1>6, <1>7 DEF Goroutine

---------------------------------------------------------------------------
(* The inductive invariant.                                                 *)

\* A forced restart neither scales nor writes.
ForceInv ==
    /\ pc \in MainSteps \ {"work"} => op # "forceRestart"
    /\ op = "forceRestart" => \A o \in Objects : g[o] \notin {"check", "read", "write"}

\* A revert wants the image of the release, and it alone scales the CVO up.
RevertInv ==
    /\ pc = "cvoUp" => op = "revert"
    /\ (op = "revert" /\ pc \in MainSteps \ {"prepare"}) => wanted = Release

\* The CVO is down for as long as objects are written, the MCO up before the CVO.
OperatorsInv ==
    /\ (pc \in {"mcoDown", "work", "mcoUp"} /\ op # "forceRestart") => replicas["cvo"] = 0
    /\ pc = "cvoUp" => replicas["mco"] = 1

\* An object whose goroutine is past its write has the image wanted; after the join, all do.
WorkInv ==
    /\ (pc = "work" /\ op # "forceRestart") =>
          \A o \in Objects :
             /\ g[o] # "idle"
             /\ (o \in exists \ foreign /\ g[o] \in {"ok", "pods"}) => image[o] = wanted
    /\ pc \in {"mcoUp", "cvoUp"} => \A o \in exists \ foreign : image[o] = wanted

IInv ==
    /\ TypeOK /\ NoGoroutineOutlivesJoin /\ ForceInv /\ RevertInv /\ OperatorsInv /\ WorkInv
    /\ CustomImageKeepsCVODown /\ SuccessRestoresOperators /\ SuccessIsEverywhere

LEMMA InitIInv == Init => IInv
  <1> SUFFICES ASSUME Init PROVE IInv
    OBVIOUS
  <1>1. TypeOK
    BY InitTyped
  <1>2. pc = "idle" /\ exists \subseteq Objects
        /\ \A o \in Objects : g[o] = "idle" /\ image[o] = Release
    BY <1>1 DEF Init, TypeOK
  <1> QED
    BY <1>1, <1>2 DEF IInv, NoGoroutineOutlivesJoin, ForceInv, RevertInv, OperatorsInv, WorkInv,
       CustomImageKeepsCVODown, SuccessRestoresOperators, SuccessIsEverywhere, Working, MainSteps

\* An object's goroutine keeps the invariant.
LEMMA GoroutineInductive ==
  ASSUME IInv, TypeOK', NEW o \in Objects, Goroutine(o) \/ (o = ConfigMap /\ CheckConfigMap)
  PROVE  IInv'
  <1>1. PICK step \in {"read", "write", "pods", "ok", "failed"} : GoroutineEffect(o, step)
    BY GoroutineFrame DEF IInv
  <1> USE DEF GoroutineEffect, callVars, Working
  <1>2. pc = "work" /\ UNCHANGED <<pc, op, wanted, exists, replicas>>
    BY <1>1 DEF IInv, NoGoroutineOutlivesJoin
  <1>3. g'[o] = step /\ \A x \in Objects \ {o} : g'[x] = g[x]
    BY <1>1 DEF IInv, TypeOK
  <1>4. NoGoroutineOutlivesJoin' /\ RevertInv' /\ OperatorsInv' /\ SuccessRestoresOperators'
        /\ SuccessIsEverywhere'
    BY <1>2 DEF IInv, NoGoroutineOutlivesJoin, RevertInv, OperatorsInv, SuccessRestoresOperators,
       SuccessIsEverywhere, MainSteps
  <1>5. ForceInv'
    BY <1>1, <1>2, <1>3 DEF IInv, ForceInv, MainSteps
  <1>6. WorkInv'
    <2> SUFFICES ASSUME op # "forceRestart", NEW x \in Objects
                 PROVE  /\ g'[x] # "idle"
                        /\ (x \in exists \ foreign' /\ g'[x] \in {"ok", "pods"}) => image'[x] = wanted
      BY <1>2 DEF WorkInv
    <2>1. CASE x = o
      BY <1>1, <1>2, <1>3, <2>1 DEF IInv, WorkInv
    <2>2. CASE x # o
      BY <1>1, <1>2, <1>3, <2>2 DEF IInv, WorkInv
    <2> QED
      BY <2>1, <2>2
  <1>7. CustomImageKeepsCVODown'
    <2>1. CASE g[o] = "write"
      BY <1>2, <2>1 DEF IInv, ForceInv, OperatorsInv, CustomImageKeepsCVODown
    <2>2. CASE image' = image /\ foreign' = foreign
      BY <1>2, <2>2 DEF IInv, CustomImageKeepsCVODown
    <2> QED
      BY <1>1, <2>1, <2>2
  <1> QED
    BY <1>4, <1>5, <1>6, <1>7 DEF IInv

\* The operators of the cluster keep the invariant: what they write is theirs.
LEMMA OperatorInductive == ASSUME IInv, TypeOK', Operator PROVE IInv'
  <1>1. /\ UNCHANGED <<exists, callVars, pc, g>>
        /\ foreign \subseteq foreign'
        /\ \A o \in Objects \ foreign' : image'[o] = image[o]
        /\ replicas'["cvo"] = replicas["cvo"]
        /\ replicas'["mco"] \in {replicas["mco"], 1}
    BY OperatorFrame DEF IInv
  <1>2. exists \subseteq Objects
    BY DEF IInv, TypeOK
  <1> USE DEF callVars
  <1>3. NoGoroutineOutlivesJoin' /\ ForceInv' /\ RevertInv'
    BY <1>1 DEF IInv, NoGoroutineOutlivesJoin, ForceInv, RevertInv
  <1>4. OperatorsInv' /\ SuccessRestoresOperators'
    BY <1>1 DEF IInv, OperatorsInv, SuccessRestoresOperators
  <1>5. WorkInv' /\ SuccessIsEverywhere'
    BY <1>1, <1>2 DEF IInv, WorkInv, SuccessIsEverywhere
  <1>6. CustomImageKeepsCVODown'
    BY <1>1, <1>2 DEF IInv, CustomImageKeepsCVODown
  <1> QED
    BY <1>3, <1>4, <1>5, <1>6 DEF IInv

\* The calling goroutine keeps the invariant.
LEMMA MainInductive ==
  ASSUME IInv, TypeOK',
         \/ StartCall \/ Prepare \/ ScaleCVODown \/ ScaleMCODown \/ Join \/ ScaleMCOUp
         \/ ScaleCVOUp \/ Crash
  PROVE  IInv'
  <1> USE DEF IInv, NoGoroutineOutlivesJoin, ForceInv, RevertInv, OperatorsInv, WorkInv,
          CustomImageKeepsCVODown, SuccessRestoresOperators, SuccessIsEverywhere
  <1> USE DEF callVars, clusterVars, MainSteps, Working, Outcomes
  <1>1. CASE StartCall
    <2>1. /\ op' \in Operations /\ UNCHANGED <<exists, image, replicas, foreign>>
          /\ pc' = IF op' = "replace" THEN "cvoDown" ELSE IF op' = "forceRestart" THEN "work"
                   ELSE "prepare"
      BY <1>1 DEF StartCall, Operations
    <2>2. \A o \in Objects : g'[o] \in {"pods", "idle"} /\ (g'[o] = "pods" => op' = "forceRestart")
      BY <1>1 DEF StartCall
    <2> QED
      BY <2>1, <2>2
  <1>2. CASE Prepare
    BY <1>2 DEF Prepare
  <1>3. CASE ScaleCVODown
    BY <1>3 DEF ScaleCVODown, Scale, TypeOK, Operators
  <1>4. CASE ScaleMCODown
    <2>1. /\ pc = "mcoDown" /\ pc' \in {"work", "failed"}
          /\ UNCHANGED <<exists, image, op, wanted, foreign>>
          /\ replicas'["cvo"] = replicas["cvo"]
      BY <1>4 DEF ScaleMCODown, Scale, TypeOK, Operators
    <2>2. IF pc' = "work" THEN \A o \in Objects : g'[o] \in {"check", "read"} ELSE g' = g
      BY <1>4 DEF ScaleMCODown, FirstStep
    <2> QED
      BY <2>1, <2>2
  <1>5. CASE Join
    <2>1. /\ UNCHANGED <<exists, image, op, wanted, foreign, replicas, g>>
          /\ pc = "work" /\ \A o \in Objects : g[o] \notin Working
          /\ pc' \in {"failed", "ok", "mcoUp"}
          /\ pc' \in {"ok", "mcoUp"} => \A o \in Objects : g[o] # "failed"
          /\ pc' = "ok" <=> (op = "forceRestart" /\ pc' # "failed")
      BY <1>5 DEF Join, Joined, UnchangedButPc
    <2>2. (pc' = "mcoUp") => \A o \in exists \ foreign : image[o] = wanted
      BY <2>1 DEF TypeOK
    <2> QED
      BY <2>1, <2>2
  <1>6. CASE ScaleMCOUp
    <2>1. /\ pc = "mcoUp" /\ pc' \in {"failed", "ok", "cvoUp"}
          /\ pc' # "failed" => replicas'["mco"] = 1 /\ (pc' = "cvoUp" <=> op = "revert")
          /\ UNCHANGED <<exists, image, op, wanted, foreign, g>>
          /\ replicas'["cvo"] = replicas["cvo"]
      BY <1>6 DEF ScaleMCOUp, Scale, TypeOK, Operators
    <2> QED
      BY <2>1
  <1>7. CASE ScaleCVOUp
    <2>1. /\ pc = "cvoUp" /\ pc' \in {"failed", "ok"}
          /\ pc' # "failed" => replicas'["cvo"] = 1
          /\ UNCHANGED <<exists, image, op, wanted, foreign, g>>
          /\ replicas'["mco"] = replicas["mco"]
      BY <1>7 DEF ScaleCVOUp, Scale, TypeOK, Operators
    <2>2. \A o \in exists \ foreign : image[o] = Release
      BY <2>1
    <2> QED
      BY <2>1, <2>2
  <1>8. CASE Crash
    <2>1. \A o \in Objects : g'[o] = "idle"
      BY <1>8 DEF Crash
    <2> QED
      BY <1>8, <2>1 DEF Crash
  <1> QED
    BY <1>1, <1>2, <1>3, <1>4, <1>5, <1>6, <1>7, <1>8

\* The invariant the properties follow from, for every cluster and every sequence of calls.
THEOREM Invariance == Spec => []IInv
  <1>1. IInv /\ [Next]_vars => IInv'
    <2> SUFFICES ASSUME IInv, [Next]_vars PROVE IInv'
      OBVIOUS
    <2>0. TypeOK'
      BY TypeInductive DEF IInv
    <2>1. CASE UNCHANGED vars
      BY <2>1 DEF IInv, TypeOK, NoGoroutineOutlivesJoin, ForceInv, RevertInv, OperatorsInv, WorkInv,
         CustomImageKeepsCVODown, SuccessRestoresOperators, SuccessIsEverywhere, vars,
         clusterVars, callVars
    <2>2. ASSUME NEW o \in Objects, Goroutine(o) PROVE IInv'
      BY <2>0, <2>2, GoroutineInductive
    <2>3. CASE CheckConfigMap
      <3>1. ConfigMap \in Objects
        BY DEF Objects
      <3> QED
        BY <2>0, <2>3, <3>1, GoroutineInductive
    <2> QED
      BY <2>0, <2>1, <2>2, <2>3, OperatorInductive, MainInductive DEF Next, Helper
  <1> QED
    BY InitIInv, <1>1, PTL DEF Spec

\* The state stays in its declared sets.
THEOREM TypeCorrect == Spec => []TypeOK
  <1>1. IInv => TypeOK
    BY DEF IInv
  <1> QED
    BY Invariance, <1>1, PTL

\* A call that returns without an error has put the image on every object.
THEOREM ImageIsEverywhere == Spec => []SuccessIsEverywhere
  <1>1. IInv => SuccessIsEverywhere
    BY DEF IInv
  <1> QED
    BY Invariance, <1>1, PTL

\* No object the helper gave a custom image is left to a CVO that is scaled up.
THEOREM CVOStaysDown == Spec => []CustomImageKeepsCVODown
  <1>1. IInv => CustomImageKeepsCVODown
    BY DEF IInv
  <1> QED
    BY Invariance, <1>1, PTL

\* The MCO is scaled up, and the call returns, only when no goroutine is left.
THEOREM JoinIsComplete == Spec => []NoGoroutineOutlivesJoin
  <1>1. IInv => NoGoroutineOutlivesJoin
    BY DEF IInv
  <1> QED
    BY Invariance, <1>1, PTL

\* A call that succeeds leaves the operators as it should, whatever calls came before.
THEOREM OperatorsAreRestored == Spec => []SuccessRestoresOperators
  <1>1. IInv => SuccessRestoresOperators
    BY DEF IInv
  <1> QED
    BY Invariance, <1>1, PTL
===========================================================================
