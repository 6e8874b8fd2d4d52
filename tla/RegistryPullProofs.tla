------------------------- MODULE RegistryPullProofs -------------------------
(***************************************************************************)
(* Theorems about RegistryPull, for any runs and number of attempts.        *)
(***************************************************************************)
EXTENDS RegistryPull, TLAPS

\* The steps up to the one that removes the Route, and up to the one that takes the role.
WithRoute == {"validate"} \cup ExposeSteps \cup SecretSteps \cup {"inspect", "pull", "deleteRoute"}
WithRole == WithRoute \cup {"deleteService", "removeRole"}

\* A bad end that no run has followed from begin to end, whichever of those alive ends next.
Noticed == uncleared /\ Alive \subseteq sawBadEnd

\* The registry is exposed for a run that will withdraw it, or for one that ended badly.
RouteInv == route # "absent" => Noticed \/ \E r \in Runs : pc[r] \in WithRoute
RoleInv == viewer => Noticed \/ \E r \in Runs : pc[r] \in WithRole
DirsInv == \A r \in dirs : pc[r] \in Steps \cup {"failed"}

\* A run that nothing disturbed finds the cluster as its own steps left it.
OwnWork(r) ==
    /\ Alive = {r}
    /\ pc[r] = "expose" => route = "absent"
    /\ pc[r] \in {"ensureRoute", "patch"} => route # "absent"
    /\ pc[r] \in {"addRole", "getHost"} \cup SecretSteps \cup {"inspect", "pull"} => route = "patched"
    /\ pc[r] \in {"getHost"} \cup SecretSteps \cup {"inspect", "pull", "deleteRoute", "deleteService",
                                                   "removeRole"} => viewer
    /\ pc[r] = "pull" => Reachable(r)

UndisturbedInv(r) ==
    /\ (pc[r] \in Steps /\ r \notin disturbed) => OwnWork(r)
    /\ pc[r] = "failed" => r \in disturbed

IInv ==
    /\ TypeOK
    /\ RouteInv /\ RoleInv /\ DirsInv
    /\ \A r \in Runs : UndisturbedInv(r)

---------------------------------------------------------------------------
(* A step of one run.                                                       *)

USE DEF Steps, ExposeSteps, SecretSteps, WithdrawSteps, WithRoute, WithRole

OthersStay(r) == \A q \in Runs \ {r} : pc'[q] = pc[q]

\* A run goes on; those that are alive are the same.
LEMMA GoesOn ==
  ASSUME TypeOK, NEW r \in Runs, pc[r] \in Steps, NEW step \in Steps, Goes(r, step)
  PROVE  /\ pc' \in [Runs -> Steps \cup {"idle", "ok", "failed"}]
         /\ pc'[r] = step /\ OthersStay(r) /\ Alive' = Alive
         /\ UNCHANGED <<internal, disturbed, uncleared, sawBadEnd>>
  <1>1. pc' \in [Runs -> Steps \cup {"idle", "ok", "failed"}] /\ pc'[r] = step /\ OthersStay(r)
    BY DEF TypeOK, Goes, OthersStay
  <1>2. UNCHANGED <<internal, disturbed, uncleared, sawBadEnd>>
    BY DEF Goes, history
  <1>3. Alive' = Alive
    BY <1>1 DEF Alive, OthersStay
  <1> QED
    BY <1>1, <1>2, <1>3

\* A run ends badly; every other run that is alive knows of it.
LEMMA BadEnd ==
  ASSUME TypeOK, NEW r \in Runs, pc[r] \in Steps, NEW byItself \in BOOLEAN, EndsBadly(r, byItself)
  PROVE  /\ pc' \in [Runs -> Steps \cup {"idle", "ok", "failed"}]
         /\ pc'[r] = "failed" /\ OthersStay(r) /\ Alive' = Alive \ {r} /\ Noticed'
         /\ uncleared' \in BOOLEAN /\ sawBadEnd' \subseteq Runs
         /\ disturbed \subseteq disturbed' /\ disturbed' \subseteq Runs
         /\ (byItself => r \in disturbed') /\ UNCHANGED internal
  <1>1. pc' \in [Runs -> Steps \cup {"idle", "ok", "failed"}] /\ pc'[r] = "failed" /\ OthersStay(r)
    BY DEF TypeOK, EndsBadly, OthersStay
  <1>2. Alive' = Alive \ {r}
    BY <1>1 DEF Alive, OthersStay
  <1>3. Alive \subseteq Runs
    BY DEF Alive
  <1> QED
    BY <1>1, <1>2, <1>3 DEF EndsBadly, TypeOK, Noticed

\* An undisturbed run is the only one alive: of no other is anything to be shown.
LEMMA OwnStep ==
  ASSUME IInv, NEW r \in Runs, pc[r] \in Steps, OthersStay(r), disturbed \subseteq disturbed',
         Alive' \subseteq Alive, UndisturbedInv(r)'
  PROVE  \A q \in Runs : UndisturbedInv(q)'
  <1> SUFFICES ASSUME NEW q \in Runs \ {r} PROVE UndisturbedInv(q)'
    OBVIOUS
  <1>1. pc'[q] = pc[q] /\ UndisturbedInv(q) /\ r \in Alive
    BY DEF OthersStay, IInv, Alive
  <1>2. pc[q] \notin Steps \/ q \in disturbed
    BY <1>1 DEF UndisturbedInv, OwnWork
  <1> QED
    BY <1>1, <1>2 DEF UndisturbedInv

\* A run that ends badly keeps the invariants, if it was disturbed.
LEMMA BadEndKeeps ==
  ASSUME IInv, TypeOK', NEW r \in Runs, pc[r] \in Steps, NEW byItself \in BOOLEAN,
         EndsBadly(r, byItself), byItself \/ r \in disturbed, dirs' \subseteq dirs \cup {r}
  PROVE  IInv'
  <1>1. /\ pc'[r] = "failed" /\ OthersStay(r) /\ Alive' = Alive \ {r} /\ Noticed'
        /\ disturbed \subseteq disturbed' /\ r \in disturbed'
    BY BadEnd DEF IInv
  <1>2. UndisturbedInv(r)'
    BY <1>1 DEF UndisturbedInv
  <1>3. \A q \in Runs : UndisturbedInv(q)'
    BY <1>1, <1>2, OwnStep
  <1>4. RouteInv' /\ RoleInv'
    BY <1>1 DEF RouteInv, RoleInv
  <1>5. DirsInv'
    BY <1>1 DEF DirsInv, OthersStay, IInv, TypeOK
  <1> QED
    BY <1>3, <1>4, <1>5 DEF IInv

\* A run that goes on keeps them, if it still withdraws what is there.
LEMMA GoingKeeps ==
  ASSUME IInv, TypeOK', NEW r \in Runs, pc[r] \in Steps, NEW step \in Steps, Goes(r, step),
         dirs' \subseteq dirs \cup {r},
         route' # "absent" => step \in WithRoute \/ (pc[r] \notin WithRoute /\ route # "absent"),
         viewer' => step \in WithRole \/ (pc[r] \notin WithRole /\ viewer),
         (r \notin disturbed /\ Alive = {r}) => OwnWork(r)'
  PROVE  IInv'
  <1>1. /\ pc'[r] = step /\ OthersStay(r) /\ Alive' = Alive
        /\ UNCHANGED <<disturbed, uncleared, sawBadEnd>>
    BY GoesOn DEF IInv
  <1>2. r \notin disturbed => Alive = {r}
    BY DEF IInv, UndisturbedInv, OwnWork
  <1>3. \A q \in Runs : UndisturbedInv(q)'
    <2>1. UndisturbedInv(r)'
      BY <1>1, <1>2 DEF UndisturbedInv
    <2> QED
      BY <1>1, <2>1, OwnStep
  <1>4. RouteInv'
    BY <1>1 DEF IInv, RouteInv, Noticed, OthersStay
  <1>5. RoleInv'
    BY <1>1 DEF IInv, RoleInv, Noticed, OthersStay
  <1>6. DirsInv'
    BY <1>1 DEF IInv, DirsInv, OthersStay, TypeOK
  <1> QED
    BY <1>3, <1>4, <1>5, <1>6 DEF IInv

---------------------------------------------------------------------------
(* The steps.                                                               *)

ClusterTyped ==
    /\ route \in {"absent", "created", "patched"}
    /\ service \in BOOLEAN /\ viewer \in BOOLEAN
    /\ attempt \in [Runs -> 0..MaxAttempts]
    /\ dirs \subseteq Runs

LEMMA GoingTyped ==
  ASSUME TypeOK, ClusterTyped', NEW r \in Runs, pc[r] \in Steps, NEW step \in Steps, Goes(r, step)
  PROVE  TypeOK'
  BY GoesOn DEF TypeOK, ClusterTyped

LEMMA BadEndTyped ==
  ASSUME TypeOK, ClusterTyped', NEW r \in Runs, pc[r] \in Steps, NEW byItself \in BOOLEAN,
         EndsBadly(r, byItself)
  PROVE  TypeOK'
  BY BadEnd DEF TypeOK, ClusterTyped

LEMMA SameCluster ==
  TypeOK /\ UNCHANGED <<cluster, attempt, dirs>> =>
      ClusterTyped' /\ UNCHANGED <<route, service, viewer, attempt, dirs>>
  BY DEF TypeOK, ClusterTyped, cluster

\* What an undisturbed run has done, at its step.
Does(r) == r \notin disturbed => OwnWork(r)

LEMMA OwnWorkHolds ==
  ASSUME IInv, NEW r \in Runs, pc[r] \in Steps
  PROVE  Does(r)
  BY DEF IInv, UndisturbedInv, Does

\* Steps that change nothing of the cluster.
LEMMA ReadingSteps ==
  ASSUME IInv, NEW r \in Runs,
         \/ Validate(r) \/ GetRoute(r) \/ EnsureRoute(r) \/ GetHost(r) \/ ListSecrets(r)
         \/ WriteSecret(r) \/ Inspect(r) \/ Pull(r)
  PROVE  IInv'
  <1>1. /\ pc[r] \in WithRoute \ {"deleteRoute"} /\ TypeOK /\ Does(r)
        /\ ClusterTyped' /\ UNCHANGED <<route, service, viewer, attempt, dirs>>
    BY OwnWorkHolds, SameCluster
       DEF IInv, Validate, GetRoute, EnsureRoute, GetHost, ListSecrets, WriteSecret, Inspect, Pull
  <1>2. ASSUME NEW step \in WithRoute, Goes(r, step), r \notin disturbed => OwnWork(r)'
        PROVE  IInv'
    BY <1>1, <1>2, GoingKeeps, GoingTyped
  <1>3. ASSUME EndsBadly(r, FALSE), r \in disturbed PROVE IInv'
    BY <1>1, <1>3, BadEndKeeps, BadEndTyped
  <1> USE DEF Does, OwnWork, Reachable
  <1>4. ASSUME NEW step \in WithRoute, Goes(r, step)
        PROVE  pc'[r] = step /\ Alive' = Alive /\ internal' = internal
    BY <1>1, <1>4, GoesOn
  <1>5. CASE Validate(r)
    BY <1>1, <1>2, <1>4, <1>5 DEF Validate
  <1>6. CASE GetRoute(r)
    BY <1>1, <1>2, <1>4, <1>6 DEF GetRoute
  <1>7. CASE EnsureRoute(r)
    <2>1. CASE route # "absent"
      BY <1>1, <1>2, <1>3, <1>4, <1>7, <2>1 DEF EnsureRoute
    <2>2. CASE route = "absent"
      BY <1>1, <1>2, <1>3, <1>4, <1>7, <2>2 DEF EnsureRoute
    <2> QED
      BY <2>1, <2>2
  <1>8. CASE GetHost(r)
    <2>1. CASE route # "absent"
      BY <1>1, <1>2, <1>3, <1>4, <1>8, <2>1 DEF GetHost
    <2>2. CASE route = "absent"
      BY <1>1, <1>2, <1>3, <1>4, <1>8, <2>2 DEF GetHost
    <2> QED
      BY <2>1, <2>2
  <1>9. CASE ListSecrets(r) \/ WriteSecret(r)
    BY <1>1, <1>2, <1>4, <1>9 DEF ListSecrets, WriteSecret
  <1>10. CASE Inspect(r)
    BY <1>1, <1>2, <1>4, <1>10 DEF Inspect
  <1>11. CASE Pull(r)
    <2>1. CASE Reachable(r)
      <3>1. pc[r] = "pull" /\ Goes(r, "deleteRoute")
        BY <1>11, <2>1 DEF Pull
      <3>2. pc'[r] = "deleteRoute" /\ Alive' = Alive
        BY <1>4, <3>1
      <3> QED
        BY <1>1, <1>2, <3>1, <3>2
    <2>2. CASE ~Reachable(r)
      BY <1>1, <1>2, <1>3, <1>4, <1>11, <2>2 DEF Pull
    <2> QED
      BY <2>1, <2>2
  <1> QED
    BY <1>5, <1>6, <1>7, <1>8, <1>9, <1>10, <1>11

\* Steps that expose the registry, or make the directory.
LEMMA ExposingSteps ==
  ASSUME IInv, NEW r \in Runs, Expose(r) \/ PatchRoute(r) \/ AddRole(r) \/ MkdirTemp(r)
  PROVE  IInv'
  <1>1. pc[r] \in WithRoute \ {"deleteRoute"} /\ TypeOK /\ Does(r)
    BY OwnWorkHolds DEF IInv, Expose, PatchRoute, AddRole, MkdirTemp
  <1>2. ClusterTyped' /\ dirs' \subseteq dirs \cup {r}
    BY <1>1 DEF Expose, PatchRoute, AddRole, MkdirTemp, cluster, TypeOK, ClusterTyped
  <1>3. ASSUME NEW step \in WithRoute, Goes(r, step), r \notin disturbed => OwnWork(r)'
        PROVE  IInv'
    BY <1>1, <1>2, <1>3, GoingKeeps, GoingTyped
  <1>4. ASSUME NEW byItself \in BOOLEAN, EndsBadly(r, byItself), byItself \/ r \in disturbed
        PROVE  IInv'
    BY <1>1, <1>2, <1>4, BadEndKeeps, BadEndTyped
  <1> USE DEF Does, OwnWork, Reachable
  <1>5. ASSUME NEW step \in WithRoute, Goes(r, step)
        PROVE  pc'[r] = step /\ Alive' = Alive /\ internal' = internal
    BY <1>1, <1>5, GoesOn
  <1>6. CASE Expose(r)
    <2>1. CASE service /\ route = "absent"
      BY <1>1, <1>3, <1>4, <1>5, <1>6, <2>1 DEF Expose, TypeOK
    <2>2. CASE ~(service /\ route = "absent")
      BY <1>1, <1>3, <1>4, <1>5, <1>6, <2>2 DEF Expose, TypeOK
    <2> QED
      BY <2>1, <2>2
  <1>7. CASE PatchRoute(r)
    <2>1. CASE route # "absent"
      BY <1>1, <1>3, <1>4, <1>5, <1>7, <2>1 DEF PatchRoute
    <2>2. CASE route = "absent"
      BY <1>1, <1>3, <1>4, <1>5, <1>7, <2>2 DEF PatchRoute
    <2> QED
      BY <2>1, <2>2
  <1>8. CASE AddRole(r)
    BY <1>1, <1>3, <1>5, <1>8 DEF AddRole
  <1>9. CASE MkdirTemp(r)
    BY <1>1, <1>3, <1>5, <1>9 DEF MkdirTemp, cluster
  <1> QED
    BY <1>6, <1>7, <1>8, <1>9

\* skopeo tries again, and gives up.
LEMMA InspectsAgain ==
  ASSUME IInv, NEW r \in Runs, InspectAgain(r)
  PROVE  IInv'
  <1>1. /\ TypeOK /\ pc[r] = "inspect"
        /\ UNCHANGED <<route, service, viewer, dirs>>
    BY DEF IInv, InspectAgain, cluster
  <1>2. CASE EndsBadly(r, TRUE) /\ UNCHANGED attempt
    <2>1. ClusterTyped'
      BY <1>1, <1>2 DEF TypeOK, ClusterTyped
    <2> QED
      BY <1>1, <1>2, <2>1, BadEndKeeps, BadEndTyped
  <1>3. CASE /\ attempt[r] < MaxAttempts /\ attempt' = [attempt EXCEPT ![r] = @ + 1]
             /\ UNCHANGED <<internal, pc, history>>
    <2>1. UNCHANGED <<disturbed, uncleared, sawBadEnd, pc, internal>>
      BY <1>3 DEF history
    <2>2. attempt' \in [Runs -> 0..MaxAttempts]
      BY <1>1, <1>3, PullAssumption DEF TypeOK
    <2> QED
      BY <1>1, <2>1, <2>2 DEF IInv, TypeOK, RouteInv, RoleInv, DirsInv, UndisturbedInv, OwnWork,
         Alive, Noticed, Reachable
  <1> QED
    BY <1>1, <1>2, <1>3 DEF InspectAgain

\* Steps that withdraw the exposure.
LEMMA WithdrawingSteps ==
  ASSUME IInv, NEW r \in Runs, DeleteRoute(r) \/ DeleteService(r) \/ RemoveRole(r)
  PROVE  IInv'
  <1>1. pc[r] \in {"deleteRoute", "deleteService", "removeRole"} /\ TypeOK /\ Does(r)
        /\ UNCHANGED dirs
    BY OwnWorkHolds DEF IInv, DeleteRoute, DeleteService, RemoveRole
  <1>2. ClusterTyped'
    BY <1>1 DEF DeleteRoute, DeleteService, RemoveRole, TypeOK, ClusterTyped
  <1>3. ASSUME NEW step \in Steps, Goes(r, step)
        PROVE  pc'[r] = step /\ Alive' = Alive /\ TypeOK'
    BY <1>1, <1>2, <1>3, GoesOn, GoingTyped
  <1>4. CASE DeleteRoute(r)
    BY <1>1, <1>3, <1>4, GoingKeeps DEF DeleteRoute, Does, OwnWork
  <1>5. CASE DeleteService(r)
    BY <1>1, <1>3, <1>5, GoingKeeps DEF DeleteService, Does, OwnWork
  <1>6. CASE RemoveRole(r)
    <2>1. CASE viewer
      BY <1>1, <1>3, <1>6, <2>1, GoingKeeps DEF RemoveRole, Does, OwnWork
    <2>2. CASE ~viewer
      <3>1. EndsBadly(r, FALSE) /\ r \in disturbed
        BY <1>1, <1>6, <2>2 DEF RemoveRole, Does, OwnWork
      <3> QED
        BY <1>1, <1>2, <3>1, BadEndKeeps, BadEndTyped
    <2> QED
      BY <2>1, <2>2
  <1> QED
    BY <1>4, <1>5, <1>6

\* A run that saw a bad end clears nothing; one that saw none ends with nothing exposed for
\* an earlier one.
LEMMA RemovesDir ==
  ASSUME IInv, NEW r \in Runs, RemoveDir(r)
  PROVE  IInv'
  <1>1. /\ TypeOK /\ pc[r] = "removeDir" /\ pc' = [pc EXCEPT ![r] = "ok"]
        /\ uncleared' = (uncleared /\ r \in sawBadEnd) /\ dirs' = dirs \ {r}
        /\ UNCHANGED <<route, service, viewer, attempt, internal, disturbed, sawBadEnd>>
    BY DEF IInv, RemoveDir, EndsWell, cluster
  <1>2. pc'[r] = "ok" /\ OthersStay(r) /\ Alive' = Alive \ {r} /\ r \in Alive
    BY <1>1 DEF TypeOK, OthersStay, Alive
  <1>3. Noticed => Noticed'
    BY <1>1, <1>2 DEF Noticed
  <1>4. TypeOK'
    BY <1>1 DEF TypeOK
  <1>5. UndisturbedInv(r)'
    BY <1>2 DEF UndisturbedInv
  <1>6. \A q \in Runs : UndisturbedInv(q)'
    BY <1>1, <1>2, <1>5, OwnStep
  <1>7. RouteInv' /\ RoleInv'
    BY <1>1, <1>2, <1>3 DEF IInv, RouteInv, RoleInv, OthersStay
  <1>8. DirsInv'
    BY <1>1, <1>2 DEF IInv, DirsInv, OthersStay, TypeOK
  <1> QED
    BY <1>4, <1>6, <1>7, <1>8 DEF IInv

\* A run that starts may find what another left, and is disturbed if another is alive.
LEMMA Starts ==
  ASSUME IInv, NEW r \in Runs, Start(r)
  PROVE  IInv'
  <1>1. /\ TypeOK /\ pc[r] = "idle" /\ pc' = [pc EXCEPT ![r] = "validate"]
        /\ disturbed' = IF Alive = {} THEN disturbed ELSE disturbed \cup Alive \cup {r}
        /\ UNCHANGED <<route, service, viewer, attempt, internal, dirs, uncleared, sawBadEnd>>
    BY DEF IInv, Start, cluster
  <1>2. pc'[r] = "validate" /\ OthersStay(r) /\ Alive' = Alive \cup {r} /\ Alive \subseteq Runs
    BY <1>1 DEF TypeOK, OthersStay, Alive
  <1>3. TypeOK'
    BY <1>1, <1>2 DEF TypeOK
  <1>4. RouteInv' /\ RoleInv'
    BY <1>2 DEF RouteInv, RoleInv
  <1>5. DirsInv'
    BY <1>1, <1>2 DEF IInv, DirsInv, OthersStay, TypeOK
  <1>6. ASSUME NEW q \in Runs PROVE UndisturbedInv(q)'
    <2>1. CASE q = r
      BY <1>1, <1>2, <2>1 DEF UndisturbedInv, OwnWork
    <2>2. CASE q # r /\ pc[q] \in Steps
      BY <1>1, <1>2, <2>2 DEF UndisturbedInv, OthersStay, Alive
    <2>3. CASE q # r /\ pc[q] \notin Steps
      BY <1>1, <1>2, <2>3 DEF IInv, UndisturbedInv, OthersStay
    <2> QED
      BY <2>1, <2>2, <2>3
  <1> QED
    BY <1>3, <1>4, <1>5, <1>6 DEF IInv

\* A request that fails, or a run that is killed.
LEMMA Fails ==
  ASSUME IInv, NEW r \in Runs, FailsBefore(r) \/ FailsAfter(r)
  PROVE  IInv'
  <1>1. TypeOK /\ pc[r] \in Steps /\ EndsBadly(r, TRUE)
    BY DEF IInv, FailsBefore, FailsAfter
  <1>2. ClusterTyped' /\ dirs' \subseteq dirs \cup {r}
    BY <1>1 DEF FailsBefore, FailsAfter, cluster, TypeOK, ClusterTyped
  <1> QED
    BY <1>1, <1>2, BadEndKeeps, BadEndTyped

---------------------------------------------------------------------------
LEMMA Initially == Init => IInv
  <1> SUFFICES ASSUME Init PROVE IInv
    OBVIOUS
  <1>1. TypeOK
    <2>1. attempt \in [Runs -> 0..MaxAttempts]
      BY PullAssumption DEF Init
    <2>2. pc \in [Runs -> Steps \cup {"idle", "ok", "failed"}]
      BY DEF Init
    <2> QED
      BY <2>1, <2>2 DEF Init, TypeOK
  <1> QED
    BY <1>1 DEF IInv, Init, RouteInv, RoleInv, DirsInv, UndisturbedInv

LEMMA Preserved == IInv /\ [Next]_vars => IInv'
  <1> SUFFICES ASSUME IInv, [Next]_vars PROVE IInv'
    OBVIOUS
  <1>1. CASE OperatorRestoresService \/ UNCHANGED vars
    <2>1. UNCHANGED <<route, viewer, internal, pc, attempt, dirs, disturbed, uncleared, sawBadEnd>>
          /\ (service => service') /\ service' \in BOOLEAN
      BY <1>1 DEF OperatorRestoresService, vars, cluster, history, IInv, TypeOK
    <2> QED
      BY <2>1 DEF IInv, TypeOK, RouteInv, RoleInv, DirsInv, UndisturbedInv, OwnWork, Alive,
         Noticed, Reachable
  <1>2. ASSUME NEW r \in Runs, Step(r) PROVE IInv'
    BY <1>2, ReadingSteps, ExposingSteps, WithdrawingSteps, RemovesDir DEF Step
  <1>3. ASSUME NEW r \in Runs, Start(r) \/ InspectAgain(r) \/ FailsBefore(r) \/ FailsAfter(r)
        PROVE  IInv'
    BY <1>3, Starts, InspectsAgain, Fails
  <1> QED
    BY <1>1, <1>2, <1>3 DEF Next, Run

\* Every variable has its type, wherever a run fails or is killed.
THEOREM TypeCorrect == Spec => []TypeOK
  <1>1. IInv => TypeOK
    BY DEF IInv
  <1> QED
    BY <1>1, Initially, Preserved, PTL DEF Spec

\* What is still exposed is so for a run that is alive or for a bad end that no whole run has
\* followed: after one did, nothing is.
THEOREM ExposureWithdrawn == Spec => []ExposureIsWithdrawn
  <1>1. IInv => ExposureIsWithdrawn
    <2> SUFFICES ASSUME IInv, Alive = {}, ~uncleared
                 PROVE  route = "absent" /\ ~viewer /\ \A r \in dirs : pc[r] = "failed"
      BY DEF ExposureIsWithdrawn
    <2>1. \A r \in Runs : pc[r] \notin Steps
      BY DEF Alive
    <2>2. route = "absent" /\ ~viewer
      BY <2>1 DEF IInv, RouteInv, RoleInv, Noticed
    <2> QED
      BY <2>1, <2>2 DEF IInv, DirsInv, TypeOK
  <1> QED
    BY <1>1, Initially, Preserved, PTL DEF Spec

\* A run fails only by itself, or by a run that was alive with it, whatever state of the
\* cluster it started from.
THEOREM UndisturbedSucceed == Spec => []UndisturbedRunSucceeds
  <1>1. IInv => UndisturbedRunSucceeds
    BY DEF IInv, UndisturbedInv, UndisturbedRunSucceeds
  <1> QED
    BY <1>1, Initially, Preserved, PTL DEF Spec
=============================================================================
