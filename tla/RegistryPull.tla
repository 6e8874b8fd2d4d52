--------------------------- MODULE RegistryPull ---------------------------
(***************************************************************************)
(* cmd/pull-from-imagestream: a run exposes the image registry of a cluster *)
(* (internal/pkg/rollout/external.go), writes a pull secret to a temporary  *)
(* directory, waits for the registry, pulls an image and withdraws what it  *)
(* did.  Any request may fail, which ends the run where it is, and a run    *)
(* may be killed: nothing is undone then.  Runs may overlap; they know      *)
(* nothing of each other.                                                   *)
(***************************************************************************)
EXTENDS Naturals, FiniteSets

CONSTANTS
    Runs,           \* runs of the program, each at most once
    MaxAttempts     \* maxAttempts of waitForRegistryToBeAvailable

ASSUME PullAssumption == MaxAttempts \in Nat

VARIABLES
    route,          \* the Route of the registry: absent, as created, or patched
    service,        \* is there a Service for the registry?
    viewer,         \* may system:anonymous view images?
    internal,       \* runs asked for an image of the registry of the cluster
    pc,             \* the step each run is at
    attempt,        \* i of waitForRegistryToBeAvailable
    dirs,           \* runs whose temporary directory exists
    disturbed,      \* history: runs one request of which failed by itself, or that
                    \* shared the cluster with another run
    uncleared,      \* history: did a run end badly, with no run from begin to end since?
    sawBadEnd       \* history: runs during which some run ended badly

cluster == <<route, service, viewer>>
history == <<disturbed, uncleared, sawBadEnd>>
vars == <<cluster, internal, pc, attempt, dirs, history>>

ExposeSteps == {"getRoute", "expose", "ensureRoute", "patch", "addRole", "getHost"}
SecretSteps == {"listSecrets", "mkdir", "writeSecret"}
WithdrawSteps == {"deleteRoute", "deleteService", "removeRole", "removeDir"}
Steps == {"validate"} \cup ExposeSteps \cup SecretSteps \cup {"inspect", "pull"} \cup WithdrawSteps
Alive == {r \in Runs : pc[r] \in Steps}

TypeOK ==
    /\ route \in {"absent", "created", "patched"}
    /\ service \in BOOLEAN /\ viewer \in BOOLEAN
    /\ internal \subseteq Runs
    /\ pc \in [Runs -> Steps \cup {"idle", "ok", "failed"}]
    /\ attempt \in [Runs -> 0..MaxAttempts]
    /\ dirs \subseteq Runs
    /\ disturbed \subseteq Runs /\ uncleared \in BOOLEAN /\ sawBadEnd \subseteq Runs

\* A cluster whose registry is not exposed.
Init ==
    /\ route = "absent" /\ service = TRUE /\ viewer = FALSE
    /\ internal \in SUBSET Runs
    /\ pc = [r \in Runs |-> "idle"]
    /\ attempt = [r \in Runs |-> 0]
    /\ dirs = {}
    /\ disturbed = {} /\ uncleared = FALSE /\ sawBadEnd = {}

\* The registry operator (external) brings a Service back that was deleted.
OperatorRestoresService ==
    /\ ~service /\ service' = TRUE
    /\ UNCHANGED <<route, viewer, internal, pc, attempt, dirs, history>>

---------------------------------------------------------------------------
Goes(r, step) == pc' = [pc EXCEPT ![r] = step] /\ UNCHANGED <<internal, history>>

\* A request was refused for what the cluster is like, or failed by itself.
EndsBadly(r, byItself) ==
    /\ pc' = [pc EXCEPT ![r] = "failed"]
    /\ disturbed' = IF byItself THEN disturbed \cup {r} ELSE disturbed
    /\ uncleared' = TRUE
    /\ sawBadEnd' = sawBadEnd \cup Alive
    /\ UNCHANGED internal

EndsWell(r) ==
    /\ pc' = [pc EXCEPT ![r] = "ok"]
    /\ uncleared' = (uncleared /\ r \in sawBadEnd)
    /\ UNCHANGED <<internal, disturbed, sawBadEnd>>

Start(r) ==
    /\ pc[r] = "idle"
    /\ pc' = [pc EXCEPT ![r] = "validate"]
    /\ disturbed' = IF Alive = {} THEN disturbed ELSE disturbed \cup Alive \cup {r}
    /\ UNCHANGED <<cluster, internal, attempt, dirs, uncleared, sawBadEnd>>

\* doTheThing: the binaries are there and the pullspec can be parsed.
Validate(r) ==
    /\ pc[r] = "validate"
    /\ Goes(r, "getRoute")
    /\ UNCHANGED <<cluster, attempt, dirs>>

---------------------------------------------------------------------------
(* ExposeClusterImageRegistry                                               *)
GetRouteUnchecked(r) ==
    /\ pc[r] = "getRoute"
    /\ Goes(r, "expose")
    /\ UNCHANGED <<cluster, attempt, dirs>>
GetRoute(r) ==
    /\ pc[r] = "getRoute"
    /\ Goes(r, IF route = "absent" THEN "expose" ELSE "ensureRoute")
    /\ UNCHANGED <<cluster, attempt, dirs>>

\* oc expose refuses a Service that is not there and a Route that is.
Expose(r) ==
    /\ pc[r] = "expose"
    /\ IF service /\ route = "absent"
       THEN route' = "created" /\ Goes(r, "ensureRoute")
       ELSE EndsBadly(r, ~service) /\ UNCHANGED route
    /\ UNCHANGED <<service, viewer, attempt, dirs>>

EnsureRoute(r) ==
    /\ pc[r] = "ensureRoute"
    /\ IF route # "absent" THEN Goes(r, "patch") ELSE EndsBadly(r, FALSE)
    /\ UNCHANGED <<cluster, attempt, dirs>>

PatchRoute(r) ==
    /\ pc[r] = "patch"
    /\ IF route # "absent"
       THEN route' = "patched" /\ Goes(r, "addRole")
       ELSE EndsBadly(r, FALSE) /\ UNCHANGED route
    /\ UNCHANGED <<service, viewer, attempt, dirs>>

AddRole(r) ==
    /\ pc[r] = "addRole"
    /\ viewer' = TRUE
    /\ Goes(r, "getHost")
    /\ UNCHANGED <<route, service, attempt, dirs>>

GetHost(r) ==
    /\ pc[r] = "getHost"
    /\ IF route # "absent" THEN Goes(r, "listSecrets") ELSE EndsBadly(r, FALSE)
    /\ UNCHANGED <<cluster, attempt, dirs>>

---------------------------------------------------------------------------
(* writeBuilderSecretToTempDir, waitForRegistryToBeAvailable, podman pull    *)
ListSecrets(r) ==
    /\ pc[r] = "listSecrets"
    /\ Goes(r, "mkdir")
    /\ UNCHANGED <<cluster, attempt, dirs>>

MkdirTemp(r) ==
    /\ pc[r] = "mkdir"
    /\ dirs' = dirs \cup {r}
    /\ Goes(r, "writeSecret")
    /\ UNCHANGED <<cluster, attempt>>

WriteSecret(r) ==
    /\ pc[r] = "writeSecret"
    /\ Goes(r, "inspect")
    /\ UNCHANGED <<cluster, attempt, dirs>>

\* The registry of the cluster is reached through its Service and a patched Route, any
\* other without them.  That skopeo cannot reach it, and nothing else, is tried again.
Reachable(r) == r \in internal => service /\ route = "patched"

Inspect(r) ==
    /\ pc[r] = "inspect" /\ Reachable(r)
    /\ Goes(r, "pull")
    /\ UNCHANGED <<cluster, attempt, dirs>>

InspectAgain(r) ==
    /\ pc[r] = "inspect"
    /\ IF attempt[r] < MaxAttempts
       THEN attempt' = [attempt EXCEPT ![r] = @ + 1] /\ UNCHANGED <<internal, pc, history>>
       ELSE EndsBadly(r, TRUE) /\ UNCHANGED attempt
    /\ UNCHANGED <<cluster, dirs>>

Pull(r) ==
    /\ pc[r] = "pull"
    /\ IF Reachable(r) THEN Goes(r, "deleteRoute") ELSE EndsBadly(r, FALSE)
    /\ UNCHANGED <<cluster, attempt, dirs>>

---------------------------------------------------------------------------
(* UnexposeClusterImageRegistry, and the temporary directory                 *)
DeleteRoute(r) ==
    /\ pc[r] = "deleteRoute"
    /\ route' = "absent"
    /\ Goes(r, "deleteService")
    /\ UNCHANGED <<service, viewer, attempt, dirs>>

DeleteService(r) ==
    /\ pc[r] = "deleteService"
    /\ service' = FALSE
    /\ Goes(r, "removeRole")
    /\ UNCHANGED <<route, viewer, attempt, dirs>>

RoleForgotten(r) ==
    /\ pc[r] = "removeRole"
    /\ Goes(r, "removeDir")
    /\ UNCHANGED <<cluster, attempt, dirs>>

\* oc policy refuses to take a role from a group that does not have it.
RemoveRole(r) ==
    /\ pc[r] = "removeRole"
    /\ IF viewer THEN viewer' = FALSE /\ Goes(r, "removeDir")
                 ELSE EndsBadly(r, FALSE) /\ UNCHANGED viewer
    /\ UNCHANGED <<route, service, attempt, dirs>>

RemoveDir(r) ==
    /\ pc[r] = "removeDir"
    /\ dirs' = dirs \ {r}
    /\ EndsWell(r)
    /\ UNCHANGED <<cluster, attempt>>

---------------------------------------------------------------------------
Step(r) ==
    \/ Validate(r) \/ GetRoute(r) \/ Expose(r) \/ EnsureRoute(r) \/ PatchRoute(r) \/ AddRole(r)
    \/ GetHost(r) \/ ListSecrets(r) \/ MkdirTemp(r) \/ WriteSecret(r) \/ Inspect(r) \/ Pull(r)
    \/ DeleteRoute(r) \/ DeleteService(r) \/ RemoveRole(r) \/ RemoveDir(r)

\* A request or a command fails by itself, or the run is killed, before its effect; or
\* after it, when only the answer is lost.
FailsBefore(r) ==
    /\ pc[r] \in Steps
    /\ EndsBadly(r, TRUE)
    /\ UNCHANGED <<cluster, attempt, dirs>>

FailsAfter(r) ==
    /\ EndsBadly(r, TRUE)
    /\ UNCHANGED attempt
    /\ \/ /\ pc[r] = "expose" /\ service /\ route = "absent"
          /\ route' = "created" /\ UNCHANGED <<service, viewer, dirs>>
       \/ /\ pc[r] = "patch" /\ route # "absent"
          /\ route' = "patched" /\ UNCHANGED <<service, viewer, dirs>>
       \/ pc[r] = "addRole" /\ viewer' = TRUE /\ UNCHANGED <<route, service, dirs>>
       \/ pc[r] = "mkdir" /\ dirs' = dirs \cup {r} /\ UNCHANGED cluster
       \/ pc[r] = "deleteRoute" /\ route' = "absent" /\ UNCHANGED <<service, viewer, dirs>>
       \/ pc[r] = "deleteService" /\ service' = FALSE /\ UNCHANGED <<route, viewer, dirs>>
       \/ pc[r] = "removeRole" /\ viewer' = FALSE /\ UNCHANGED <<route, service, dirs>>

Run(r) == Start(r) \/ Step(r) \/ InspectAgain(r) \/ FailsBefore(r) \/ FailsAfter(r)

Next == OperatorRestoresService \/ \E r \in Runs : Run(r)

Spec == Init /\ [][Next]_vars

---------------------------------------------------------------------------
\* Whatever overlapped, failed or was killed: once a run from begin to end followed
\* the last bad end, and no run is alive, the registry is not exposed any more; a pull
\* secret is left on disk by failed runs only.
ExposureIsWithdrawn ==
    (Alive = {} /\ ~uncleared) =>
        route = "absent" /\ ~viewer /\ \A r \in dirs : pc[r] = "failed"

\* What earlier runs left half exposed or half withdrawn does not stop a later one: a run
\* fails only if one of its own requests did, the registry's Service was missing, or
\* another run was alive at the same time.
UndisturbedRunSucceeds == \A r \in Runs : pc[r] = "failed" => r \in disturbed
===========================================================================
