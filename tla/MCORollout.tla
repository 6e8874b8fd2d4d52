---------------------------- MODULE MCORollout ----------------------------
(***************************************************************************)
(* Replacing the image of the Machine Config Operator on a live cluster:    *)
(* internal/pkg/rollout/rollout.go.  The helper scales the cluster version   *)
(* operator (CVO) and the MCO down, writes the image to the ConfigMap, the   *)
(* DaemonSets and the Deployments from concurrent goroutines, and scales     *)
(* the MCO up again.  The two operators are external: the pod of one lives   *)
(* on for a while after it was scaled down, and writes objects as it likes.  *)
(***************************************************************************)
EXTENDS Naturals, FiniteSets

CONSTANTS
    DaemonSets,      \* mcoDaemonsets
    Deployments,     \* mcoDeployments
    MCO,             \* the machine-config-operator Deployment
    OSBuilder,       \* the machine-os-builder Deployment, which need not exist
    ConfigMap,       \* the images ConfigMap
    Release,         \* the image of the release the cluster runs
    Custom,          \* the other images a caller may ask for
    ConfigMapSteps,  \* attempts of retry.DefaultRetry
    BackoffSteps,    \* attempts of retry.DefaultBackoff
    MaxCalls         \* how many times the helper is run

ASSUME RolloutAssumption ==
    /\ MCO \in Deployments
    /\ ConfigMap \notin Deployments \cup DaemonSets
    /\ Release \notin Custom
    /\ ConfigMapSteps \in Nat \ {0} /\ BackoffSteps \in Nat \ {0} /\ MaxCalls \in Nat

Workloads == DaemonSets \cup Deployments
Objects == {ConfigMap} \cup Workloads
Images == {Release} \cup Custom
Operations == {"replace", "revert", "restart", "forceRestart"}

VARIABLES
    exists,       \* objects present in the cluster
    image,        \* the MCO image each object names
    replicas,     \* spec.replicas of the CVO and of the MCO
    pod,          \* does a pod of the CVO, of the MCO run?
    op, force,    \* the operation called, and its forceRestart
    wanted,       \* pullspec
    pc,           \* the calling goroutine
    g,            \* the goroutine of each object
    stale,        \* objects written by others since their goroutine read them
    tries,        \* attempts of RetryOnConflict so far
    calls,
    foreign       \* history: objects an operator, not the helper, wrote last

clusterVars == <<exists, image, replicas, pod>>
callVars == <<op, force, wanted, calls>>
vars == <<clusterVars, callVars, pc, g, stale, tries, foreign>>

Steps(o) == IF o = ConfigMap THEN ConfigMapSteps ELSE BackoffSteps
Operators == {"cvo", "mco"}
MainSteps == {"prepare", "cvoDown", "mcoDown", "work", "mcoUp", "cvoUp"}
Outcomes == {"ok", "failed", "crashed"}
Working == {"check", "read", "write", "pods"}

TypeOK ==
    /\ exists \subseteq Objects
    /\ image \in [Objects -> Images]
    /\ replicas \in [Operators -> {0, 1}]
    /\ pod \in [Operators -> BOOLEAN]
    /\ op \in Operations /\ force \in BOOLEAN /\ wanted \in Images
    /\ calls \in 0..MaxCalls
    /\ pc \in {"idle"} \cup MainSteps \cup Outcomes
    /\ g \in [Objects -> {"idle", "ok", "failed"} \cup Working]
    /\ stale \subseteq Objects
    /\ tries \in [Objects -> Nat] /\ \A o \in Objects : tries[o] < Steps(o)
    /\ foreign \subseteq Objects

\* A cluster as its release installed it.
Init ==
    /\ exists \in {Objects, Objects \ {OSBuilder}}
    /\ image = [o \in Objects |-> Release]
    /\ replicas = [p \in Operators |-> 1]
    /\ pod = [p \in Operators |-> TRUE]
    /\ op = "replace" /\ force = FALSE /\ wanted = Release
    /\ calls = 0
    /\ pc = "idle"
    /\ g = [o \in Objects |-> "idle"]
    /\ stale = {}
    /\ tries = [o \in Objects |-> 0]
    /\ foreign = {}

---------------------------------------------------------------------------
(* The operators of the cluster (external).                                 *)
Written(objs) ==
    /\ stale' = stale \cup objs
    /\ foreign' = foreign \cup objs

PodFollowsReplicas(p) ==
    /\ pod' = [pod EXCEPT ![p] = replicas[p] = 1]
    /\ UNCHANGED <<exists, image, replicas, callVars, pc, g, stale, tries, foreign>>

\* The CVO restores what the release says of the ConfigMap and the MCO Deployment.
CVOReconciles ==
    /\ pod["cvo"]
    /\ \/ image' = [image EXCEPT ![ConfigMap] = Release] /\ Written({ConfigMap}) /\ UNCHANGED replicas
       \/ /\ image' = [image EXCEPT ![MCO] = Release]
          /\ replicas' = [replicas EXCEPT !["mco"] = 1]
          /\ Written({MCO})
    /\ UNCHANGED <<exists, pod, callVars, pc, g, tries>>

\* The MCO gives the other components the image its ConfigMap names.
MCOReconciles(o) ==
    /\ pod["mco"] /\ o \in (Workloads \cap exists) \ {MCO}
    /\ image' = [image EXCEPT ![o] = image[ConfigMap]]
    /\ Written({o})
    /\ UNCHANGED <<exists, replicas, pod, callVars, pc, g, tries>>

---------------------------------------------------------------------------
(* The calling goroutine.                                                   *)
UnchangedButPc == UNCHANGED <<clusterVars, callVars, g, stale, tries, foreign>>

StartCall ==
    /\ pc \in {"idle"} \cup Outcomes /\ calls < MaxCalls
    /\ calls' = calls + 1
    /\ op' \in Operations
    /\ force' \in IF op' = "restart" THEN {FALSE}
                  ELSE IF op' = "forceRestart" THEN {TRUE} ELSE BOOLEAN
    /\ wanted' \in IF op' = "replace" THEN Images ELSE {wanted}
    /\ pc' = CASE op' = "replace" -> "cvoDown"
               [] op' = "forceRestart" -> "work"
               [] OTHER -> "prepare"
    /\ g' = [o \in Objects |-> IF op' = "forceRestart" /\ o \in Workloads THEN "pods" ELSE "idle"]
    /\ tries' = [o \in Objects |-> 0]
    /\ UNCHANGED <<clusterVars, stale, foreign>>

\* RevertToOriginalMCOImage asks the release for its image, RestartMCO the ConfigMap.
Prepare ==
    /\ pc = "prepare"
    /\ \/ /\ wanted' = IF op = "revert" THEN Release ELSE image[ConfigMap]
          /\ pc' = "cvoDown"
       \/ pc' = "failed" /\ UNCHANGED wanted
    /\ UNCHANGED <<clusterVars, op, force, calls, g, stale, tries, foreign>>

\* setDeploymentReplicas, without a retry: it may fail before or after its effect.
Scale(step, p, n, then) ==
    /\ pc = step
    /\ \/ pc' = then /\ replicas' = [replicas EXCEPT ![p] = n]
       \/ pc' = "failed" /\ replicas' \in {replicas, [replicas EXCEPT ![p] = n]}
    /\ stale' = IF p = "mco" THEN stale \cup {MCO} ELSE stale
    /\ UNCHANGED <<exists, image, pod, callVars, tries, foreign>>

\* setPullspecOnObjects starts a goroutine for every object.
FirstStep(o) == IF o = ConfigMap THEN "check" ELSE "read"
ScaleMCODown ==
    /\ Scale("mcoDown", "mco", 0, "work")
    /\ g' = IF pc' = "work" THEN [o \in Objects |-> FirstStep(o)] ELSE g

ScaleCVODownUnchecked ==
    /\ pc = "cvoDown" /\ pc' = "mcoDown"
    /\ replicas' \in {replicas, [replicas EXCEPT !["cvo"] = 0]}
    /\ UNCHANGED <<exists, image, pod, callVars, g, stale, tries, foreign>>
ScaleCVODown == Scale("cvoDown", "cvo", 0, "mcoDown") /\ UNCHANGED g
ScaleMCOUpAndStop == Scale("mcoUp", "mco", 1, "ok") /\ UNCHANGED g
ScaleMCOUp == Scale("mcoUp", "mco", 1, IF op = "revert" THEN "cvoUp" ELSE "ok") /\ UNCHANGED g
ScaleCVOUp == Scale("cvoUp", "cvo", 1, "ok") /\ UNCHANGED g

\* eg.Wait at every level: all goroutines have ended before the first error counts.
JoinedAtFirstError == (\A o \in Objects : g[o] \notin Working) \/ \E o \in Objects : g[o] = "failed"
Joined == \A o \in Objects : g[o] \notin Working

Join ==
    /\ pc = "work" /\ Joined
    /\ pc' = IF \E o \in Objects : g[o] = "failed" THEN "failed"
             ELSE IF op = "forceRestart" THEN "ok" ELSE "mcoUp"
    /\ UnchangedButPc

\* The process dies, at any point: interrupted, or by a panic in a goroutine.
Crash ==
    /\ pc \in MainSteps
    /\ pc' = "crashed"
    /\ g' = [o \in Objects |-> "idle"]
    /\ UNCHANGED <<clusterVars, callVars, stale, tries, foreign>>

---------------------------------------------------------------------------
(* The goroutine of one object.                                             *)
Goes(o, step) == g' = [g EXCEPT ![o] = step]
UnchangedByGoroutine == UNCHANGED <<exists, replicas, pod, callVars, pc>>

\* Only workloads have pods, and they are deleted only when the caller forces it.
AfterWrite(o) == IF force /\ o # ConfigMap THEN "pods" ELSE "ok"

\* maybeUpdateMCOConfigMap: nothing to write if the image is there already.
CheckConfigMap ==
    /\ g[ConfigMap] = "check"
    /\ \/ Goes(ConfigMap, IF image[ConfigMap] = wanted THEN "ok" ELSE "read")
       \/ Goes(ConfigMap, "failed")
    /\ UNCHANGED <<image, stale, tries, foreign>> /\ UnchangedByGoroutine

Tolerated(o) == o = OSBuilder

Read(o) ==
    /\ g[o] = "read"
    /\ IF o \in exists
       THEN Goes(o, "write") /\ stale' = stale \ {o}
       ELSE Goes(o, IF Tolerated(o) THEN AfterWrite(o) ELSE "failed") /\ UNCHANGED stale
    /\ UNCHANGED <<image, tries, foreign>> /\ UnchangedByGoroutine

\* What Update writes: the image, or the same image with a new restartedAt.
OnlyRestarted(o) == image[o]
NewImage(o) == IF image[o] # wanted THEN wanted ELSE image[o]

Write(o) ==
    /\ g[o] = "write" /\ o \notin stale
    /\ image' = [image EXCEPT ![o] = NewImage(o)]
    /\ foreign' = foreign \ {o}

Update(o) ==
    /\ Write(o)
    /\ Goes(o, AfterWrite(o))
    /\ UNCHANGED <<stale, tries>> /\ UnchangedByGoroutine

\* A conflict: the object changed since it was read, if only in its status.
RetryForever(o) == TRUE
MayRetry(o) == tries[o] + 1 < Steps(o)

Conflict(o) ==
    /\ g[o] = "write"
    /\ IF MayRetry(o)
       THEN Goes(o, "read") /\ tries' = [tries EXCEPT ![o] = IF @ < Steps(o) THEN @ + 1 ELSE @]
       ELSE Goes(o, "failed") /\ UNCHANGED tries
    /\ UNCHANGED <<image, stale, foreign>> /\ UnchangedByGoroutine

\* Any other error ends the goroutine; an Update may have taken effect all the same.
RequestFails(o) ==
    /\ g[o] \in {"read", "write"}
    /\ Goes(o, "failed")
    /\ Write(o) \/ UNCHANGED <<image, foreign>>
    /\ UNCHANGED <<stale, tries>> /\ UnchangedByGoroutine

\* forceRestartPodsForDeploymentOrDaemonset: a pod listed may be gone when it is deleted.
DeletePods(o) ==
    /\ g[o] = "pods"
    /\ Goes(o, "ok") \/ Goes(o, "failed")
    /\ UNCHANGED <<image, stale, tries, foreign>> /\ UnchangedByGoroutine

Goroutine(o) == Read(o) \/ Update(o) \/ Conflict(o) \/ RequestFails(o) \/ DeletePods(o)
Helper ==
    \/ Prepare \/ ScaleCVODown \/ ScaleMCODown \/ Join \/ ScaleMCOUp \/ ScaleCVOUp
    \/ CheckConfigMap \/ \E o \in Objects : Goroutine(o)

Operator ==
    \/ CVOReconciles
    \/ \E p \in Operators : PodFollowsReplicas(p)
    \/ \E o \in Objects : MCOReconciles(o)

Next == StartCall \/ Helper \/ Crash \/ Operator

Spec == Init /\ [][Next]_vars

\* The helper's goroutines are scheduled and each request ends, one way or another.
FairSpec == Spec /\ WF_vars(Helper)

---------------------------------------------------------------------------
\* A call that returns without an error has put the image on every object that
\* exists, but for one that the pod of an operator wrote after the helper did.
SuccessIsEverywhere ==
    (pc = "ok" /\ op # "forceRestart") =>
        \A o \in exists \ foreign : image[o] = wanted

\* Whatever calls failed or died half way, no object the helper gave an image other
\* than the release's is left to a CVO that is scaled up and would fight it.
CustomImageKeepsCVODown ==
    (\E o \in exists \ foreign : image[o] # Release) => replicas["cvo"] = 0

\* The MCO is scaled up, and the call returns, only when no goroutine is left that
\* could write an object, even if one of them failed early.
NoGoroutineOutlivesJoin ==
    pc \notin {"work"} => \A o \in Objects : g[o] \notin Working

\* A call that succeeds leaves the MCO running, after any number of calls that failed
\* or died with both operators scaled down; only a revert brings the CVO back.
SuccessRestoresOperators ==
    (pc = "ok" /\ op # "forceRestart") =>
        /\ replicas["mco"] = 1
        /\ replicas["cvo"] = IF op = "revert" THEN 1 ELSE 0

\* Conflicts are retried a bounded number of times: every call ends.
CallReturns == pc \in MainSteps ~> pc \in Outcomes
===========================================================================
