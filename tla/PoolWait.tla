----------------------------- MODULE PoolWait -----------------------------
(***************************************************************************)
(* Waiting for a MachineConfigPool: internal/pkg/rollout/machineconfigpool. *)
(* A call launches up to three watchers that poll the API server: one waits *)
(* for the pool to start updating, one for it to be Updated, one for every   *)
(* node to reach the configuration the pool asked for when the watch began. *)
(* The cluster (Machine Config Operator, nodes, administrator) is external. *)
(***************************************************************************)
EXTENDS PoolConfigs, FiniteSets

CONSTANTS
    Nodes,        \* names a node of the pool can have
    Modes,        \* entry points called: a subset of AllModes
    Layered,      \* does the pool have a MachineOSConfig?
    MaxChanges,   \* how often the pool may change: another config, or a node that joins
    Deadline,     \* ticks after which the context of the call expires
    Threshold     \* retryableErrThreshold, in ticks

AllModes == {"update", "onlyPool", "onlyNodes", "all"}

ASSUME PoolWaitAssumption ==
    /\ Modes \subseteq AllModes
    /\ Layered \in BOOLEAN
    /\ MaxChanges \in Nat
    /\ Deadline \in Nat
    /\ Threshold \in Nat \ {0}

Watchers == {"start", "pool", "nodes"}
Failures == {"ctx", "api", "unretried", "degraded"}   \* how a watcher can fail
NoErr == -1

VARIABLES
    target,         \* mcp.Spec.Configuration.Name
    built,          \* mosc.Status.CurrentImagePullSpec: the config it is for, 0 = ""
    node,           \* annotations and pool membership of each node
    pool,           \* conditions in mcp.Status
    changes,        \* other configs and joins so far
    now,            \* the clock
    mode,           \* which entry point was called
    call,           \* "none", "listing", "running", "ok" or "failed"
    pc,             \* where each watcher is
    firstErr,       \* timeRetryer.start of each watcher
    snapCfg,        \* the config name the nodes watcher read before it polls
    snapImg,        \* the image it read
    nodesForPool, doneNodes,
    streak,         \* history: first failed query since the last answered one
    updates,        \* history: what the pool reported since the call began
    strayed         \* history: nodes that, once found done, left or were asked for another config

cluster == <<target, built, node, pool, changes>>
watch == <<snapCfg, snapImg, nodesForPool, doneNodes>>
history == <<streak, updates, strayed>>
vars == <<cluster, now, mode, call, pc, firstErr, watch, history>>

\* 0 is the config of another pool.
Configs == 0..MaxTarget
NodeState == [in : BOOLEAN, cfg : Configs, dcfg : Configs, img : Configs,
              dimg : Configs, state : {"Done", "Working", "Degraded"}]
Conditions == [updated : BOOLEAN, updating : BOOLEAN, degraded : BOOLEAN]
Ticks == 0..Deadline
Steps == {"idle", "list", "getPool", "getMosc", "getInitial", "poll", "ok"} \cup Failures

TypeOK ==
    /\ target \in 1..MaxTarget
    /\ built \in Configs
    /\ node \in [Nodes -> NodeState]
    /\ pool \in Conditions
    /\ changes \in 0..MaxChanges
    /\ now \in Ticks
    /\ mode \in AllModes
    /\ call \in {"none", "listing", "running", "ok", "failed"}
    /\ pc \in [Watchers -> Steps]
    /\ firstErr \in [Watchers -> Ticks \cup {NoErr}]
    /\ snapCfg \in Configs /\ snapImg \in Configs
    /\ nodesForPool \subseteq Nodes /\ doneNodes \subseteq Nodes
    /\ streak \in [Watchers -> Ticks \cup {NoErr}]
    /\ updates \in {"none", "updating", "updated"}
    /\ strayed \subseteq Nodes

ImageOf(cfg) == IF Layered THEN cfg ELSE 0
At(cfg, member) == [in |-> member, cfg |-> cfg, dcfg |-> cfg, img |-> ImageOf(cfg),
                    dimg |-> ImageOf(cfg), state |-> "Done"]

\* Nothing is going on in the cluster until somebody asks for a new configuration.
Init ==
    /\ target = 1
    /\ built = ImageOf(1)
    /\ \E members \in SUBSET Nodes :
          node = [n \in Nodes |-> At(IF n \in members THEN 1 ELSE 0, n \in members)]
    /\ pool = [updated |-> TRUE, updating |-> FALSE, degraded |-> FALSE]
    /\ changes = 0
    /\ now = 0
    /\ mode \in Modes
    /\ call = "none"
    /\ pc = [w \in Watchers |-> "idle"]
    /\ firstErr = [w \in Watchers |-> NoErr]
    /\ snapCfg = 0 /\ snapImg = 0
    /\ nodesForPool = {} /\ doneNodes = {}
    /\ streak = [w \in Watchers |-> NoErr]
    /\ updates = "none"
    /\ strayed = {}

Members == {n \in Nodes : node[n].in}

---------------------------------------------------------------------------
(* The cluster (external): modelled from what the watchers read of it.      *)
untouched == <<now, mode, call, pc, firstErr, watch>>

\* A MachineConfig changed: the pool's spec names another rendered config, which may be
\* one it has named before.
NewTarget ==
    /\ changes < MaxChanges
    /\ target' \in (1..MaxTarget) \ {target}
    /\ changes' = changes + 1
    /\ UNCHANGED <<built, node, pool, untouched, history>>

\* The MachineOSBuild of the pool's config succeeded.
BuildImage ==
    /\ Layered /\ built # target
    /\ built' = target
    /\ UNCHANGED <<target, node, pool, changes, untouched, history>>

\* The node controller asks one node for the pool's config (and its image).
AssignNode(n) ==
    /\ node[n].in /\ node[n].state = "Done" /\ node[n].dcfg # target
    /\ Layered => built = target
    /\ node' = [node EXCEPT ![n].dcfg = target, ![n].dimg = ImageOf(target)]
    /\ strayed' = strayed \cup ({n} \cap doneNodes)
    /\ UNCHANGED <<target, built, pool, changes, untouched, streak, updates>>

\* The daemon on a node starts to apply what is desired, finishes, or fails.
DaemonStarts(n) ==
    /\ node[n].in /\ node[n].state # "Working" /\ node[n].cfg # node[n].dcfg
    /\ node' = [node EXCEPT ![n].state = "Working"]
    /\ UNCHANGED <<target, built, pool, changes, untouched, history>>

DaemonFinishes(n) ==
    /\ node[n].in /\ node[n].state = "Working"
    /\ node' = [node EXCEPT ![n].cfg = node[n].dcfg, ![n].img = node[n].dimg,
                            ![n].state = "Done"]
    /\ UNCHANGED <<target, built, pool, changes, untouched, history>>

DaemonFails(n) ==
    /\ node[n].in /\ node[n].state = "Working"
    /\ node' = [node EXCEPT ![n].state = "Degraded"]
    /\ UNCHANGED <<target, built, pool, changes, untouched, history>>

\* A node leaves the pool, or one joins it with another pool's config; a name
\* that left may come back.
NodeLeaves(n) ==
    /\ node[n].in
    /\ node' = [node EXCEPT ![n] = At(0, FALSE)]
    /\ strayed' = strayed \cup ({n} \cap doneNodes)
    /\ UNCHANGED <<target, built, pool, changes, untouched, streak, updates>>

NodeJoins(n) ==
    /\ ~node[n].in /\ changes < MaxChanges
    /\ node' = [node EXCEPT ![n] = At(0, TRUE)]
    /\ changes' = changes + 1
    /\ UNCHANGED <<target, built, pool, untouched, history>>

\* The conditions follow the nodes with a delay: this is when they are written.  A pool
\* that is not Updated need not be Updating: it may be paused.
AllAtTarget ==
    \A n \in Members :
        node[n] = [node[n] EXCEPT !.state = "Done", !.cfg = target, !.dcfg = target]
SyncPoolAs(updating) ==
    /\ pool' = [updated |-> AllAtTarget, updating |-> updating,
                degraded |-> \E n \in Members : node[n].state = "Degraded"]
    /\ updates' = IF call # "running" THEN updates
                  ELSE IF updating /\ updates = "none" THEN "updating"
                  ELSE IF AllAtTarget /\ updates = "updating" THEN "updated"
                  ELSE updates
    /\ UNCHANGED <<target, built, node, changes, untouched, streak, strayed>>
SyncPool == \E updating \in {FALSE, ~AllAtTarget} : SyncPoolAs(updating)

\* What happens to the cluster after the call returned is of no interest here.
Cluster ==
    /\ call \notin {"ok", "failed"}
    /\ \/ NewTarget \/ BuildImage \/ SyncPool
       \/ \E n \in Nodes : \/ AssignNode(n) \/ DaemonStarts(n) \/ DaemonFinishes(n)
                           \/ DaemonFails(n) \/ NodeLeaves(n) \/ NodeJoins(n)

---------------------------------------------------------------------------
(* The call: which watchers an entry point launches, and in which order.    *)
FirstStep(w) == CASE w = "start" -> "poll" [] w = "pool" -> "getInitial" [] w = "nodes" -> "list"
Launched(ws) == [w \in Watchers |-> IF w \in ws THEN FirstStep(w) ELSE pc[w]]
Ended(w) == pc[w] \in Failures \cup {"ok"}

\* The watchers an entry point begins with; "all" lists the pools' names before.
FirstWatchersAtOnce(m) ==
    CASE m = "update" -> {"start", "pool", "nodes"} [] m = "onlyPool" -> {"start"}
      [] m = "onlyNodes" -> {"nodes"} [] m = "all" -> {}
FirstWatchers(m) ==
    CASE m = "update" -> {"start"} [] m = "onlyPool" -> {"start"}
      [] m = "onlyNodes" -> {"nodes"} [] m = "all" -> {}

\* The watchers launched once the pool has begun to update.
SecondWatchers(m) ==
    CASE m = "update" -> {"pool", "nodes"} [] m = "onlyPool" -> {"pool"}
      [] m = "onlyNodes" -> {} [] m = "all" -> {}

StartCall ==
    /\ call = "none"
    /\ call' = IF mode = "all" THEN "listing" ELSE "running"
    /\ pc' = Launched(FirstWatchers(mode))
    /\ updates' = IF pool.updating THEN "updating" ELSE "none"
    /\ UNCHANGED <<cluster, now, mode, firstErr, watch, streak, strayed>>

\* getMachineConfigPoolNames answers with the pool, and both its watchers start;
\* or it fails, which is not retried.
ListPools ==
    /\ call = "listing"
    /\ \/ now < Deadline /\ call' = "running" /\ pc' = Launched({"pool", "nodes"})
       \/ call' = "failed" /\ UNCHANGED pc
    /\ UNCHANGED <<cluster, now, mode, firstErr, watch, history>>

\* The start watcher succeeded: the entry point goes on to wait for the end.
Proceed ==
    /\ call = "running" /\ pc["start"] = "ok"
    /\ \A w \in SecondWatchers(mode) : pc[w] = "idle"
    /\ pc' = Launched(SecondWatchers(mode))
    /\ UNCHANGED <<cluster, now, mode, call, firstErr, watch, history>>

\* errgroup.Wait: no context is shared, so every watcher is waited for, however
\* the first one ended; the call fails if any of them did.
JoinFirstFailure(ws) == (\A w \in ws : Ended(w)) \/ \E w \in ws : pc[w] \in Failures
JoinAll(ws) == \A w \in ws : Ended(w)

Return ==
    LET running == {w \in Watchers : pc[w] # "idle"}
        onlyStarted == running = {"start"} /\ pc["start"] = "ok"
    IN  /\ call = "running" /\ ~onlyStarted
        /\ JoinAll(running)
        /\ call' = IF \E w \in running : pc[w] \in Failures THEN "failed" ELSE "ok"
        /\ UNCHANGED <<cluster, now, mode, pc, firstErr, watch, history>>

---------------------------------------------------------------------------
(* Queries before a watcher polls: any error ends the watcher.               *)
Answered == now < Deadline
To(w, step) == pc' = [pc EXCEPT ![w] = step]
Preludes == {"list", "getPool", "getMosc", "getInitial"}

PreludeFails(w) ==
    /\ pc[w] \in Preludes
    /\ To(w, IF Answered THEN "unretried" ELSE "ctx")
    /\ UNCHANGED <<cluster, now, mode, call, firstErr, watch, history>>

GetInitialPool ==
    /\ pc["pool"] = "getInitial" /\ Answered
    /\ To("pool", "poll")
    /\ UNCHANGED <<cluster, now, mode, call, firstErr, watch, history>>

ListNodesOfPool ==
    /\ pc["nodes"] = "list" /\ Answered
    /\ nodesForPool' = Members
    /\ To("nodes", "getPool")
    /\ UNCHANGED <<cluster, now, mode, call, firstErr, snapCfg, snapImg, doneNodes, history>>

GetPoolOfNodes ==
    /\ pc["nodes"] = "getPool" /\ Answered
    /\ snapCfg' = target
    /\ To("nodes", "getMosc")
    /\ UNCHANGED <<cluster, now, mode, call, firstErr, snapImg, nodesForPool, doneNodes, history>>

GetMachineOSConfigForPool ==
    /\ pc["nodes"] = "getMosc" /\ Answered
    /\ snapImg' = built
    /\ To("nodes", "poll")
    /\ UNCHANGED <<cluster, now, mode, call, firstErr, snapCfg, nodesForPool, doneNodes, history>>

---------------------------------------------------------------------------
(* A query inside a poll, and handleQueryErr with the watcher's timeRetryer. *)
NotCleared(w) == firstErr[w]
Cleared(w) == NoErr

Started(w) == IF firstErr[w] = NoErr THEN now ELSE firstErr[w]
IsReached(w) == now - Started(w) >= Threshold

\* The query was answered: what the watcher does next is next(w), or it polls again.
QueryAnswered(w) ==
    /\ pc[w] = "poll" /\ Answered
    /\ firstErr' = [firstErr EXCEPT ![w] = Cleared(w)]
    /\ streak' = [streak EXCEPT ![w] = NoErr]
    /\ UNCHANGED <<cluster, now, mode, call, updates, strayed>>

\* A retryable error: the watcher polls again until the threshold is reached.
QueryFails(w) ==
    /\ pc[w] = "poll" /\ Answered
    /\ firstErr' = [firstErr EXCEPT ![w] = Started(w)]
    /\ streak' = [streak EXCEPT ![w] = IF @ = NoErr THEN now ELSE @]
    /\ To(w, IF IsReached(w) THEN "api" ELSE "poll")
    /\ UNCHANGED <<cluster, now, mode, call, watch, updates, strayed>>

\* The context expired, in the query or in the poll loop between two queries: an
\* error of the context is not retryable.
ExpiryRetried == "poll"
Expiry == "ctx"
PollExpires(w) ==
    /\ pc[w] = "poll" /\ ~Answered
    /\ To(w, Expiry)
    /\ UNCHANGED <<cluster, now, mode, call, firstErr, watch, history>>

\* Both pool watchers stop at a degraded pool, the condition they wait for first.
PoolVerdict(waitedFor) ==
    IF waitedFor THEN "ok" ELSE IF pool.degraded THEN "degraded" ELSE "poll"

PollStart ==
    /\ QueryAnswered("start")
    /\ To("start", PoolVerdict(pool.updating))
    /\ UNCHANGED watch

PollPool ==
    /\ QueryAnswered("pool")
    /\ To("pool", PoolVerdict(pool.updated))
    /\ UNCHANGED watch

isNodeDone(n) == node[n].state = "Done"
isNodeConfigDone(n) == isNodeDone(n) /\ node[n].cfg = node[n].dcfg
isNodeImageDone(n) == isNodeDone(n) /\ node[n].img = node[n].dimg
isNodeDoneAtAnyConfig(n) == isNodeConfigDone(n) /\ isNodeImageDone(n)
isNodeDoneAtPool(n) ==
    isNodeConfigDone(n) /\ isNodeImageDone(n) /\ node[n].cfg = snapCfg
isNodeDoneAtMoscByImage(n) == isNodeImageDone(n) /\ node[n].dimg # 0
isNodeDoneAtMosc(n) ==
    isNodeImageDone(n) /\ node[n].dimg = snapImg /\ node[n].dimg # 0 /\ node[n].img # 0

DoneAtOne(n) == IF Layered THEN isNodeDoneAtMosc(n) ELSE isNodeDoneAtPool(n)
Done(n) == isNodeDoneAtPool(n) /\ (Layered => isNodeDoneAtMosc(n))

\* No node is ever removed from the set the watcher waits for.
GainedNodesForgotten == nodesForPool
GainedNodes == nodesForPool \cup Members

\* The nodes of the list that the poll examines.
ExaminedIfUnseen == Members \ nodesForPool
Examined == Members \ doneNodes

PollNodes ==
    /\ QueryAnswered("nodes")
    /\ nodesForPool' = GainedNodes
    /\ doneNodes' = doneNodes \cup {n \in Examined : Done(n)}
    /\ To("nodes", IF doneNodes' = nodesForPool' THEN "ok" ELSE "poll")
    /\ UNCHANGED <<snapCfg, snapImg>>

Tick ==
    /\ call \in {"listing", "running"} /\ now < Deadline
    /\ now' = now + 1
    /\ UNCHANGED <<cluster, mode, call, pc, firstErr, watch, history>>

WatcherStep ==
    \/ \E w \in Watchers : PreludeFails(w) \/ QueryFails(w) \/ PollExpires(w)
    \/ GetInitialPool \/ ListNodesOfPool \/ GetPoolOfNodes \/ GetMachineOSConfigForPool
    \/ PollStart \/ PollPool \/ PollNodes
CallStep == StartCall \/ ListPools \/ Proceed \/ Return

Returned == call \in {"ok", "failed"} /\ UNCHANGED vars

Next == Cluster \/ WatcherStep \/ CallStep \/ Tick \/ Returned

Spec == Init /\ [][Next]_vars

---------------------------------------------------------------------------
\* When the nodes watcher ends well, every node it ever saw is at the config (and image)
\* that the pool asked for when the watch began, whatever the pool asks for now.  The
\* exceptions are those the code makes: a node found done is not looked at again, so one
\* that has since left, or has been asked for another config, may be anywhere, even when
\* the pool has come back to the config of the watch (waitForNodesToComplete).
CompletionSound ==
    pc["nodes"] = "ok" =>
        \A n \in nodesForPool \ strayed :
            /\ n \in Members
            /\ node[n].cfg = snapCfg /\ node[n].state = "Done"
            /\ Layered => node[n].img = snapCfg

\* The config and the image are read one after the other: if a new config and its
\* image arrive in between, the watch cannot end well with any node done.
TornSnapshotNeverCompletes ==
    (Layered /\ pc["nodes"] = "ok" /\ doneNodes # {}) => snapImg = snapCfg

\* The entry points that wait for an update return without an error only after the
\* pool reported Updating, and then Updated, while the call was running.
UpdateSeenThrough ==
    (mode \in {"update", "onlyPool"} /\ call = "ok") => updates = "updated"

\* No watcher outlives its call, although errgroup cancels none when one fails.
NoWatcherLeaks ==
    call \in {"ok", "failed"} => \A w \in Watchers : pc[w] \notin Preludes \cup {"poll"}

\* A watcher gives up on errors only after every query of the last Threshold ticks
\* failed: errors separated by an answered query never add up.
GivesUpAfterThreshold ==
    [][\A w \in Watchers :
          (pc[w] = "poll" /\ pc'[w] = "api") =>
             streak'[w] # NoErr /\ now - streak'[w] >= Threshold]_vars

\* In the poll that ends the nodes watcher every member of the pool is as the watcher wants
\* it at that moment, those that joined since the watch began included, although the poll
\* examines only the nodes not found done before.  What it misses is a member found done
\* by an earlier poll that has left and come back, or been asked for another config, since.
LastPollCoversMembers ==
    [][(pc["nodes"] = "poll" /\ pc'["nodes"] = "ok") =>
          \A n \in Members : Done(n) \/ n \in strayed]_vars

\* A call returns, at its deadline at the latest: it ends wherever time passes.
CallReturns == <>(now = Deadline) => ((call # "none") ~> (call \in {"ok", "failed"}))

\* If the pool comes to rest with every node the watcher waits for done, and the
\* context does not expire, then the nodes watcher ends.
AtRest ==
    /\ now < Deadline /\ pc["nodes"] = "poll"
    /\ nodesForPool \subseteq Members /\ \A n \in Members : Done(n)
RestIsNoticed == ~<>[]AtRest
===========================================================================
