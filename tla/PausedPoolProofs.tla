-------------------------- MODULE PausedPoolProofs --------------------------
(***************************************************************************)
(* What a wait for a pool promises of a call, what the helpers that pause    *)
(* pools do to it, and that the composition implements both, so that what is *)
(* proved of them holds of it: for any nodes, configs and changes of them,   *)
(* deadline, threshold and helpers.                                         *)
(***************************************************************************)
EXTENDS PausedPool, TLAPS

---------------------------------------------------------------------------
(* Types.                                                                   *)
LEMMA InitTyped == Init => TypeOK
  <1> SUFFICES ASSUME Init PROVE TypeOK
    OBVIOUS
  <1> USE PoolWaitAssumption, ConfigAssumption DEF PoolWaitAssumption
  <1>2. node \in [Nodes -> NodeState]
    <2>1. PICK members \in SUBSET Nodes :
             node = [n \in Nodes |-> At(IF n \in members THEN 1 ELSE 0, n \in members)]
      BY DEF Init
    <2>2. \A n \in Nodes : At(IF n \in members THEN 1 ELSE 0, n \in members) \in NodeState
      BY DEF At, NodeState, ImageOf, Configs
    <2> QED
      BY <2>1, <2>2
  <1>3. mode \in AllModes
    BY DEF Init
  <1>4. built \in Configs /\ target \in 1..MaxTarget /\ snapCfg \in Configs /\ snapImg \in Configs
    BY DEF Init, Configs, ImageOf
  <1>5. now \in Ticks /\ changes \in 0..MaxChanges
    BY DEF Init, Ticks
  <1>6. pool \in Conditions
    BY DEF Init, Conditions
  <1>7. pc \in [Watchers -> Steps] /\ firstErr \in [Watchers -> Ticks \cup {NoErr}]
        /\ streak \in [Watchers -> Ticks \cup {NoErr}]
    BY DEF Init, Steps
  <1> QED
    BY <1>2, <1>3, <1>4, <1>5, <1>6, <1>7 DEF TypeOK, Init

LEMMA ClusterTyped == TypeOK /\ Cluster => TypeOK'
  <1> SUFFICES ASSUME TypeOK, Cluster PROVE TypeOK'
    OBVIOUS
  <1> USE PoolWaitAssumption, ConfigAssumption DEF PoolWaitAssumption
  <1> USE DEF TypeOK, untouched, watch, history
  <1>1. CASE NewTarget
    BY <1>1 DEF NewTarget
  <1>2. CASE BuildImage
    BY <1>2 DEF BuildImage, Configs
  <1>3. CASE SyncPool
    <2>1. AllAtTarget \in BOOLEAN
      BY DEF AllAtTarget
    <2>2. PICK updating \in {FALSE, ~AllAtTarget} : SyncPoolAs(updating)
      BY <1>3 DEF SyncPool
    <2>3. pool' \in Conditions /\ updates' \in {"none", "updating", "updated"}
      BY <2>1, <2>2 DEF SyncPoolAs, Conditions
    <2> QED
      BY <2>2, <2>3 DEF SyncPoolAs
  <1>4. ASSUME NEW n \in Nodes,
               AssignNode(n) \/ DaemonStarts(n) \/ DaemonFinishes(n) \/ DaemonFails(n)
                 \/ NodeLeaves(n) \/ NodeJoins(n)
        PROVE  TypeOK'
    <2>0. \A b \in BOOLEAN : At(0, b) \in NodeState
      BY DEF At, NodeState, ImageOf, Configs
    <2>1. CASE AssignNode(n)
      <3>1. target \in Configs /\ ImageOf(target) \in Configs
        BY DEF Configs, ImageOf
      <3>2. node' \in [Nodes -> NodeState]
        BY <2>1, <3>1 DEF AssignNode, NodeState
      <3> QED
        BY <2>1, <3>2 DEF AssignNode
    <2>2. CASE DaemonStarts(n)
      BY <2>2 DEF DaemonStarts, NodeState
    <2>3. CASE DaemonFinishes(n)
      BY <2>3 DEF DaemonFinishes, NodeState
    <2>4. CASE DaemonFails(n)
      BY <2>4 DEF DaemonFails, NodeState
    <2>5. CASE NodeLeaves(n)
      BY <2>5, <2>0 DEF NodeLeaves
    <2>6. CASE NodeJoins(n)
      <3>1. node' \in [Nodes -> NodeState]
        BY <2>6, <2>0 DEF NodeJoins
      <3>2. changes' \in 0..MaxChanges
        BY <2>6 DEF NodeJoins
      <3> QED
        BY <2>6, <3>1, <3>2 DEF NodeJoins
    <2> QED
      BY <1>4, <2>1, <2>2, <2>3, <2>4, <2>5, <2>6
  <1> QED
    BY <1>1, <1>2, <1>3, <1>4 DEF Cluster

LEMMA LaunchedTyped ==
  ASSUME pc \in [Watchers -> Steps], NEW ws
  PROVE  Launched(ws) \in [Watchers -> Steps]
  BY DEF Launched, FirstStep, Watchers, Steps

LEMMA WatcherTyped == TypeOK /\ WatcherStep => TypeOK'
  <1> SUFFICES ASSUME TypeOK, WatcherStep PROVE TypeOK'
    OBVIOUS
  <1> USE PoolWaitAssumption, ConfigAssumption DEF PoolWaitAssumption
  <1> USE DEF TypeOK, cluster, watch, history, To
  <1>1. ASSUME NEW w \in Watchers, PreludeFails(w) \/ QueryFails(w) \/ PollExpires(w)
        PROVE  TypeOK'
    <2>1. CASE PreludeFails(w)
      BY <2>1 DEF PreludeFails, Steps, Failures
    <2>2. CASE QueryFails(w)
      <3>1. Started(w) \in Ticks
        BY DEF Started, Ticks, NoErr
      <3>2. pc' \in [Watchers -> Steps]
        BY <2>2 DEF QueryFails, Steps, Failures
      <3>3. firstErr' \in [Watchers -> Ticks \cup {NoErr}]
        BY <2>2, <3>1 DEF QueryFails
      <3>4. streak' \in [Watchers -> Ticks \cup {NoErr}]
        BY <2>2 DEF QueryFails
      <3> QED
        BY <2>2, <3>2, <3>3, <3>4 DEF QueryFails
    <2>3. CASE PollExpires(w)
      BY <2>3 DEF PollExpires, Expiry, Steps, Failures
    <2> QED
      BY <1>1, <2>1, <2>2, <2>3
  <1>2. CASE GetInitialPool
    BY <1>2 DEF GetInitialPool, Steps, Failures
  <1>3. CASE ListNodesOfPool
    BY <1>3 DEF ListNodesOfPool, Members, Steps
  <1>4. CASE GetPoolOfNodes
    <2>1. target \in Configs
      BY DEF Configs
    <2> QED
      BY <1>4, <2>1 DEF GetPoolOfNodes, Steps
  <1>5. CASE GetMachineOSConfigForPool
    BY <1>5 DEF GetMachineOSConfigForPool, Steps
  <1>6. CASE PollStart
    BY <1>6 DEF PollStart, QueryAnswered, PoolVerdict, Cleared, Steps, Failures
  <1>7. CASE PollPool
    BY <1>7 DEF PollPool, QueryAnswered, PoolVerdict, Cleared, Steps, Failures
  <1>8. CASE PollNodes
    <2>1. nodesForPool' \subseteq Nodes /\ doneNodes' \subseteq Nodes
      BY <1>8 DEF PollNodes, GainedNodes, Examined, Members
    <2>2. pc' \in [Watchers -> Steps]
      BY <1>8 DEF PollNodes, Steps
    <2> QED
      BY <1>8, <2>1, <2>2 DEF PollNodes, QueryAnswered, Cleared
  <1> QED
    BY <1>1, <1>2, <1>3, <1>4, <1>5, <1>6, <1>7, <1>8 DEF WatcherStep

LEMMA CallTyped == TypeOK /\ (CallStep \/ Tick \/ Returned \/ UNCHANGED vars) => TypeOK'
  <1> SUFFICES ASSUME TypeOK, CallStep \/ Tick \/ Returned \/ UNCHANGED vars PROVE TypeOK'
    OBVIOUS
  <1> USE PoolWaitAssumption, ConfigAssumption, LaunchedTyped DEF PoolWaitAssumption
  <1> USE DEF TypeOK, cluster, watch, history
  <1>1. CASE StartCall
    BY <1>1 DEF StartCall
  <1>2. CASE ListPools
    BY <1>2 DEF ListPools
  <1>3. CASE Proceed
    BY <1>3 DEF Proceed
  <1>4. CASE Return
    BY <1>4 DEF Return
  <1>5. CASE Tick
    BY <1>5 DEF Tick, Ticks
  <1>6. CASE Returned \/ UNCHANGED vars
    BY <1>6 DEF Returned, vars
  <1> QED
    BY <1>1, <1>2, <1>3, <1>4, <1>5, <1>6 DEF CallStep

\* The state stays in its declared sets, for every value of the constants: the cluster's
\* objects, the watchers of machineconfigpool.go and their retryers.
THEOREM TypeCorrect == Spec => []TypeOK
  <1>1. TypeOK /\ [Next]_vars => TypeOK'
    BY ClusterTyped, WatcherTyped, CallTyped DEF Next
  <1> QED
    BY InitTyped, <1>1, PTL DEF Spec
---------------------------------------------------------------------------
(* The call and its watchers.                                               *)
Active(w) == pc[w] \in Preludes \cup {"poll"}

\* Watchers are launched by a running call only, and joined before it ends.
CallInv ==
    /\ call = "listing" => mode = "all"
    /\ call \in {"none", "listing"} => \A w \in Watchers : pc[w] = "idle"
    /\ \A w \in Watchers : Active(w) => call = "running"

(* The nodes watcher.                                                       *)
\* An image belongs to one config: nodes are given both at once.
ImageInv ==
    \A n \in Nodes : /\ node[n].dimg = ImageOf(node[n].dcfg)
                     /\ node[n].img = ImageOf(node[n].cfg)

\* What the watcher has seen.
SeenInv ==
    /\ doneNodes \subseteq nodesForPool
    /\ pc["nodes"] \in {"idle", "list", "getPool", "getMosc"} => doneNodes = {}
    /\ pc["nodes"] = "ok" => doneNodes = nodesForPool
    /\ Layered /\ doneNodes # {} => snapImg = snapCfg /\ snapImg # 0

\* A node found done stays at the config of the watch until it leaves or is asked for another.
SettledInv ==
    \A n \in doneNodes \ strayed :
        /\ node[n].in /\ node[n].state = "Done"
        /\ node[n].cfg = snapCfg /\ node[n].dcfg = snapCfg

(* The retryers and the phases of an update.                                *)
RetryInv == \A w \in Watchers : firstErr[w] = streak[w]

PhaseInv ==
    /\ ~(pool.updated /\ pool.updating)
    /\ mode \in {"update", "onlyPool"} =>
         /\ call = "running" =>
              /\ pc["start"] # "idle"
              /\ pool.updating => updates # "none"
              /\ pool.updated /\ updates # "none" => updates = "updated"
         /\ pc["start"] = "ok" => updates # "none"
         /\ pc["pool"] = "ok" => updates = "updated"
         /\ pc["pool"] # "idle" => pc["start"] = "ok"
         /\ pc["nodes"] # "idle" => pc["pool"] # "idle"
         /\ call = "ok" => updates = "updated"

---------------------------------------------------------------------------
\* The cluster's steps leave the call alone.
LEMMA ClusterFrame == Cluster => UNCHANGED <<now, mode, call, pc, firstErr, watch, streak>>
  BY DEF Cluster, NewTarget, BuildImage, SyncPool, SyncPoolAs, AssignNode, DaemonStarts, DaemonFinishes,
         DaemonFails, NodeLeaves, NodeJoins, untouched, history, watch

\* A step of the watchers is one watcher's, and moves it on from where it is active.
LEMMA WatcherFrame ==
  ASSUME TypeOK, WatcherStep
  PROVE  /\ UNCHANGED <<cluster, now, mode, call, updates, strayed>>
         /\ \E w \in Watchers :
               /\ Active(w)
               /\ \E next \in Steps \ {"idle"} : pc' = [pc EXCEPT ![w] = next]
  <1> USE DEF cluster, history, watch, Active, Preludes, To, Steps, Failures
  <1> "start" \in Watchers /\ "pool" \in Watchers /\ "nodes" \in Watchers
    BY DEF Watchers
  <1>1. ASSUME NEW w \in Watchers, PreludeFails(w) \/ QueryFails(w) \/ PollExpires(w)
        PROVE  /\ UNCHANGED <<cluster, now, mode, call, updates, strayed>>
               /\ Active(w)
               /\ \E next \in Steps \ {"idle"} : pc' = [pc EXCEPT ![w] = next]
    BY <1>1 DEF PreludeFails, QueryFails, PollExpires, Expiry
  <1>2. CASE GetInitialPool
    BY <1>2 DEF GetInitialPool
  <1>3. CASE ListNodesOfPool
    BY <1>3 DEF ListNodesOfPool
  <1>4. CASE GetPoolOfNodes
    BY <1>4 DEF GetPoolOfNodes
  <1>5. CASE GetMachineOSConfigForPool
    BY <1>5 DEF GetMachineOSConfigForPool
  <1>6. CASE PollStart
    BY <1>6 DEF PollStart, QueryAnswered, PoolVerdict
  <1>7. CASE PollPool
    BY <1>7 DEF PollPool, QueryAnswered, PoolVerdict
  <1>8. CASE PollNodes
    BY <1>8 DEF PollNodes, QueryAnswered
  <1> QED
    BY <1>1, <1>2, <1>3, <1>4, <1>5, <1>6, <1>7, <1>8 DEF WatcherStep

LEMMA CallInductive == TypeOK /\ CallInv /\ [Next]_vars => CallInv'
  <1> SUFFICES ASSUME TypeOK, CallInv, [Next]_vars PROVE CallInv'
    OBVIOUS
  <1> USE DEF CallInv, Active
  <1>1. CASE Cluster
    BY <1>1, ClusterFrame
  <1>2. CASE WatcherStep
    <2>1. PICK w \in Watchers, next \in Steps \ {"idle"} :
             Active(w) /\ pc' = [pc EXCEPT ![w] = next]
      BY <1>2, WatcherFrame
    <2>2. call = "running" /\ call' = call /\ mode' = mode
      BY <1>2, <2>1, WatcherFrame
    <2> QED
      BY <2>2
  <1>3. CASE StartCall
    <2>1. mode \in AllModes
      BY DEF TypeOK
    <2> QED
      BY <1>3, <2>1 DEF StartCall, Launched, FirstWatchers, FirstStep, Preludes, AllModes
  <1>4. CASE ListPools
    BY <1>4 DEF ListPools, Launched, Preludes
  <1>5. CASE Proceed
    BY <1>5 DEF Proceed
  <1>6. CASE Return
    BY <1>6 DEF Return, JoinAll, Ended, Preludes, Failures
  <1>7. CASE Tick \/ Returned \/ UNCHANGED vars
    BY <1>7 DEF Tick, Returned, vars, cluster, watch, history
  <1> QED
    BY <1>1, <1>2, <1>3, <1>4, <1>5, <1>6, <1>7 DEF Next, CallStep

LEMMA ImageInductive == TypeOK /\ ImageInv /\ [Next]_vars => ImageInv'
  <1> SUFFICES ASSUME TypeOK, ImageInv, [Next]_vars PROVE ImageInv'
    OBVIOUS
  <1> USE DEF ImageInv, TypeOK
  <1>1. ASSUME NEW n \in Nodes,
               AssignNode(n) \/ DaemonStarts(n) \/ DaemonFinishes(n) \/ DaemonFails(n)
                 \/ NodeLeaves(n) \/ NodeJoins(n)
        PROVE  ImageInv'
    <2> USE DEF NodeState
    <2>1. CASE AssignNode(n)
      BY <2>1 DEF AssignNode
    <2>2. CASE DaemonStarts(n)
      BY <2>2 DEF DaemonStarts
    <2>3. CASE DaemonFinishes(n)
      BY <2>3 DEF DaemonFinishes
    <2>4. CASE DaemonFails(n)
      BY <2>4 DEF DaemonFails
    <2>5. CASE NodeLeaves(n)
      BY <2>5 DEF NodeLeaves, At
    <2>6. CASE NodeJoins(n)
      BY <2>6 DEF NodeJoins, At
    <2> QED
      BY <1>1, <2>1, <2>2, <2>3, <2>4, <2>5, <2>6
  <1>2. CASE NewTarget \/ BuildImage \/ SyncPool
    BY <1>2 DEF NewTarget, BuildImage, SyncPool, SyncPoolAs
  <1>3. CASE WatcherStep
    BY <1>3, WatcherFrame DEF cluster
  <1>4. CASE CallStep
    BY <1>4 DEF CallStep, StartCall, ListPools, Proceed, Return, cluster
  <1>5. CASE Tick \/ Returned \/ UNCHANGED vars
    BY <1>5 DEF Tick, Returned, vars, cluster
  <1> QED
    BY <1>1, <1>2, <1>3, <1>4, <1>5 DEF Next, Cluster

---------------------------------------------------------------------------
(* The nodes watcher.                                                       *)
LEMMA SeenInductive ==
  TypeOK /\ CallInv /\ ImageInv /\ SeenInv /\ [Next]_vars => SeenInv'
  <1> SUFFICES ASSUME TypeOK, CallInv, ImageInv, SeenInv, [Next]_vars PROVE SeenInv'
    OBVIOUS
  <1> USE DEF SeenInv
  <1> USE DEF watch
  <1>t. pc \in [Watchers -> Steps] /\ "nodes" \in Watchers
    BY DEF TypeOK, Watchers
  <1>1. CASE Cluster
    BY <1>1, ClusterFrame
  <1>2. ASSUME NEW w \in Watchers, PreludeFails(w) \/ QueryFails(w) \/ PollExpires(w)
        PROVE  SeenInv'
    <2>1. pc' = pc \/ \E f \in Failures \cup {"poll"} : pc' = [pc EXCEPT ![w] = f]
      BY <1>2 DEF PreludeFails, QueryFails, PollExpires, To, Failures, Expiry
    <2>2. UNCHANGED <<target, watch>>
      BY <1>2 DEF PreludeFails, QueryFails, PollExpires, cluster
    <2>3. pc'["nodes"] \in {"idle", "list", "getPool", "getMosc", "ok"} => pc'["nodes"] = pc["nodes"]
      BY <2>1, <1>t DEF Failures
    <2> QED
      BY <2>2, <2>3
  <1>3. CASE GetInitialPool \/ PollStart \/ PollPool
    <2>1. UNCHANGED <<target, watch>> /\ pc'["nodes"] = pc["nodes"]
      BY <1>3, <1>t DEF GetInitialPool, PollStart, PollPool, QueryAnswered, To, cluster
    <2> QED
      BY <2>1
  <1>4. CASE ListNodesOfPool
    BY <1>4, <1>t DEF ListNodesOfPool, To, cluster
  <1>5. CASE GetPoolOfNodes
    BY <1>5, <1>t DEF GetPoolOfNodes, To, cluster
  <1>6. CASE GetMachineOSConfigForPool
    BY <1>6, <1>t DEF GetMachineOSConfigForPool, To, cluster
  <1>7. CASE PollNodes
    <2>1. UNCHANGED <<target, snapCfg, snapImg>>
      BY <1>7 DEF PollNodes, QueryAnswered, cluster
    <2>2. doneNodes' \subseteq nodesForPool'
      BY <1>7 DEF PollNodes, GainedNodes, Examined
    <2>3. /\ pc'["nodes"] \notin {"idle", "list", "getPool", "getMosc"}
          /\ pc'["nodes"] = "ok" => doneNodes' = nodesForPool'
      BY <1>7, <1>t DEF PollNodes, To
    <2>4. Layered /\ doneNodes' # {} => snapImg' = snapCfg' /\ snapImg' # 0
      <3> SUFFICES ASSUME Layered, doneNodes' # {} PROVE snapImg = snapCfg /\ snapImg # 0
        BY <2>1
      <3>1. CASE doneNodes # {}
        BY <3>1
      <3>2. CASE doneNodes = {}
        <4>1. PICK n \in Examined : Done(n)
          BY <1>7, <3>2 DEF PollNodes
        <4>2. n \in Nodes
          BY <4>1 DEF Examined, Members
        <4>3. /\ node[n].dimg = snapImg /\ node[n].dimg # 0
              /\ node[n].cfg = snapCfg /\ node[n].cfg = node[n].dcfg
          BY <4>1 DEF Done, isNodeDoneAtPool, isNodeDoneAtMosc, isNodeConfigDone
        <4> QED
          BY <4>2, <4>3 DEF ImageInv, ImageOf
      <3> QED
        BY <3>1, <3>2
    <2> QED
      BY <2>1, <2>2, <2>3, <2>4
  <1>8. CASE StartCall \/ ListPools \/ Proceed
    <2>1. UNCHANGED <<target, watch>>
      BY <1>8 DEF StartCall, ListPools, Proceed, cluster
    <2>2. pc["nodes"] = "idle" \/ pc'["nodes"] = pc["nodes"]
      BY <1>8, <1>t DEF StartCall, ListPools, Proceed, Launched, CallInv
    <2>3. pc["nodes"] = "idle" => pc'["nodes"] \in {"idle", "list"}
      BY <1>8, <1>t DEF StartCall, ListPools, Proceed, Launched, FirstStep
    <2> QED
      BY <2>1, <2>2, <2>3
  <1>9. CASE Return \/ Tick \/ Returned \/ UNCHANGED vars
    BY <1>9 DEF Return, Tick, Returned, vars, cluster
  <1> QED
    BY <1>1, <1>2, <1>3, <1>4, <1>5, <1>6, <1>7, <1>8, <1>9 DEF Next, WatcherStep, CallStep

LEMMA SettledInductive ==
  TypeOK /\ SeenInv /\ SettledInv /\ [Next]_vars => SettledInv'
  <1> SUFFICES ASSUME TypeOK, SeenInv, SettledInv, [Next]_vars PROVE SettledInv'
    OBVIOUS
  <1> USE DEF SettledInv, watch, history
  <1>t. node \in [Nodes -> NodeState] /\ doneNodes \subseteq Nodes
    BY DEF TypeOK
  <1>1. ASSUME NEW n \in Nodes,
               AssignNode(n) \/ DaemonStarts(n) \/ DaemonFinishes(n) \/ DaemonFails(n)
                 \/ NodeLeaves(n) \/ NodeJoins(n)
        PROVE  SettledInv'
    <2> USE <1>t DEF NodeState, untouched
    <2>1. CASE AssignNode(n)
      BY <2>1 DEF AssignNode
    <2>2. CASE DaemonStarts(n)
      BY <2>2 DEF DaemonStarts
    <2>3. CASE DaemonFinishes(n)
      BY <2>3 DEF DaemonFinishes
    <2>4. CASE DaemonFails(n)
      BY <2>4 DEF DaemonFails
    <2>5. CASE NodeLeaves(n)
      BY <2>5 DEF NodeLeaves
    <2>6. CASE NodeJoins(n)
      BY <2>6 DEF NodeJoins
    <2> QED
      BY <1>1, <2>1, <2>2, <2>3, <2>4, <2>5, <2>6
  <1>2. CASE NewTarget
    BY <1>2, <1>t DEF NewTarget, untouched
  <1>3. CASE BuildImage \/ SyncPool
    BY <1>3 DEF BuildImage, SyncPool, SyncPoolAs, untouched
  <1>4. CASE GetPoolOfNodes
    <2>1. doneNodes = {} /\ doneNodes' = doneNodes
      BY <1>4 DEF GetPoolOfNodes, SeenInv
    <2> QED
      BY <2>1
  <1>5. CASE PollNodes
    <2>1. UNCHANGED <<cluster, snapCfg, strayed>>
      BY <1>5 DEF PollNodes, QueryAnswered
    <2>2. ASSUME NEW n \in doneNodes' \ strayed
          PROVE  /\ node[n].in /\ node[n].state = "Done"
                 /\ node[n].cfg = snapCfg /\ node[n].dcfg = snapCfg
      <3>1. n \in doneNodes \/ (n \in Examined /\ Done(n))
        BY <1>5 DEF PollNodes
      <3> QED
        BY <3>1, <2>2 DEF Examined, Members, Done, isNodeDoneAtPool, isNodeConfigDone, isNodeDone
    <2> QED
      BY <2>1, <2>2 DEF cluster
  <1>6. CASE GetInitialPool \/ ListNodesOfPool \/ GetMachineOSConfigForPool \/ PollStart \/ PollPool
    BY <1>6 DEF GetInitialPool, ListNodesOfPool, GetMachineOSConfigForPool, PollStart, PollPool,
       QueryAnswered, cluster
  <1>7. ASSUME NEW w \in Watchers, PreludeFails(w) \/ QueryFails(w) \/ PollExpires(w)
        PROVE  SettledInv'
    BY <1>7 DEF PreludeFails, QueryFails, PollExpires, cluster
  <1>8. CASE CallStep
    BY <1>8 DEF CallStep, StartCall, ListPools, Proceed, Return, cluster
  <1>9. CASE Tick \/ Returned \/ UNCHANGED vars
    BY <1>9 DEF Tick, Returned, vars, cluster
  <1> QED
    BY <1>1, <1>2, <1>3, <1>4, <1>5, <1>6, <1>7, <1>8, <1>9 DEF Next, Cluster, WatcherStep

---------------------------------------------------------------------------
(* The retryers and the phases of an update.                                *)
LEMMA RetryInductive == TypeOK /\ RetryInv /\ [Next]_vars => RetryInv'
  <1> SUFFICES ASSUME TypeOK, RetryInv, [Next]_vars PROVE RetryInv'
    OBVIOUS
  <1> USE DEF RetryInv, history
  <1>t. firstErr \in [Watchers -> Ticks \cup {NoErr}] /\ streak \in [Watchers -> Ticks \cup {NoErr}]
    BY DEF TypeOK
  <1>1. CASE Cluster
    BY <1>1, ClusterFrame
  <1>2. ASSUME NEW w \in Watchers, PreludeFails(w) \/ QueryFails(w) \/ PollExpires(w)
        PROVE  RetryInv'
    BY <1>2, <1>t DEF PreludeFails, QueryFails, PollExpires, Started
  <1>3. CASE PollStart \/ PollPool \/ PollNodes
    BY <1>3, <1>t DEF PollStart, PollPool, PollNodes, QueryAnswered, Cleared
  <1>4. CASE GetInitialPool \/ ListNodesOfPool \/ GetPoolOfNodes \/ GetMachineOSConfigForPool
    BY <1>4 DEF GetInitialPool, ListNodesOfPool, GetPoolOfNodes, GetMachineOSConfigForPool
  <1>5. CASE CallStep
    BY <1>5 DEF CallStep, StartCall, ListPools, Proceed, Return
  <1>6. CASE Tick \/ Returned \/ UNCHANGED vars
    BY <1>6 DEF Tick, Returned, vars
  <1> QED
    BY <1>1, <1>2, <1>3, <1>4, <1>5, <1>6 DEF Next, WatcherStep

LEMMA PhaseInductive ==
  TypeOK /\ CallInv /\ PhaseInv /\ [Next]_vars => PhaseInv'
  <1> SUFFICES ASSUME TypeOK, CallInv, PhaseInv, [Next]_vars PROVE PhaseInv'
    OBVIOUS
  <1> USE DEF PhaseInv
  <1>t. /\ pc \in [Watchers -> Steps] /\ pool \in Conditions /\ mode \in AllModes
        /\ updates \in {"none", "updating", "updated"}
        /\ "start" \in Watchers /\ "pool" \in Watchers /\ "nodes" \in Watchers
    BY DEF TypeOK, Watchers
  <1>1. CASE SyncPool
    <2>1. UNCHANGED <<mode, call, pc>>
      BY <1>1 DEF SyncPool, SyncPoolAs, untouched
    <2>0. PICK updating \in {FALSE, ~AllAtTarget} : SyncPoolAs(updating)
      BY <1>1 DEF SyncPool
    <2>a. AllAtTarget \in BOOLEAN
      BY DEF AllAtTarget
    <2>2. /\ ~(pool'.updated /\ pool'.updating)
          /\ pool'.updating /\ call = "running" => updates' # "none"
          /\ pool'.updated /\ call = "running" /\ updates' # "none" => updates' = "updated"
          /\ updates # "none" => updates' # "none"
          /\ updates = "updated" => updates' = "updated"
      BY <2>0, <2>a, <1>t DEF SyncPoolAs
    <2> QED
      BY <2>1, <2>2
  <1>2. ASSUME NEW n \in Nodes,
               AssignNode(n) \/ DaemonStarts(n) \/ DaemonFinishes(n) \/ DaemonFails(n)
                 \/ NodeLeaves(n) \/ NodeJoins(n)
        PROVE  UNCHANGED <<pool, mode, call, pc, updates>>
    BY <1>2 DEF AssignNode, DaemonStarts, DaemonFinishes, DaemonFails, NodeLeaves, NodeJoins,
       untouched, history
  <1>3. CASE NewTarget \/ BuildImage
    BY <1>3 DEF NewTarget, BuildImage, untouched, history
  <1>4. CASE WatcherStep
    <2>1. UNCHANGED <<pool, mode, call, updates>>
      BY <1>4, WatcherFrame DEF cluster
    <2>2. PICK w \in Watchers, next \in Steps \ {"idle"} :
             Active(w) /\ pc' = [pc EXCEPT ![w] = next]
      BY <1>4, WatcherFrame
    <2>3. pc[w] # "ok" /\ pc[w] # "idle" /\ call = "running"
      BY <2>2 DEF Active, Preludes, CallInv
    <2>4. ASSUME pc'["start"] = "ok", pc["start"] # "ok", mode \in {"update", "onlyPool"}
          PROVE  updates # "none"
      <3>1. PollStart
        BY <1>4, <2>4, <1>t DEF WatcherStep, PreludeFails, QueryFails, PollExpires, Expiry, To,
           GetInitialPool, ListNodesOfPool, GetPoolOfNodes, GetMachineOSConfigForPool, PollPool,
           PollNodes, Failures
      <3>2. pool.updating
        BY <3>1, <2>4, <1>t DEF PollStart, PoolVerdict, To
      <3> QED
        BY <3>2, <2>3, <2>4
    <2>5. ASSUME pc'["pool"] = "ok", pc["pool"] # "ok", mode \in {"update", "onlyPool"}
          PROVE  updates = "updated"
      <3>1. PollPool
        BY <1>4, <2>5, <1>t DEF WatcherStep, PreludeFails, QueryFails, PollExpires, Expiry, To,
           GetInitialPool, ListNodesOfPool, GetPoolOfNodes, GetMachineOSConfigForPool, PollStart,
           PollNodes, Failures
      <3>2. pool.updated /\ pc["pool"] = "poll"
        BY <3>1, <2>5, <1>t DEF PollPool, PoolVerdict, To, QueryAnswered
      <3>3. updates # "none"
        BY <3>2, <2>5
      <3> QED
        BY <3>2, <3>3, <2>3, <2>5
    <2>6. \A v \in Watchers : /\ pc'[v] = "idle" <=> pc[v] = "idle"
                              /\ pc[v] = "ok" => pc'[v] = "ok"
      BY <2>2, <2>3, <1>t
    <2> QED
      BY <2>1, <2>3, <2>4, <2>5, <2>6, <1>t
  <1>5. CASE StartCall
    BY <1>5, <1>t DEF StartCall, Launched, FirstWatchers, FirstStep, CallInv, cluster, AllModes
  <1>6. CASE ListPools
    BY <1>6 DEF ListPools, CallInv, cluster, history
  <1>7. CASE Proceed
    BY <1>7, <1>t DEF Proceed, Launched, SecondWatchers, FirstStep, cluster, history, AllModes
  <1>8. CASE Return
    <2>1. UNCHANGED <<pool, mode, pc, updates>> /\ call = "running" /\ call' \in {"ok", "failed"}
      BY <1>8 DEF Return, cluster, history
    <2>2. ASSUME mode \in {"update", "onlyPool"}, call' = "ok"
          PROVE  updates = "updated"
      <3>1. \A w \in Watchers : pc[w] \in {"idle", "ok"}
        BY <1>8, <2>2 DEF Return, JoinAll, Ended
      <3>2. pc["start"] = "ok"
        BY <3>1, <2>1, <2>2, <1>t
      <3>3. pc["pool"] # "idle"
        <4> SUFFICES ASSUME pc["pool"] = "idle" PROVE FALSE
          OBVIOUS
        <4>1. pc["nodes"] = "idle"
          BY <2>2
        <4>2. {w \in Watchers : pc[w] # "idle"} = {"start"}
          BY <3>2, <4>1 DEF Watchers
        <4> QED
          BY <1>8, <3>2, <4>2 DEF Return
      <3> QED
        BY <3>1, <3>3, <2>2, <1>t
    <2> QED
      BY <2>1, <2>2
  <1>9. CASE Tick \/ Returned \/ UNCHANGED vars
    BY <1>9 DEF Tick, Returned, vars, cluster, history
  <1> QED
    BY <1>1, <1>2, <1>3, <1>4, <1>5, <1>6, <1>7, <1>8, <1>9 DEF Next, Cluster, CallStep

---------------------------------------------------------------------------
(* The inductive invariant, and what follows from it.                       *)
IInv == TypeOK /\ CallInv /\ ImageInv /\ SeenInv /\ SettledInv /\ RetryInv /\ PhaseInv

LEMMA InitIInv == Init => IInv
  <1> SUFFICES ASSUME Init PROVE IInv
    OBVIOUS
  <1>1. TypeOK
    BY InitTyped
  <1>2. CallInv
    BY DEF Init, CallInv, Active, Preludes
  <1>3. ImageInv
    BY DEF Init, ImageInv, At
  <1>4. SeenInv /\ SettledInv
    BY DEF Init, SeenInv, SettledInv, Watchers
  <1>5. RetryInv
    BY DEF Init, RetryInv
  <1>6. PhaseInv
    BY DEF Init, PhaseInv, Watchers
  <1> QED
    BY <1>1, <1>2, <1>3, <1>4, <1>5, <1>6 DEF IInv

\* The inductive invariant of the waiting call: types, the join of the watchers, what the
\* nodes watcher has seen, the settled nodes, the retryers and the phases of an update.
THEOREM Invariance == Spec => []IInv
  <1>1. IInv /\ [Next]_vars => IInv'
    <2> SUFFICES ASSUME IInv, [Next]_vars PROVE IInv'
      OBVIOUS
    <2>1. TypeOK'
      BY ClusterTyped, WatcherTyped, CallTyped DEF IInv, Next
    <2> QED
      BY <2>1, CallInductive, ImageInductive, SeenInductive, SettledInductive, RetryInductive,
         PhaseInductive DEF IInv
  <1> QED
    BY InitIInv, <1>1, PTL DEF Spec

\* Success of waitForNodesToComplete means that every node seen is at the config the pool
\* asked for when the watch began, whatever it has asked for since, except one that, after it
\* was found done, left or was asked for another config.
THEOREM CompletionIsSound == Spec => []CompletionSound
  <1>1. IInv => CompletionSound
    <2> SUFFICES ASSUME IInv, pc["nodes"] = "ok", NEW n \in nodesForPool \ strayed
                 PROVE  /\ n \in Members
                        /\ node[n].cfg = snapCfg /\ node[n].state = "Done"
                        /\ Layered => node[n].img = snapCfg
      BY DEF CompletionSound
    <2>1. n \in doneNodes \ strayed /\ n \in Nodes
      BY DEF IInv, SeenInv, TypeOK
    <2>2. node[n].in /\ node[n].cfg = snapCfg /\ node[n].state = "Done"
      BY <2>1 DEF IInv, SettledInv
    <2>3. node[n].img = ImageOf(node[n].cfg)
      BY <2>1 DEF IInv, ImageInv
    <2> QED
      BY <2>1, <2>2, <2>3 DEF ImageOf, Members
  <1> QED
    BY Invariance, <1>1, PTL

\* The config and the image that waitForNodesToComplete read by two requests belong
\* together whenever the watch ends well with a node done.
THEOREM TornSnapshotIsHarmless == Spec => []TornSnapshotNeverCompletes
  <1>1. IInv => TornSnapshotNeverCompletes
    BY DEF IInv, SeenInv, TornSnapshotNeverCompletes
  <1> QED
    BY Invariance, <1>1, PTL

\* WaitForMachineConfigPoolUpdateToComplete and the only-pool variant return without an
\* error only after the pool was Updating and then Updated.
THEOREM UpdateIsSeenThrough == Spec => []UpdateSeenThrough
  <1>1. IInv => UpdateSeenThrough
    BY DEF IInv, PhaseInv, UpdateSeenThrough
  <1> QED
    BY Invariance, <1>1, PTL

\* The errgroup of a call that returned has no goroutine left.
THEOREM NoLeak == Spec => []NoWatcherLeaks
  <1>1. IInv => NoWatcherLeaks
    BY DEF IInv, CallInv, Active, NoWatcherLeaks
  <1> QED
    BY Invariance, <1>1, PTL

\* A timeRetryer gives up only after Threshold ticks in which no query was answered.
THEOREM GivesUpInTime == Spec => GivesUpAfterThreshold
  <1>1. IInv /\ [Next]_vars =>
          [\A w \in Watchers : (pc[w] = "poll" /\ pc'[w] = "api") =>
               streak'[w] # NoErr /\ now - streak'[w] >= Threshold]_vars
    <2> SUFFICES ASSUME IInv, Next, NEW w \in Watchers, pc[w] = "poll", pc'[w] = "api"
                 PROVE  streak'[w] # NoErr /\ now - streak'[w] >= Threshold
      BY DEF vars
    <2>t. /\ pc \in [Watchers -> Steps] /\ now \in Ticks
          /\ firstErr \in [Watchers -> Ticks \cup {NoErr}] /\ streak \in [Watchers -> Ticks \cup {NoErr}]
      BY DEF IInv, TypeOK
    <2>1. WatcherStep
      <3>1. ~Cluster /\ ~Tick /\ ~Returned
        BY ClusterFrame DEF Tick, Returned, vars
      <3>2. ~CallStep
        BY <2>t DEF CallStep, StartCall, ListPools, Proceed, Return, Launched, FirstStep, Watchers
      <3> QED
        BY <3>1, <3>2 DEF Next
    <2>2. QueryFails(w) /\ IsReached(w)
      <3>1. ASSUME NEW v \in Watchers, PreludeFails(v) \/ QueryFails(v) \/ PollExpires(v)
            PROVE  QueryFails(w) /\ IsReached(w)
        BY <3>1, <2>t DEF PreludeFails, QueryFails, PollExpires, Expiry, To
      <3>2. ~GetInitialPool /\ ~ListNodesOfPool /\ ~GetPoolOfNodes /\ ~GetMachineOSConfigForPool
        BY <2>t DEF GetInitialPool, ListNodesOfPool, GetPoolOfNodes, GetMachineOSConfigForPool, To
      <3>3. ~PollStart /\ ~PollPool /\ ~PollNodes
        BY <2>t DEF PollStart, PollPool, PollNodes, PoolVerdict, To
      <3> QED
        BY <2>1, <3>1, <3>2, <3>3 DEF WatcherStep
    <2>3. firstErr[w] = streak[w]
      BY DEF IInv, RetryInv
    <2>4. streak'[w] = Started(w) /\ Started(w) # NoErr
      BY <2>2, <2>3, <2>t DEF QueryFails, Started, Ticks, NoErr
    <2> QED
      BY <2>2, <2>4 DEF IsReached
  <1> QED
    BY Invariance, <1>1, PTL DEF Spec, GivesUpAfterThreshold

\* In the poll in which the nodes watcher ends every member of the pool is at the config (and
\* image) waited for at that moment, those that joined during the watch included, except one
\* found done before that has left and come back, or been asked for another config, since.
THEOREM LastPollIsComplete == Spec => LastPollCoversMembers
  <1>1. IInv /\ [Next]_vars =>
          [(pc["nodes"] = "poll" /\ pc'["nodes"] = "ok") =>
              \A n \in Members : Done(n) \/ n \in strayed]_vars
    <2> SUFFICES ASSUME IInv, Next, pc["nodes"] = "poll", pc'["nodes"] = "ok",
                        NEW n \in Members \ strayed
                 PROVE  Done(n)
      BY DEF vars
    <2>t. pc \in [Watchers -> Steps] /\ "nodes" \in Watchers
      BY DEF IInv, TypeOK, Watchers
    <2>1. WatcherStep
      <3>1. ~Cluster /\ ~Tick /\ ~Returned
        BY ClusterFrame DEF Tick, Returned, vars
      <3>2. ~CallStep
        BY <2>t DEF CallStep, StartCall, ListPools, Proceed, Return, Launched, FirstStep
      <3> QED
        BY <3>1, <3>2 DEF Next
    <2>2. PollNodes
      BY <2>1, <2>t DEF WatcherStep, PreludeFails, QueryFails, PollExpires, Expiry, To,
         GetInitialPool, ListNodesOfPool, GetPoolOfNodes, GetMachineOSConfigForPool, PollStart,
         PollPool, Failures
    <2>3. n \in doneNodes' /\ n \in Nodes
      BY <2>2, <2>t DEF PollNodes, GainedNodes, To, Members
    <2>4. CASE n \in doneNodes
      <3>1. node[n].state = "Done" /\ node[n].cfg = snapCfg /\ node[n].dcfg = snapCfg
        BY <2>4 DEF IInv, SettledInv
      <3>2. node[n].img = ImageOf(snapCfg) /\ node[n].dimg = ImageOf(snapCfg)
        BY <2>3, <3>1 DEF IInv, ImageInv
      <3>3. Layered => snapImg = snapCfg /\ snapImg # 0
        BY <2>4 DEF IInv, SeenInv
      <3> QED
        BY <3>1, <3>2, <3>3 DEF Done, isNodeDoneAtPool, isNodeDoneAtMosc, isNodeConfigDone,
           isNodeImageDone, isNodeDone, ImageOf
    <2>5. CASE n \notin doneNodes
      BY <2>2, <2>3, <2>5 DEF PollNodes
    <2> QED
      BY <2>4, <2>5
  <1> QED
    BY Invariance, <1>1, PTL DEF Spec, LastPollCoversMembers

---------------------------------------------------------------------------
(* The helpers alone.                                                       *)

\* A fresh copy holds what the pool holds, nobody has touched the pause since it was read, and
\* a conditional unpause that holds one saw the annotation the pool still has.
Current(c) ==
    (step[c] = "update" /\ fresh[c]) =>
        /\ seen[c] = target
        /\ c \notin overtaken
        /\ op[c] = "unpauseIfOurs" => marked

PauseInv ==
    /\ Pausing!PauseTypeOK
    /\ overtaken \subseteq Pausing!Holding
    /\ \A c \in Callers : Current(c)

LEMMA PauseInitially == Pausing!PauseInit => PauseInv
  BY ConfigAssumption DEF Pausing!PauseInit, PauseInv, Pausing!PauseTypeOK, Current, Pausing!AllOps

\* A step outside the helpers touches no copy and makes all of them stale.
LEMMA OthersPreserve ==
  ASSUME PauseInv, Pausing!AdminPatches \/ Pausing!ControllerRenders \/ Pausing!ControllerWritesStatus
  PROVE  PauseInv'
  <1>1. UNCHANGED <<step, op, seen>> /\ fresh' = [d \in Callers |-> FALSE]
    BY DEF Pausing!AdminPatches, Pausing!ControllerRenders, Pausing!ControllerWritesStatus, Pausing!Stale
  <1>2. target' \in 1..MaxTarget
    BY ConfigAssumption
    DEF Pausing!AdminPatches, Pausing!ControllerRenders, Pausing!ControllerWritesStatus, PauseInv, Pausing!PauseTypeOK
  <1>3. paused' \in BOOLEAN /\ marked' \in BOOLEAN
    BY DEF Pausing!AdminPatches, Pausing!ControllerRenders, Pausing!ControllerWritesStatus, PauseInv, Pausing!PauseTypeOK
  <1>4. fresh' \in [Callers -> BOOLEAN]
    BY <1>1
  <1>5. overtaken' \subseteq Pausing!Holding'
    <2>1. overtaken' \in {overtaken, Pausing!Holding}
      BY DEF Pausing!AdminPatches, Pausing!ControllerRenders, Pausing!ControllerWritesStatus
    <2> QED
      BY <1>1, <2>1 DEF PauseInv, Pausing!Holding
  <1>6. Pausing!PauseTypeOK'
    BY <1>1, <1>2, <1>3, <1>4, <1>5 DEF PauseInv, Pausing!PauseTypeOK, Pausing!Holding
  <1>7. \A c \in Callers : Current(c)'
    BY <1>1 DEF Current
  <1> QED
    BY <1>5, <1>6, <1>7 DEF PauseInv

\* What the end of a call does to the bookkeeping of the calls.
LEMMA EndOfCall ==
  ASSUME PauseInv, NEW c \in Callers, Pausing!HelperEnds(c)
  PROVE  /\ step' \in [Callers -> {"idle", "get", "update"}] /\ step'[c] = "idle"
         /\ op' \in [Callers -> Pausing!AllOps] /\ seen' \in [Callers -> 0..MaxTarget]
         /\ \A d \in Callers \ {c} :
               step'[d] = step[d] /\ op'[d] = op[d] /\ seen'[d] = seen[d]
  <1>1. 0 \in 0..MaxTarget /\ "pause" \in Pausing!AllOps
    BY ConfigAssumption DEF Pausing!AllOps
  <1> QED
    BY <1>1 DEF PauseInv, Pausing!PauseTypeOK, Pausing!HelperEnds

LEMMA StartPreserves ==
  ASSUME PauseInv, NEW c \in Callers, Pausing!StartHelper(c)
  PROVE  PauseInv'
  <1>1. /\ step[c] = "idle" /\ step' = [step EXCEPT ![c] = "get"]
        /\ UNCHANGED <<target, paused, marked, seen, fresh, overtaken>>
    BY DEF Pausing!StartHelper
  <1>2. PICK o \in Pausing!AllOps : op' = [op EXCEPT ![c] = o]
    BY DEF Pausing!StartHelper
  <1>3. Pausing!PauseTypeOK'
    BY <1>1, <1>2 DEF PauseInv, Pausing!PauseTypeOK
  <1>4. ASSUME NEW d \in Callers PROVE Current(d)'
    BY <1>1, <1>2 DEF PauseInv, Pausing!PauseTypeOK, Current
  <1>5. overtaken' \subseteq Pausing!Holding'
    BY <1>1 DEF PauseInv, Pausing!PauseTypeOK, Pausing!Holding
  <1> QED
    BY <1>3, <1>4, <1>5 DEF PauseInv

LEMMA GetPreserves ==
  ASSUME PauseInv, NEW c \in Callers, Pausing!GetPool(c)
  PROVE  PauseInv'
  <1>0. UNCHANGED <<target, paused, marked, overtaken>> /\ c \notin overtaken
    BY DEF Pausing!GetPool, PauseInv, Pausing!Holding
  <1>1. CASE Pausing!LeavesPoolAlone(c)
    <2>1. Pausing!HelperEnds(c) /\ fresh' = fresh
      BY <1>1 DEF Pausing!GetPool
    <2>2. Pausing!PauseTypeOK'
      BY <1>0, <2>1, EndOfCall DEF PauseInv, Pausing!PauseTypeOK
    <2>3. ASSUME NEW d \in Callers PROVE Current(d)'
      BY <1>0, <2>1, EndOfCall DEF PauseInv, Current
    <2>4. overtaken' \subseteq Pausing!Holding'
      BY <1>0, <2>1, EndOfCall DEF PauseInv, Pausing!Holding
    <2> QED
      BY <2>2, <2>3, <2>4 DEF PauseInv
  <1>2. CASE ~Pausing!LeavesPoolAlone(c)
    <2>1. /\ step' = [step EXCEPT ![c] = "update"] /\ seen' = [seen EXCEPT ![c] = target]
          /\ fresh' = [fresh EXCEPT ![c] = TRUE] /\ op' = op
      BY <1>2 DEF Pausing!GetPool, Pausing!Copy
    <2>2. target \in 0..MaxTarget
      BY ConfigAssumption DEF PauseInv, Pausing!PauseTypeOK
    <2>3. Pausing!PauseTypeOK'
      BY <1>0, <2>1, <2>2 DEF PauseInv, Pausing!PauseTypeOK
    <2>4. ASSUME NEW d \in Callers PROVE Current(d)'
      BY <1>0, <1>2, <2>1 DEF PauseInv, Pausing!PauseTypeOK, Current, Pausing!LeavesPoolAlone
    <2>5. overtaken' \subseteq Pausing!Holding'
      BY <1>0, <2>1 DEF PauseInv, Pausing!PauseTypeOK, Pausing!Holding
    <2> QED
      BY <2>3, <2>4, <2>5 DEF PauseInv
  <1> QED
    BY <1>1, <1>2

\* An update that is accepted writes the rest of the pool back as it is, and nobody has touched
\* the pause since the call read it.
LEMMA AcceptedUpdate ==
  ASSUME PauseInv, NEW c \in Callers, Pausing!UpdatePool(c)
  PROVE  /\ target' = target
         /\ c \notin overtaken
         /\ op[c] = "unpauseIfOurs" => marked
  BY DEF PauseInv, Current, Pausing!UpdatePool, Pausing!Accepts

LEMMA UpdatePreserves ==
  ASSUME PauseInv, NEW c \in Callers, Pausing!UpdatePool(c)
  PROVE  PauseInv'
  <1>1. Pausing!HelperEnds(c) /\ target' = target
    BY AcceptedUpdate DEF Pausing!UpdatePool
  <1>2. paused' \in BOOLEAN /\ marked' \in BOOLEAN
    BY DEF Pausing!UpdatePool
  <1>3. \/ fresh' = [d \in Callers |-> FALSE]
        \/ fresh' = [fresh EXCEPT ![c] = FALSE] /\ marked' = marked /\ overtaken' = overtaken \ {c}
    BY DEF Pausing!UpdatePool
  <1>4. fresh' \in [Callers -> BOOLEAN]
    BY <1>3 DEF PauseInv, Pausing!PauseTypeOK
  <1>5. overtaken' \subseteq Pausing!Holding'
    <2>1. overtaken' \subseteq Pausing!Holding \ {c}
      BY DEF Pausing!UpdatePool, PauseInv
    <2> QED
      BY <1>1, <2>1, EndOfCall DEF Pausing!Holding
  <1>6. Pausing!PauseTypeOK'
    BY <1>1, <1>2, <1>4, <1>5, EndOfCall DEF PauseInv, Pausing!PauseTypeOK, Pausing!Holding
  <1>7. ASSUME NEW d \in Callers PROVE Current(d)'
    BY <1>1, <1>3, EndOfCall DEF PauseInv, Pausing!PauseTypeOK, Current
  <1> QED
    BY <1>5, <1>6, <1>7 DEF PauseInv

LEMMA FailurePreserves ==
  ASSUME PauseInv, NEW c \in Callers, Pausing!HelperFails(c)
  PROVE  PauseInv'
  <1>1. /\ Pausing!HelperEnds(c) /\ fresh' = [fresh EXCEPT ![c] = FALSE]
        /\ UNCHANGED <<target, paused, marked>> /\ overtaken' = overtaken \ {c}
    BY DEF Pausing!HelperFails
  <1>2. Pausing!PauseTypeOK'
    BY <1>1, EndOfCall DEF PauseInv, Pausing!PauseTypeOK
  <1>3. ASSUME NEW d \in Callers PROVE Current(d)'
    BY <1>1, EndOfCall DEF PauseInv, Pausing!PauseTypeOK, Current
  <1>4. overtaken' \subseteq Pausing!Holding'
    BY <1>1, EndOfCall DEF PauseInv, Pausing!Holding
  <1> QED
    BY <1>2, <1>3, <1>4 DEF PauseInv

LEMMA PausePreserved == PauseInv /\ [Pausing!PauseNext]_(Pausing!pauseAll) => PauseInv'
  <1>1. ASSUME PauseInv, UNCHANGED Pausing!pauseAll PROVE PauseInv'
    BY <1>1 DEF PauseInv, Pausing!PauseTypeOK, Pausing!Holding, Current, Pausing!pauseAll, Pausing!pauseVars
  <1> QED
    BY <1>1, OthersPreserve, StartPreserves, GetPreserves, UpdatePreserves, FailurePreserves
    DEF Pausing!PauseNext, Pausing!Helper

\* The invariant everything else follows from.
THEOREM PauseInvariance == Pausing!PauseSpec => []PauseInv
  BY PauseInitially, PausePreserved, PTL DEF Pausing!PauseSpec

\* The state stays in its declared sets, whoever writes the pool.
THEOREM PauseTypeCorrect == Pausing!PauseSpec => []Pausing!PauseTypeOK
  <1>1. PauseInv => Pausing!PauseTypeOK
    BY DEF PauseInv
  <1> QED
    BY <1>1, PauseInvariance, PTL

\* How a call leaves its update: it was accepted, or it changed nothing.
LEMMA EndOfUpdate ==
  ASSUME PauseInv, [Pausing!PauseNext]_(Pausing!pauseAll), NEW c \in Callers, step[c] = "update", step'[c] # "update"
  PROVE  Pausing!UpdatePool(c) \/ UNCHANGED <<target, paused, marked>>
  <1>1. UNCHANGED step => FALSE
    OBVIOUS
  <1>2. PICK d \in Callers : Pausing!Helper(d)
    BY <1>1 DEF Pausing!PauseNext, Pausing!pauseAll, Pausing!pauseVars, Pausing!AdminPatches, Pausing!ControllerRenders,
                Pausing!ControllerWritesStatus
  <1>3. ASSUME Pausing!UpdatePool(d), d # c PROVE FALSE
    BY <1>3 DEF Pausing!UpdatePool, Pausing!HelperEnds, PauseInv, Pausing!PauseTypeOK
  <1> QED
    BY <1>2, <1>3 DEF Pausing!Helper, Pausing!StartHelper, Pausing!GetPool, Pausing!HelperFails

\* No helper writes over what a controller wrote while the helper held its copy of the pool
\* (setMachineConfigPoolPauseState sends the whole object back).
THEOREM WritesAreKept == Pausing!PauseSpec => Pausing!NoWriteIsLost
  <1> DEFINE Kept == \A c \in Callers :
                        (step[c] = "update" /\ step'[c] # "update") => target' = target
  <1>1. PauseInv /\ [Pausing!PauseNext]_(Pausing!pauseAll) => [Kept]_(Pausing!pauseAll)
    BY EndOfUpdate, AcceptedUpdate
  <1> QED
    BY <1>1, PauseInvariance, PTL DEF Pausing!PauseSpec, Pausing!NoWriteIsLost

\* UnpauseMachineConfigPoolOnlyIfWePausedIt lifts only the pause it read, of a pool that has the
\* annotation, however the calls of helpers and administrators interleave.
THEOREM PausesAreKept == Pausing!PauseSpec => Pausing!OnlyMarkedPauseIsLifted
  <1> DEFINE Marked == \A c \in Callers :
                          (op[c] = "unpauseIfOurs" /\ step[c] = "update" /\ step'[c] # "update"
                             /\ paused /\ ~paused') => marked /\ c \notin overtaken
  <1>1. PauseInv /\ [Pausing!PauseNext]_(Pausing!pauseAll) => [Marked]_(Pausing!pauseAll)
    BY EndOfUpdate, AcceptedUpdate
  <1> QED
    BY <1>1, PauseInvariance, PTL DEF Pausing!PauseSpec, Pausing!OnlyMarkedPauseIsLifted

---------------------------------------------------------------------------
(* The composition.                                                         *)

\* The wait changes nothing of the pool.
LEMMA WaitKeepsPool == WatcherStep \/ CallStep \/ Tick => UNCHANGED cluster
  <1>1. ASSUME NEW w \in Watchers, PreludeFails(w) \/ QueryFails(w) \/ PollExpires(w)
        PROVE  UNCHANGED cluster
    BY <1>1 DEF PreludeFails, QueryFails, PollExpires
  <1>2. GetInitialPool \/ ListNodesOfPool \/ GetPoolOfNodes \/ GetMachineOSConfigForPool
          => UNCHANGED cluster
    BY DEF GetInitialPool, ListNodesOfPool, GetPoolOfNodes, GetMachineOSConfigForPool
  <1>3. PollStart \/ PollPool \/ PollNodes => UNCHANGED cluster
    BY DEF PollStart, PollPool, PollNodes, QueryAnswered
  <1>4. CallStep \/ Tick => UNCHANGED cluster
    BY DEF CallStep, StartCall, ListPools, Proceed, Return, Tick
  <1> QED
    BY <1>1, <1>2, <1>3, <1>4 DEF WatcherStep

\* What the cluster's steps do to the config the pool asks for.
LEMMA NodeStepsKeepTarget ==
  ASSUME NEW n \in Nodes, AssignNode(n) \/ DaemonStarts(n) \/ DaemonFinishes(n) \/ DaemonFails(n)
                            \/ NodeLeaves(n) \/ NodeJoins(n)
  PROVE  target' = target
  BY DEF AssignNode, DaemonStarts, DaemonFinishes, DaemonFails, NodeLeaves, NodeJoins

LEMMA StepIsPauseStep == PoolNext => [Pausing!PauseNext]_(Pausing!pauseAll)
  <1> USE DEF Pausing!pauseAll, Pausing!pauseVars
  <1>1. CASE PoolCluster
    <2>0. UNCHANGED <<paused, marked, step, op, seen, overtaken>>
      BY <1>1 DEF PoolCluster
    <2>1. CASE NewTarget /\ Pausing!Stale
      BY <2>0, <2>1 DEF NewTarget, Pausing!PauseNext, Pausing!ControllerRenders
    <2>2. CASE WritesStatus /\ IF pool' # pool THEN Pausing!Stale ELSE UNCHANGED fresh
      <3>1. target' = target
        BY <2>2 DEF WritesStatus, SyncPool, SyncPoolAs
      <3>2. Pausing!Stale \/ UNCHANGED fresh
        BY <2>2
      <3> QED
        BY <2>0, <3>1, <3>2 DEF Pausing!PauseNext, Pausing!ControllerWritesStatus
    <2>3. CASE BuildImage /\ UNCHANGED fresh
      BY <2>0, <2>3 DEF BuildImage
    <2>4. ASSUME NEW n \in Nodes,
                 AssignNode(n) \/ DaemonStarts(n) \/ DaemonFinishes(n) \/ DaemonFails(n)
                   \/ NodeLeaves(n) \/ NodeJoins(n), UNCHANGED fresh
          PROVE  UNCHANGED Pausing!pauseAll
      BY <2>0, <2>4, NodeStepsKeepTarget
    <2> QED
      BY <1>1, <2>1, <2>2, <2>3, <2>4 DEF PoolCluster, AssignUnlessPaused
  <1>2. CASE Waits
    BY <1>2, WaitKeepsPool DEF Waits, WaitDoes, pausing, cluster
  <1>3. CASE Pauses
    BY <1>3 DEF Pauses, Pausing!PauseNext
  <1>4. CASE PoolReturned
    BY <1>4 DEF PoolReturned, allVars, vars, cluster, pausing
  <1> QED
    BY <1>1, <1>2, <1>3, <1>4 DEF PoolNext

\* Seen from the helpers of apiutils.go the composition is PoolPause, whatever the waiting
\* call and the nodes do.
THEOREM ComposedIsPause == PoolSpec => Pausing!PauseSpec
  <1>1. PoolInit => Pausing!PauseInit
    BY DEF PoolInit
  <1>2. [PoolNext]_allVars => [Pausing!PauseNext]_(Pausing!pauseAll)
    BY StepIsPauseStep DEF allVars, vars, cluster, pausing, Pausing!pauseAll, Pausing!pauseVars
  <1> QED
    BY <1>1, <1>2, PTL DEF PoolSpec, Pausing!PauseSpec

LEMMA PauseInvariantHolds == PoolSpec => []PauseInv
  BY ComposedIsPause, PauseInvariance, PTL

\* A helper's write leaves the config of the pool as it is, so the wait sees only steps of
\* its own cluster.
LEMMA StepIsWaitStep == PauseInv /\ [PoolNext]_allVars => [Next]_vars
  <1> SUFFICES ASSUME PauseInv, [PoolNext]_allVars PROVE [Next]_vars
    OBVIOUS
  <1>1. CASE PoolCluster
    BY <1>1 DEF PoolCluster, WritesStatus, AssignUnlessPaused, Cluster, Next
  <1>2. CASE Waits
    BY <1>2 DEF Waits, WaitDoes, Next
  <1>3. CASE Pauses
    <2>1. ASSUME NEW c \in Callers, Pausing!Helper(c) PROVE target' = target
      <3>1. CASE Pausing!UpdatePool(c)
        BY <3>1 DEF PauseInv, Current, Pausing!UpdatePool, Pausing!Accepts
      <3> QED
        BY <2>1, <3>1 DEF Pausing!Helper, Pausing!StartHelper, Pausing!GetPool, Pausing!HelperFails
    <2>2. target' = target
      BY <1>3, <2>1 DEF Pauses, Pausing!AdminPatches
    <2> QED
      BY <1>3, <2>2 DEF Pauses, waiting, vars, cluster
  <1>4. CASE PoolReturned \/ UNCHANGED allVars
    BY <1>4 DEF PoolReturned, allVars
  <1> QED
    BY <1>1, <1>2, <1>3, <1>4 DEF PoolNext

\* Seen from the watchers of machineconfigpool.go the composition is PoolWait: pausing is
\* nothing but a cluster that takes its time.
THEOREM ComposedIsWait == PoolSpec => ImplementsPoolWait
  <1>1. PoolInit => Init
    BY DEF PoolInit
  <1> QED
    BY <1>1, PauseInvariantHolds, StepIsWaitStep, PTL DEF PoolSpec, Spec, ImplementsPoolWait

\* So success still means what it says when helpers pause and unpause the pool.
THEOREM ComposedCompletionIsSound == PoolSpec => []CompletionSound
  BY ComposedIsWait, CompletionIsSound, PTL DEF ImplementsPoolWait

\* And the conditional unpause of a teardown is as careful as alone.
THEOREM ComposedKeepsPauses == PoolSpec => OnlyMarkedPauseIsLifted
  BY ComposedIsPause, PausesAreKept, PTL DEF OnlyMarkedPauseIsLifted

---------------------------------------------------------------------------
(* A wait on a paused pool.                                                 *)
\* A node that is held lacks the pool's config, and the one the watcher waits for; so no
\* poll has taken it for done.
HeldInv ==
    /\ held \subseteq Pending
    /\ call = "none" => held = {}
    /\ pc["nodes"] \in {"getMosc", "poll"} => \A n \in held : node[n].dcfg # snapCfg
    /\ held \cap doneNodes = {}
    /\ pc["nodes"] = "ok" => held = {}
    /\ updates = "updated" => held = {}
    /\ (call # "none" /\ mode = "onlyNodes") => pc["nodes"] # "idle"
    /\ (call \in {"running", "ok"} /\ mode = "all") => pc["nodes"] # "idle"
    /\ call = "ok" => held = {}

LEMMA HeldInitially == PoolInit => HeldInv
  BY DEF PoolInit, Init, HeldInv, Watchers

\* Once the call has begun no node is added to those held, and what a held node is asked
\* for does not change: only an unpaused pool assigns configs.
LEMMA HeldShrinks ==
  ASSUME TypeOK, PoolNext, HeldInv
  PROVE  /\ held' \subseteq Pending'
         /\ held' \subseteq held \/ (StartCall /\ UNCHANGED cluster /\ held' \subseteq Pending)
         /\ \A n \in held' : node'[n].dcfg = node[n].dcfg
  <1>1. CASE PoolCluster /\ TracksHeld
    <2>1. call' = call /\ paused' = paused
      BY <1>1, ClusterFrame DEF PoolCluster, WritesStatus, AssignUnlessPaused, Cluster
    <2>2. held' \subseteq held /\ held' \subseteq Pending'
      BY <1>1, <2>1 DEF TracksHeld
    <2>3. ASSUME NEW n \in held' PROVE node'[n].dcfg = node[n].dcfg
      <3>0. paused /\ n \in held /\ n \in Members /\ n \in Members' /\ n \in Nodes
        BY <1>1, <2>1, <2>2, <2>3 DEF TracksHeld, HeldInv, Pending, Members
      <3>1. CASE UNCHANGED node
        BY <3>1
      <3>2. ASSUME NEW m \in Nodes, DaemonStarts(m) \/ DaemonFinishes(m) \/ DaemonFails(m)
            PROVE  node'[n].dcfg = node[n].dcfg
        BY <3>0, <3>2 DEF DaemonStarts, DaemonFinishes, DaemonFails, TypeOK, NodeState
      <3>3. ASSUME NEW m \in Nodes, NodeLeaves(m) PROVE node'[n].dcfg = node[n].dcfg
        BY <3>0, <3>3 DEF NodeLeaves, TypeOK, NodeState, Members, At
      <3>4. ASSUME NEW m \in Nodes, NodeJoins(m) PROVE node'[n].dcfg = node[n].dcfg
        BY <3>0, <3>4 DEF NodeJoins, TypeOK, NodeState, Members
      <3>5. NewTarget \/ WritesStatus \/ BuildImage => UNCHANGED node
        BY DEF NewTarget, WritesStatus, SyncPool, SyncPoolAs, BuildImage
      <3> QED
        BY <1>1, <3>0, <3>1, <3>2, <3>3, <3>4, <3>5 DEF PoolCluster, AssignUnlessPaused
    <2> QED
      BY <2>2, <2>3
  <1>2. CASE Waits
    <2>1. UNCHANGED cluster /\ Pending' = Pending
      BY <1>2, WaitKeepsPool DEF Waits, WaitDoes, Pending, Members, cluster
    <2>2. call = "none" /\ call' # "none" => StartCall
      <3>1. WatcherStep => call' = call
        BY WatcherFrame
      <3> QED
        BY <1>2, <3>1 DEF Waits, WaitDoes, CallStep, ListPools, Proceed, Return, Tick
    <2>3. \/ held' = {}
          \/ call = "none" /\ call' # "none" /\ held' = Pending
          \/ held' = held \cap Pending'
      BY <1>2 DEF Waits, WaitDoes, TracksHeld
    <2> QED
      BY <2>1, <2>2, <2>3 DEF cluster
  <1>3. CASE Pauses /\ TracksHeld
    <2>1. call' = call /\ node' = node
      BY <1>3 DEF Pauses, waiting
    <2> QED
      BY <1>3, <2>1 DEF TracksHeld
  <1>4. CASE PoolReturned
    BY <1>4 DEF PoolReturned, allVars, vars, cluster, Pending, Members, HeldInv
  <1> QED
    BY <1>1, <1>2, <1>3, <1>4 DEF PoolNext

LEMMA HeldInCluster ==
  ASSUME IInv, IInv', HeldInv, PoolNext, PoolCluster, TracksHeld
  PROVE  HeldInv'
  <1>1. UNCHANGED <<mode, call, pc, watch>>
    BY ClusterFrame DEF PoolCluster, WritesStatus, AssignUnlessPaused, Cluster
  <1>2. ~StartCall
    BY <1>1 DEF StartCall
  <1>3. /\ held' \subseteq Pending' /\ held' \subseteq held
        /\ \A n \in held' : node'[n].dcfg = node[n].dcfg
    BY <1>2, HeldShrinks DEF IInv
  <1>4. updates' = "updated" => updates = "updated" \/ Pending = {}
    <2>1. CASE SyncPool
      <3>1. ASSUME AllAtTarget, NEW n \in Members PROVE node[n].dcfg = target
        <4>1. node[n] \in NodeState
          BY <3>1 DEF Members, IInv, TypeOK
        <4>2. [node[n] EXCEPT !.state = "Done", !.cfg = target, !.dcfg = target].dcfg = target
          BY <4>1 DEF NodeState
        <4>3. node[n] = [node[n] EXCEPT !.state = "Done", !.cfg = target, !.dcfg = target]
          BY <3>1 DEF AllAtTarget
        <4> QED
          BY <4>2, <4>3
      <3>2. AllAtTarget => Pending = {}
        BY <3>1 DEF Pending
      <3> QED
        BY <2>1, <3>2 DEF SyncPool, SyncPoolAs
    <2>2. CASE ~SyncPool
      BY <2>2 DEF PoolCluster, WritesStatus, AssignUnlessPaused, NewTarget, BuildImage, AssignNode,
         DaemonStarts, DaemonFinishes, DaemonFails, NodeLeaves, NodeJoins, history
    <2> QED
      BY <2>1, <2>2
  <1> QED
    BY <1>1, <1>3, <1>4 DEF HeldInv, watch

\* The call begins: no watcher has seen anything, and no mode waits without one.
LEMMA HeldAtStart ==
  ASSUME IInv, IInv', HeldInv, PoolNext, StartCall
  PROVE  HeldInv'
  <1>1. held' \subseteq Pending'
    BY HeldShrinks DEF IInv
  <1>2. pc["nodes"] = "idle" /\ doneNodes = {} /\ mode \in AllModes
    BY DEF StartCall, IInv, CallInv, SeenInv, Watchers, TypeOK
  <1>3. pc'["nodes"] = IF mode = "onlyNodes" THEN "list" ELSE "idle"
    BY <1>2 DEF StartCall, FirstWatchers, Launched, FirstStep, Watchers, AllModes
  <1>4. call' = (IF mode = "all" THEN "listing" ELSE "running") /\ mode' = mode
        /\ updates' # "updated" /\ doneNodes' = {}
    BY <1>2 DEF StartCall, watch
  <1> QED
    BY <1>1, <1>2, <1>3, <1>4 DEF HeldInv, AllModes

LEMMA HeldInWatcher ==
  ASSUME IInv, IInv', HeldInv, PoolNext, WatcherStep
  PROVE  HeldInv'
  <1>1. UNCHANGED <<cluster, mode, call, updates>> /\ ~StartCall
    BY WatcherFrame DEF StartCall, IInv, CallInv, Active, Watchers, Preludes
  <1>2. held' \subseteq Pending' /\ held' \subseteq held
    BY <1>1, HeldShrinks DEF IInv
  <1>t. "nodes" \in Watchers /\ pc \in [Watchers -> Steps]
    BY DEF IInv, TypeOK, Watchers
  <1>3. pc["nodes"] # "idle" => pc'["nodes"] # "idle"
    <2>1. PICK w \in Watchers, next \in Steps \ {"idle"} : pc' = [pc EXCEPT ![w] = next]
      BY WatcherFrame DEF IInv
    <2> QED
      BY <1>t, <2>1
  <1>4. CASE PollNodes
    <2>1. held \cap {n \in Examined : Done(n)} = {}
      <3>1. pc["nodes"] = "poll"
        BY <1>4 DEF PollNodes, QueryAnswered
      <3> QED
        BY <3>1 DEF HeldInv, Done, isNodeDoneAtPool, isNodeConfigDone
    <2>2. held' \cap doneNodes' = {}
      BY <1>2, <1>4, <2>1 DEF PollNodes, HeldInv
    <2>3. pc'["nodes"] = "ok" => held' = {}
      <3>1. ASSUME pc'["nodes"] = "ok" PROVE Members \subseteq doneNodes'
        <4>1. doneNodes' = nodesForPool'
          BY <1>4, <1>t, <3>1 DEF PollNodes, To
        <4> QED
          BY <1>4, <4>1 DEF PollNodes, GainedNodes
      <3> QED
        BY <2>2, <3>1, <1>1, <1>2 DEF Pending, Members, cluster
    <2>4. snapCfg' = snapCfg /\ pc["nodes"] = "poll"
      BY <1>4 DEF PollNodes, QueryAnswered
    <2> QED
      BY <1>1, <1>2, <1>3, <2>2, <2>3, <2>4 DEF HeldInv, cluster
  <1>5. CASE GetPoolOfNodes
    <2>1. snapCfg' = target /\ doneNodes' = doneNodes /\ pc'["nodes"] = "getMosc"
      BY <1>5, <1>t DEF GetPoolOfNodes, To
    <2>2. \A n \in held' : node'[n].dcfg # snapCfg'
      BY <1>1, <1>2, <2>1 DEF Pending, cluster
    <2> QED
      BY <1>1, <1>2, <1>3, <2>1, <2>2 DEF HeldInv
  <1>6. CASE ~PollNodes /\ ~GetPoolOfNodes
    <2>1. snapCfg' = snapCfg /\ doneNodes' = doneNodes
      BY <1>6 DEF WatcherStep, PreludeFails, QueryFails, PollExpires, GetInitialPool, ListNodesOfPool,
         GetMachineOSConfigForPool, PollStart, PollPool, QueryAnswered, watch
    <2>2. pc'["nodes"] = pc["nodes"] \/ pc'["nodes"] \notin {"getMosc", "ok"}
      BY <1>6, <1>t DEF WatcherStep, PreludeFails, QueryFails, PollExpires, GetInitialPool,
         ListNodesOfPool, GetMachineOSConfigForPool, PollStart, PollPool, QueryAnswered, To,
         Expiry, Failures, Watchers
    <2>3. pc'["nodes"] = "poll" => pc["nodes"] \in {"getMosc", "poll"}
      BY <1>6, <1>t DEF WatcherStep, PreludeFails, QueryFails, PollExpires, GetInitialPool,
         ListNodesOfPool, GetMachineOSConfigForPool, PollStart, PollPool, QueryAnswered, To,
         Expiry, Failures, Watchers
    <2> QED
      BY <1>1, <1>2, <1>3, <2>1, <2>2, <2>3 DEF HeldInv, cluster
  <1> QED
    BY <1>4, <1>5, <1>6

LEMMA HeldInCall ==
  ASSUME IInv, IInv', HeldInv, PoolNext, ListPools \/ Proceed \/ Return \/ Tick
  PROVE  HeldInv'
  <1>1. UNCHANGED <<cluster, mode, updates, snapCfg, doneNodes>> /\ ~StartCall
    BY DEF ListPools, Proceed, Return, Tick, StartCall, history, watch
  <1>2. held' \subseteq Pending' /\ held' \subseteq held
    BY <1>1, HeldShrinks DEF IInv
  <1>t. "nodes" \in Watchers /\ pc \in [Watchers -> Steps] /\ mode \in AllModes
    BY DEF IInv, TypeOK, Watchers
  <1>3. CASE ListPools
    <2>1. pc'["nodes"] = (IF call' = "running" THEN "list" ELSE pc["nodes"])
          /\ call' \in {"running", "failed"} /\ call = "listing"
      BY <1>3, <1>t DEF ListPools, Launched, FirstStep
    <2>2. mode = "all"
      BY <2>1 DEF IInv, CallInv
    <2> QED
      BY <1>1, <1>2, <2>1, <2>2 DEF HeldInv, cluster
  <1>4. CASE Proceed
    <2>1. pc'["nodes"] \in {"list", pc["nodes"]} /\ call' = call
      BY <1>4, <1>t DEF Proceed, Launched, FirstStep
    <2> QED
      BY <1>1, <1>2, <2>1 DEF HeldInv, cluster
  <1>5. CASE Return
    <2>1. pc' = pc /\ call = "running" /\ call' \in {"ok", "failed"}
      BY <1>5 DEF Return
    <2>2. call' = "ok" => (mode \in {"onlyNodes", "all"} => pc["nodes"] = "ok")
      BY <1>5, <1>t, <2>1 DEF Return, JoinAll, Ended, HeldInv
    <2>3. call' = "ok" => (mode \in {"update", "onlyPool"} => updates = "updated")
      BY <1>1, <2>1 DEF IInv, PhaseInv
    <2>4. call' = "ok" => held = {}
      BY <1>t, <2>2, <2>3 DEF HeldInv, AllModes
    <2> QED
      BY <1>1, <1>2, <2>1, <2>4 DEF HeldInv, cluster
  <1>6. CASE Tick
    BY <1>1, <1>2, <1>6 DEF Tick, HeldInv, cluster
  <1> QED
    BY <1>3, <1>4, <1>5, <1>6

LEMMA HeldInductive == IInv /\ IInv' /\ HeldInv /\ [PoolNext]_allVars => HeldInv'
  <1> SUFFICES ASSUME IInv, IInv', HeldInv, [PoolNext]_allVars PROVE HeldInv'
    OBVIOUS
  <1>1. CASE PoolNext /\ PoolCluster /\ TracksHeld
    BY <1>1, HeldInCluster
  <1>2. CASE PoolNext /\ Waits
    BY <1>2, HeldAtStart, HeldInWatcher, HeldInCall DEF Waits, WaitDoes, CallStep
  <1>3. CASE PoolNext /\ Pauses /\ TracksHeld
    <2>1. UNCHANGED <<node, pool, mode, call, pc, watch, history>> /\ ~StartCall
      BY <1>3 DEF Pauses, waiting, StartCall
    <2>2. held' \subseteq Pending' /\ held' \subseteq held
      BY <1>3, <2>1, HeldShrinks DEF IInv
    <2> QED
      BY <2>1, <2>2 DEF HeldInv, watch, history
  <1>4. CASE PoolReturned \/ UNCHANGED allVars
    BY <1>4 DEF PoolReturned, allVars, vars, cluster, watch, history, HeldInv, Pending, Members
  <1> QED
    BY <1>1, <1>2, <1>3, <1>4 DEF PoolNext

\* A wait on a pool that stays paused is never ended by nodes that are at rest at an old
\* config, for every number of nodes, entry point and interleaving of helpers.
THEOREM PausedWaitIsSound == PoolSpec => []PausedPoolIsNotDone
  <1>1. PoolSpec => []IInv
    BY ComposedIsWait, Invariance, PTL DEF ImplementsPoolWait
  <1>2. HeldInv => PausedPoolIsNotDone
    BY DEF HeldInv, PausedPoolIsNotDone
  <1> QED
    BY <1>1, <1>2, HeldInitially, HeldInductive, PTL DEF PoolSpec
=============================================================================
