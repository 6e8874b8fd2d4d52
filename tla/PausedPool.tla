---------------------------- MODULE PausedPool ----------------------------
(***************************************************************************)
(* The composition of PoolWait and PoolPause: one pool, which helpers of     *)
(* apiutils.go and administrators pause and unpause while a call of          *)
(* machineconfigpool.go waits for it.  They meet in the pool object: what a  *)
(* helper writes back holds the config the watchers wait for, the status     *)
(* the controllers write refuses a helper's stale copy, and a paused pool     *)
(* gives its nodes nothing new.                                              *)
(***************************************************************************)
EXTENDS PoolWait

CONSTANTS Callers       \* helper calls that may be under way

VARIABLES
    paused, marked, step, op, seen, fresh, overtaken,       \* see PoolPause
    held            \* history: nodes that had to wait for the pause when the call began

Pausing == INSTANCE PoolPause

pausing == <<paused, marked, step, op, seen, fresh, overtaken>>
waiting == <<built, node, pool, changes, now, mode, call, pc, firstErr, watch, history>>
allVars == <<vars, pausing, held>>

Pending == {n \in Members : node[n].dcfg # target}

\* A node is held from the start of the call for as long as the pool stays paused and the
\* node in it.
TracksHeld ==
    held' = IF ~paused' THEN {}
            ELSE IF call = "none" /\ call' # "none" THEN Pending ELSE held \cap Pending'

PoolTypeOK == TypeOK /\ Pausing!PauseTypeOK /\ held \subseteq Nodes

PoolInit == Init /\ Pausing!PauseInit /\ held = {}

---------------------------------------------------------------------------
\* The node controller asks no node of a paused pool for anything (external).
AssignUnlessPaused(n) == ~paused /\ AssignNode(n) /\ UNCHANGED fresh

\* A pool that is not Updated is Updating, unless it is paused (external).
WritesStatus == SyncPool /\ pool'.updating = (~paused /\ ~pool'.updated)

\* A write of the pool makes the helpers' copies stale, one that changes nothing does not.
PoolCluster ==
    /\ call \notin {"ok", "failed"}
    /\ \/ NewTarget /\ Pausing!Stale
       \/ WritesStatus /\ IF pool' # pool THEN Pausing!Stale ELSE UNCHANGED fresh
       \/ BuildImage /\ UNCHANGED fresh
       \/ \E n \in Nodes :
             \/ AssignUnlessPaused(n)
             \/ /\ DaemonStarts(n) \/ DaemonFinishes(n) \/ DaemonFails(n)
                   \/ NodeLeaves(n) \/ NodeJoins(n)
                /\ UNCHANGED fresh
    /\ UNCHANGED <<paused, marked, step, op, seen, overtaken>>

\* The wait itself knows nothing of pausing.
WaitDoes(A) == A /\ UNCHANGED pausing /\ TracksHeld
Waits == WaitDoes(WatcherStep \/ CallStep \/ Tick)

\* Helpers and administrators work on the same object.
Pauses ==
    /\ call \notin {"ok", "failed"}
    /\ Pausing!AdminPatches \/ \E c \in Callers : Pausing!Helper(c)
    /\ UNCHANGED waiting

PoolReturned == Returned /\ UNCHANGED allVars

PoolNext ==
    \/ PoolCluster /\ TracksHeld
    \/ Waits
    \/ Pauses /\ TracksHeld
    \/ PoolReturned

PoolSpec == PoolInit /\ [][PoolNext]_allVars

\* Goroutines are scheduled: a watcher whose context expired ends, a call whose watchers
\* ended returns, and while the context lives the API server answers the nodes watcher
\* again and again.  Nothing is assumed of the cluster, nor that the deadline comes, nor of
\* helpers and administrators: a pool may stay paused for ever.
PoolFairSpec ==
    /\ PoolSpec
    /\ WF_allVars(WaitDoes(CallStep)) /\ WF_allVars(WaitDoes(PollNodes))
    /\ \A w \in Watchers :
          WF_allVars(WaitDoes(PollExpires(w))) /\ WF_allVars(WaitDoes(PreludeFails(w)))

---------------------------------------------------------------------------
\* A wait on a pool that was paused before it began, and stays paused, does not take the
\* nodes for done that run an old config and are at rest: they agree with what they are
\* asked for, but not with what the pool asks for (isNodeDoneAtPool).
PausedPoolIsNotDone == call = "ok" => held = {}

\* Seen from the watchers of machineconfigpool.go the composition is PoolWait: a helper
\* that writes its copy of the pool back never turns the pool's config back under a wait,
\* because the API server refuses a stale copy.
ImplementsPoolWait == Spec

\* The unpause of a teardown lifts no pause that an administrator put on the pool, or took
\* for its own, after the helper read it, whatever the controllers and the wait do meanwhile.
OnlyMarkedPauseIsLifted == Pausing!OnlyMarkedPauseIsLifted
===========================================================================
