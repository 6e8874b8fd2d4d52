# Formal models of zacks-openshift-helpers

This directory holds TLA+ models of the Go programs in this repository, the TLC
configurations that check them on small instances, and TLAPS proofs for every value of
the constants. `tlc -config X.cfg M` checks a configuration, `tlapm M.tla` a proof.
`PROJECT.json` lists the runs, the source lines behind each definition, the mutants that
show that each property can fail, the hazards, the findings and the theorems.

## 1. The system

The repository is a set of command line helpers for people who develop the Machine Config
Operator (MCO) of OpenShift. They have no server and no shared memory beyond the goroutines
of one call: the state that matters lies in the cluster (API objects), at the cloud
provider, in the files of a work directory, and in the local variables of a call that
polls or retries. That is also where the difficulties lie: other actors write the same
objects, calls fail half way, processes are killed, and the next run starts from what is left.

| component | state | operations | interacts with |
|---|---|---|---|
| wait for a MachineConfigPool (`internal/pkg/rollout/machineconfigpool.go`) | the set of nodes waited for, the set found done, config and image read at the start, a `timeRetryer` per watcher | `WaitForMachineConfigPoolUpdateToComplete`, `WaitForOnlyMachineConfigPoolToComplete`, `WaitForOnlyNodesToComplete`, `WaitForAllMachineConfigPoolsToComplete` | API server (pools, nodes, MachineOSConfigs), the clock; watchers joined by an errgroup |
| MCO image rollout (`internal/pkg/rollout/rollout.go`) | none of its own: replicas of the CVO and the MCO, the images ConfigMap, DaemonSets and Deployments | `ReplaceMCOImage`, `RevertToOriginalMCOImage`, `RestartMCO`, forced restart | CVO and MCO, which write the same objects; a goroutine per object |
| revertable operations (`internal/experimental/revertable`) | which items were applied, the aggregate of errors | `RunRevertables` | `Apply` and `Revert` of the caller's items |
| cluster-lifecycle (`cmd/cluster-lifecycle`) | files of the work directory: `.vacation`, `.release`, `openshift-install`, `metadata.json`, `.current-install.yaml`, the log | `setup`, `teardown` | openshift-install, the cloud, the user, other runs in the directory |
| component rollout status (`rollout/componentstatus.go`) | last status seen | `WaitForRolloutToComplete` (no caller) | API server |
| image registry exposure (`rollout/external.go`) | the route, the role binding, the service | `ExposeClusterImageRegistry`, `UnexposeClusterImageRegistry` | registry operator, `oc` |
| pull-from-imagestream (`cmd/pull-from-imagestream`) | a temporary directory with a pull secret | one command | exposure, skopeo, podman |
| pool pausing and API helpers (`utils/apiutils.go`) | `spec.paused`, an annotation | pause, unpause, unpause only if we paused | API server, administrators |
| secrets (`utils/clone.go`, `utils/longlivedsecrets.go`) | secrets and their labels, a temporary directory with a token | clone, create or recreate, long-lived pull secret | API server, other callers |
| dualstream-release-builder (`cmd/dualstream-release-builder`) | a container of a fixed name, image references of a release | one command | podman, skopeo, `oc` |
| MCO repository build modes (`internal/pkg/repo`) | the Dockerfiles and Makefiles of a checkout | `SetupForBuild`, `TeardownFromBuild` | Git |
| install config (`internal/pkg/installconfig`), release controllers (`internal/pkg/releasecontroller`) | tables of kinds, architectures and variants | choose a release and the install config for it | release controllers, the flags of `setup` |
| containers, remote commands, versions, errors, small utilities | none | conversions, one request or one command each | |
| experiments, hack scripts | none | a YAML converter, a buildah entrypoint, build scripts | |

What makes each correct:

- **Pool waits**: success means that the nodes seen really are at the config the watch began with, as
  far as the code looks, and that the pool went through Updating and Updated; errors are tolerated for as long as the
  threshold says and no longer; every call ends, and leaves no watcher behind.
- **MCO rollout**: an image given to an object is not fought over with the CVO; success means the
  image is on every object and the operators are back; no write comes after the MCO was restarted.
- **Revertables**: all or nothing, as far as `Revert` allows; reverts in reverse order; each error told.
- **cluster-lifecycle**: a cluster that is up can be torn down, whatever was interrupted; the cluster
  is of the release that was chosen; the records tell what is there.
- **Registry, pool pausing, secrets, containers**: what a helper took is given back, what belongs to
  somebody else is left alone, and a run after a failed one recovers.
- **Build modes**: a client builds with the files for its branch, the user's files survive, and a
  teardown removes what a setup wrote, all of it or half of it.
- **Setup options, install config**: the install config suits the release, whichever way it was named.

## 2. Modules

| module | role |
|---|---|
| `Revertable` | `RunRevertables` as a stack of deferred closures, with every outcome of Apply and Revert |
| `AllOrNothing` | what it promises: a transaction that is applied, or undone except for what was reported |
| `RevertableProofs` | theorems about `Revertable`, for a list of any length |
| `PoolConfigs` | the rendered configs of a pool, which waiting and pausing share |
| `PoolWait` | the entry points and watchers of `machineconfigpool.go` beside a cluster that changes |
| `PoolPause` | the pausing helpers of `apiutils.go` beside administrators and controllers |
| `PausedPool` | the composition of `PoolWait` and `PoolPause` on one pool |
| `PausedPoolProofs` | theorems about `PoolWait` and `PoolPause`, that the composition implements both, and what follows, for any nodes, configs, deadline, threshold and callers |
| `MCORollout` | `rollout.go`: the calling goroutine, one goroutine per object, the two operators |
| `MCORolloutProofs` | theorems about `MCORollout`, for any objects, images and number of calls |
| `ClusterLifecycle` | setup and teardown as processes on one directory, with failures and crashes |
| `SetupOptions` | what setup makes of its options, as operators: `opts.go`, `getRelease`, the tables of install configs and release controllers |
| `ClusterLifecycleProofs` | theorems about `ClusterLifecycle` and `SetupOptions`, for any processes, releases and number of runs |
| `RepoModes` | clients that set up and tear down build modes in one checkout |
| `RepoModesProofs` | theorems about `RepoModes`, for any clients and versions |
| `RegistryPull` | pull-from-imagestream and the exposure of the registry, as runs that share one cluster |
| `RegistryPullProofs` | theorems about `RegistryPull`, for any number of runs |
| `SecretStore` | the callers of `clone.go` and `longlivedsecrets.go` on one secret |
| `SecretStoreProofs` | theorems about `SecretStore`, for any callers and any number of edits |
| `ReleaseBuilder` | dualstream-release-builder, as runs that share podman and a registry |
| `ReleaseBuilderProofs` | theorems about `ReleaseBuilder`, for any runs, requests and releases |
| `MC*` | instances for TLC |

The components share no variable inside the repository; they meet in the cluster and on disk.
pull-from-imagestream uses the exposure of the registry: `RegistryPull` has both. A wait and the pausing
helpers meet in one pool object: `PausedPool` composes them. What setup makes of its options depends on the
files of the work directory: `ClusterLifecycle` extends `SetupOptions`. Otherwise each module composes a component
with its environment, and with other callers of the same component.

### Revertable

`items` are numbered 1..N. A state is how far the loop of `RunRevertables` came, the stack of
deferred functions still to run, `errs`, `canceled` and what each `Apply` and `Revert` did.
One action per call of `Apply` (returns nil, an error, or panics), one per deferred closure, in
the order Go runs them. Its lines are `revertable.go:27-78`. `ImplementsTransaction` instantiates
`AllOrNothing` with a mapping from that state to the set of items in effect and the verdict.

### PoolWait

The cluster part (`NewTarget`, `AssignNode`, `DaemonStarts`, `SyncPool`, ...) is external: it is
modelled from what the watchers read, that is `spec.configuration`, the pool's conditions, the
annotations of the nodes and the MachineOSConfig's image. Configs are numbered; the image of
config c is c. A rendered config is named by the hash of its content, so the pool may ask for any
other config, one it asked for before included. Nodes fail, leave, join, and come back under the same
name. `MaxChanges` bounds how often the pool asks for another config or gets a node.

A watcher is `pc[w]`: `start` (`waitForMachineConfigPoolToStart`), `pool`
(`waitForMachineConfigPoolToComplete`), `nodes` (`waitForNodesToComplete`). A poll is one action,
because the code reads one list and works on that copy; the queries before the poll loop are actions
of their own, so that config, image and node list can come from different moments. `firstErr` is the
`timeRetryer`: `QueryFails` starts it or finds it reached, `QueryAnswered` clears it. A call
(`call`, `mode`) launches watchers as its entry point does, one after the other or in an errgroup,
and `Return` is the `Wait` of that group. `streak`, `updates` and `strayed` are history variables
that only properties read; `strayed` has the nodes that left, or were asked for another config, after the
watcher had found them done. The code never looks at those again, and `CompletionSound` and
`LastPollCoversMembers` say that it misses no others.

`WaitForAllMachineConfigPoolsToComplete` starts the same two watchers for each pool in one errgroup;
the model has one pool, since watchers of different pools share nothing but the join.

### PoolPause and PausedPool

A helper call reads the pool (`GetPool`), changes its copy and sends it back (`UpdatePool`); `seen` is the
rest of the object in that copy and `fresh` says whether its resourceVersion is still that of the pool. The API
server (`Accepts`, external) refuses a copy that is not fresh, and no helper retries: a conflict is one of the
failures of `HelperFails`. `marked` is the annotation `mcpPausedByHelper`; administrators pause, unpause and
annotate the pool by hand, in any combination. `overtaken` is history: the calls since whose read somebody else changed
the pause or the annotation, whatever they are by now.

`PausedPool` EXTENDS `PoolWait` and instantiates `PoolPause` over the same `target`: a helper writes the pool's config
back with the rest of its copy. Writes of either side make copies stale, and the node controller gives the nodes
of a paused pool nothing new. `ImplementsPoolWait` is `PoolWait!Spec` itself: everything that was shown of a wait
holds while others pause the pool. `held` is history: the nodes a pause held back since the call began.

### MCORollout

`pc` is the calling goroutine (prepare, scale down CVO, scale down MCO, work, scale up MCO, scale up
CVO), `g[o]` the goroutine of an object: check, read, write, delete pods. `stale` is the set of objects
somebody wrote since the goroutine read them: an `Update` of one conflicts, and
`retry.RetryOnConflict` reads again, `ConfigMapSteps` or `BackoffSteps` times. Every request may fail,
an `Update` also after it took effect. `Crash` is the death of the process at any step, which includes
a panic in a goroutine. The operators are external: a pod lives on after its Deployment was scaled
down, and writes as long as it lives. `foreign` is history: the objects an operator wrote last.

### ClusterLifecycle

`pc[p]` is a run of the program. Each file operation, call of a command and decision in between is
an action in the order of `runSetup` and `teardown`; a write that fails or is killed may leave a
truncated file (`CutShortCurrent`, `CutShortLog`), since `os.WriteFile` truncates first. The deferred
functions run on every return from the point where they were deferred, not before. `CreateCluster` and
`DestroyCluster` are what openshift-install does as far as the program can tell: create refuses a
directory with a `metadata.json`, writes that file, then brings the cluster up and may fail late.
`Overlap` says which kinds of runs may be alive at the same time.

### SetupOptions

Pure operators, named for the functions of `opts.go`, `setup.go`, `installconfig.go` and `releasecontroller.go`. A
release is its kind and architecture, a stream what its name contains. `Effective` is the record of options after
`getRelease`, which overwrites kind and architecture when a pullspec or the `.release` file names the release;
`Accepted` says whether setup gets as far as writing the install config, and `renderConfig` which embedded file it
writes, by the machines it asks for. A multi-architecture release reports the architecture of its amd64 image.

### RepoModes

`disk` is what the files of the checkout hold: what a client of some version wrote, the user's own, nothing, or a file
that was cut short. A client loads the checkout, which infers the version (`NewMCORepo`), writes one file and then the other
although the first may fail (`SetupForBuild`), and removes them the same way (`TeardownFromBuild`). The package has no
caller in the repository but its test, so the clients are external: each may stop or be killed at any step. The user
checks out branches of other versions. `disturbed`, `moved` and `kept` are history variables that say which clients the
properties speak of.

### RegistryPull

Each run of the command is an element of `Runs`, with a step per request of
`ExposeClusterImageRegistry`, `writeBuilderSecretToTempDir`, `waitForRegistryToBeAvailable`, the pull and
`UnexposeClusterImageRegistry`. A request is refused for what the cluster is like (a route that is not there,
a role nobody has), or fails by itself before or after its effect (`FailsBefore`, `FailsAfter`), which is
also what the death of the process is: `main` panics on every error and nothing is undone. The registry
operator brings a deleted Service back. `disturbed`, `uncleared` and `sawBadEnd` are history variables that
say which runs the properties speak of.

### SecretStore

All callers want a secret of the same name. `Cloners` run `createSecret` of `clone.go` (create, look at the
label, delete, create again), `Replacers` and `Creators` that of `longlivedsecrets.go`, with and without
`DeleteIfExists`, after the token, the temporary directory with the kubeconfig that holds it, and the `oc` commands
that run there; the directory is removed by a deferred call (`RemovesTempDir`), not when the process is killed. `version` is the resourceVersion; `seen` the one a clone looked at. The user creates,
replaces and deletes the secret between any two requests. A clone labels what it creates (`Labels`); the labels of
a long-lived secret come from its caller, and may include that one. The model has one namespace, the MCO's, because
`createSecret` writes there whatever namespace the caller asked for; the API server rejects a secret of
another one, which is an outcome of `Fails`.

### ReleaseBuilder

A release is its tags, in order, with what matters of their annotations, the number of `-dualstream` suffixes
in `image-references` and in `release-metadata`, and the CVO image it is built from. `createDualstreamRelease`
is one action per command, except that the two `skopeo inspect` are one: they change nothing but local
variables. `Fails` returns through the deferred removal of the temporary directory, as an error and a panic
do; `Killed` does not. `Cut` is the effect a command may have had before it failed. `store` is podman's image
store: a pull and a build move a name in it, and a push sends what the name means by then. `want` and `made`
are history: the release a run was asked to extend, and what it pushed.

## 3. Runs

Integers are bounded by constants named in each module (`MaxTarget`, `MaxChanges`, `Deadline`,
`MaxCalls`, `MaxRuns`); each action that counts has the bound as a guard.

| run | instance | shows |
|---|---|---|
| `revertable` | four items | `RevertsReachEveryItem`, `RevertsRunBackwards`, `AggregateTellsAll`, `Terminates`, and that the code implements `AllOrNothing`. Four items are a failing one, a panicking or canceling one, and one on each side; the proofs remove the bound. |
| `poolwait` | two nodes, two configs with images, two changes (other configs or joins), deadline 2, threshold 1, all entry points (5.7 million states up to symmetry) | `CompletionSound`, `TornSnapshotNeverCompletes`, `UpdateSeenThrough`, `NoWatcherLeaks`, `GivesUpAfterThreshold`, `LastPollCoversMembers`. Two nodes are one that is done and one that is not; two changes let the pool go to another config and back, or change once and get a node back that had left, between any two queries; the deadline exceeds the threshold, so that both ways to give up occur. The proofs remove the bounds. |
| `paused_pool` | one node, one helper beside administrators who pause and annotate, one change, deadline 1, threshold 1, the entry points with a watcher of nodes but the one for all pools (710 thousand states) | `ImplementsPoolWait`, `OnlyMarkedPauseIsLifted`, `PausedPoolIsNotDone`, and under `PoolFairSpec` `CallReturns` and `RestIsNoticed`. An administrator who pauses, unpauses and annotates between the two requests of a helper does all that another helper could; one node and one change keep the liveness check small; the proofs remove both bounds for the safety properties. |
| `mco_rollout` | the images ConfigMap, the MCO Deployment and the optional machine-os-builder one; two calls; one custom image (1.3 million states) | `SuccessIsEverywhere`, `CustomImageKeepsCVODown`, `NoGoroutineOutlivesJoin`, `SuccessRestoresOperators`, `CallReturns`. Two calls are a call that dies anywhere and one that starts from what it left; the three objects are one of each treatment in the code (DaemonSets are treated as the MCO Deployment is, but for the operator that writes them). |
| `lifecycle` | two processes, two releases, three runs, crashes, `--force`, `--write-log-file`; teardowns may overlap (2.3 million states up to symmetry); and every combination of options, without a bound | `TypeOK`, `ClusterKeepsItsMetadata`, `ChosenReleaseIsInstalled`, `CurrentInstallDescribesCluster`, `LogGrows`; `ConfigFitsRelease`. Three runs are setup, a run that is cut short, and the one that finds its remains. |
| `registry_pull` | three runs, two attempts to reach the registry (260 thousand states up to symmetry) | `ExposureIsWithdrawn`, `UndisturbedRunSucceeds`. Three runs are two that overlap or leave something behind, and one that comes after. |
| `secret_store` | two clones, one long-lived secret that replaces, one that does not, one edit by the user, with and without a secret at the start | `UnmanagedSecretSurvives`, `RaceLeavesWinner`, `TokenIsNotLeftBehind`, `CallsEnd`. Two clones can delete what the other created; a third caller deletes without looking; the edit falls between a look and a delete. |
| `release_builder` | two runs; a release with both CoreOS tags, a dualstream one with them in another order, one without any; results that go to a new pullspec, over the base, or become the base of the other run (143 thousand states up to symmetry) | `UndisturbedRunPublishes`, `SuccessIsOwnWork`, `EveryImageIsWhole`, `ContainerIsOwn`. Two runs are two that overlap, or one that leaves something behind and one that finds it. |
| `repo_modes` | two clients, branches of both supported versions and of another one (3.8 million states up to symmetry) | `UserFilesSurvive`, `BuildsItsBranch`, `TeardownRemovesAll`. Two clients are two of different modes at the same time, or one that was killed and one that finds its remains; `BuildsItsBranch` looks at every file of the mode, the Makefile too; the branches are the two versions a Dockerfile can be for, and one that only the normal mode accepts. |
| `lifecycle_teardown_ok` | one process, three runs, no crash | a counterexample, see Findings |
| `lifecycle_variant`, `lifecycle_release_file` | every combination of options | counterexamples, see Findings |

The runs spend their time on the properties. The type invariants of `Revertable`, `PoolWait`, `PoolPause`, `MCORollout`,
`ClusterLifecycle`, `RepoModes`, `RegistryPull`, `SecretStore` and `ReleaseBuilder` are proved for every instance, and so is
every safety property of a passing run.

Deadlock is not checked for `ClusterLifecycle`, `RegistryPull` and `ReleaseBuilder`, whose runs are limited in number: when
all have ended nothing is left to do. The other modules have a step for the state in which everything has returned, or
an environment that never stops.

Symmetry is used for node names, runs, clients and releases, in runs without a liveness property.

### Fairness

- `Revertable`: weak fairness of the single goroutine. Calls of `Apply` and `Revert` are taken to return,
  as the code itself has no timeout for them.
- `PausedPool!PoolFairSpec`: weak fairness of the call and its join, of watchers whose context has expired (the
  poll loop and the queries take the context, so they end with it), and of a poll of the nodes watcher
  while the context lives. Time is not assumed to pass: `CallReturns` says that a call ends wherever the
  deadline comes. Nothing is assumed of the cluster, nor of helpers and administrators: a pool may stay paused for
  ever. Without the poll `RestIsNoticed` would be refuted by an API server that never answers.
- `MCORollout!FairSpec`: weak fairness of the helper's steps taken together. Each request ends, with an
  answer or an error; crashes and the operators are not fair.
- `SecretStore!FairSpec`: weak fairness of each call, for the same reason. The user is not fair, and edits
  a bounded number of times: one who replaced the secret for ever could keep a call going round for ever.

## 4. Proofs

`RevertableProofs` assumes `N \in Nat`. The inductive invariant ties the program counter to the stack of
deferred closures, to what was applied and to the errors gathered so far; the refinement proof maps each
step of the code to a step of `AllOrNothing` or a stutter.

The theorems about `PoolWait` in `PausedPoolProofs` assume only that `Nodes` is a set, `Modes` are entry points and the bounds are
natural numbers, the threshold and the first config positive. `IInv` is the conjunction of

- `TypeOK`;
- `CallInv`: which watchers run in each phase of each entry point. Needed for `NoWatcherLeaks` and
  `UpdateSeenThrough`: a join of "the watchers that were launched" says nothing before it is known
  which were;
- `ImageInv`: an image belongs to the config a node got with it. Needed because the completion condition
  compares an image with the one read, and the property with the config read;
- `SeenInv`: the done nodes are among the nodes waited for, and config and image belong together once
  a node was found done;
- `SettledInv`: a node found done stays at the config of the watch until it leaves or is asked for another
  config. This is the heart of `CompletionSound`: the code never looks at a done node again, and this
  says when it need not. It holds node by node, wherever the pool's own config goes;
- `RetryInv`: the retryer's first error is the beginning of the current streak of errors;
- `PhaseInv`: what the pool's conditions went through since the call began.

Each conjunct has its lemma (`CallInductive`, `SettledInductive`, ...), in which a step of the cluster, of
a watcher, of the call and of the clock is a case; frame lemmas (`ClusterFrame`, `WatcherFrame`) say
once what each kind of step leaves alone. `TypeCorrect`, `CompletionIsSound`, `TornSnapshotIsHarmless`,
`UpdateIsSeenThrough`, `NoLeak`, `GivesUpInTime` and `LastPollIsComplete` follow for every number of nodes,
configs and ticks.

Those about `PoolPause` assume only that there is a config. Its invariant `PauseInv` adds to `PauseTypeOK` what the
resourceVersion is for: a call that is about to update and whose copy is fresh holds the pool as it is, and, if it is the
conditional unpause, the pool has the annotation; nobody has changed the pause or the annotation since it was read
(`overtaken`). Every write by anybody else makes the copy stale, which is why
`NoWriteIsLost` and `OnlyMarkedPauseIsLifted` hold for any number of callers although no call locks anything.

The rest of the module maps each step of the composition to a step or a stutter of either part: `ComposedIsPause`, and from
its invariant (an accepted copy holds the current config) `ComposedIsWait`. Then every safety theorem about `PoolWait`
holds of the composition (`ComposedCompletionIsSound` is the first of them). `PausedWaitIsSound` needs `HeldInv`: a node
that is held back is asked neither for the pool's config nor for the one the watcher read, is not among the done nodes,
and no watcher that ended well leaves one.

`ClusterLifecycleProofs` has two layers. `LocalInv` needs no condition: what a run knows at its step (`RunInv`), and that a
run which never shared the directory is alone and holds the log as it is (`NotShared`). `TypeCorrect` and `LogOnlyGrows` follow.
The other three properties have the hypothesis `SetupsAlone`, that no setup shares the directory with another run; teardowns may
share it, and any run may be killed anywhere. The code does not ensure it, as nothing locks the directory, and without it TLC
refutes all three: a setup that starts while a teardown still removes files loses what it wrote. Under it `IInv` adds

- `AloneInv`: a setup that is alive is alone;
- `SetupInv`: what a setup finds is what it left. When it creates the cluster the installer is of its release; the current install
  is its entry until it rewrites it; there is no metadata before it creates a cluster, unless it runs over one;
- `TeardownInv`: a graceful teardown goes past its destroy only when no cluster is up. This is why overlapping teardowns may
  remove each other's files: whoever removes the metadata knows that there is nothing left to destroy.

`ConfigsFit` is proved by cases on how the release is named, `AcceptedHaveFiles` (a table for every kind, architecture and variant
that is accepted, those no flag leads to included) by cases on the tables.

`RegistryPullProofs` accounts for what is exposed: a route is there only for a run that has not deleted it yet, or for a bad end
that no whole run has followed (`RouteInv`), and so is the role binding (`RoleInv`). A run that ends well has
withdrawn both, whoever exposed them. `UndisturbedInv` says what an undisturbed run knows at its
step: it is alone, and what its next request needs is there (`OwnWork`); so only `FailsBefore`, `FailsAfter` or a missing
Service ends it badly.

`ReleaseBuilderProofs` assumes of the constants what makes an original release one (`BuilderAssumption`): it names itself, has no
suffix, and an ImageStream has one tag of each name. It starts with lemmas about the operators on tags, which the code
writes as loops over a slice: where the last tag of a kind is (`LastIsIndex`, `InsertPoint`), that inserting
two tags keeps all others in order (`Inserted`, `InsertExtends`) and adds one of each new name (`InsertCounts`). `IInv` is

- `TypeOK` and `ContainerIsOwn`: the fixed name of the container is a lock, which only its owner releases;
- `ImagesInv` and `FilesInv`: every image is whole, and the files of a run are ahead by exactly the steps it has done. No image
  is built before both files are rewritten, which is why `EveryImageIsWhole` holds after any failure or kill;
- `ChainInv`: for a run whose base and final pullspec nobody else writes (`Apart`), or that nothing disturbed, the files come
  from the release it was asked to extend. `podman pull` moves a name that all runs share, so this is false of other runs;
- `TidyInv`: an undisturbed run owns the container and the directory exactly between the steps that make and remove them.

`RepoModesProofs` rests on a table, proved by cases: the files two modes override are disjoint, and none is the user's
(`ModesAreDisjoint`). So a step of a client either leaves the files of another one alone or is of its mode and sets its
`disturbed` flag (`OwnFilesOnly`, `OthersKeepInv`), and each action is left to show what it does to its own client. `ClientInv`
is what makes the properties inductive: between its write and the teardown each file is the client's own
(`WrittenInv`), the version it was loaded for is that of the branch unless the branch changed (`BranchInv`), and a teardown
past a file has removed it or recorded that it could not (`RemovedInv`).

`SecretStoreProofs`: a clone that is about to delete the version it looked at knows that it had the label (`LookInv`); every
change raises the version above all that was seen (`ChangeIsSeen`), which is why edits and other callers do not break that.
`RaceLeavesWinner` needs that while there is no secret somebody is on the way to a create (`GoneInv`: who deletes, creates
next) and that the author is a call that succeeded (`AuthorInv`); `TokenIsNotLeftBehind` that a directory belongs to a call
at its login or to one that can no longer remove it (`TokenInv`).

`MCORolloutProofs` assumes that the MCO is a Deployment, the ConfigMap is none, the release's image is not a
custom one and the numbers of attempts are positive. Its `IInv` adds to the four properties

- `ForceInv`: a forced restart is never at a step that scales or writes;
- `RevertInv`: only a revert scales the CVO up, and it wants the image of the release;
- `OperatorsInv`: the CVO is down from the moment it was scaled down to the end of the writes;
- `WorkInv`: a goroutine past its write has its object at the image wanted, and after the join all have.

`RevertInv` and `WorkInv` together are why the CVO may come back at the end of a revert: by then every object
has the image of the release. `GoroutineFrame` and `OperatorFrame` say once what a goroutine and an operator
can change; every other lemma about them uses only that.

Only model-checked: the liveness properties (`Terminates` of `Revertable`, `CallReturns` of `PausedPool` and of `MCORollout`,
`RestIsNoticed`, `CallsEnd`), as liveness under fairness and ENABLED are out of the prover's reach, and the counterexamples of
the runs that expect one.

## 5. Findings

- `runSetup` returns nil when the installer cannot be extracted (`cmd/cluster-lifecycle/setup.go:104-106`):
  a run that never called openshift-install reports success. The counterexample of `lifecycle_teardown_ok`
  passes through such a run.
- `gracefulTeardown` returns nil without an installer (`teardown.go:79-85`), and `extractInstaller` removes an
  installer of another release before it fetches its own: setup over a running cluster with another
  release and a failed fetch, then teardown, which says that there is nothing to do. The cluster stays up.
- `toInstallConfigOpts` (`opts.go:147`) leaves out the variant: `setup --variant single-node` brings up an ordinary
  cluster, and an unsupported variant is not refused.
- `getRelease` (`setup.go:170`) looks at `--release-pullspec` first, and a `.release` file is then ignored, although
  `cmd/cluster-lifecycle/README.md:52` says that the program "will always bring up that release".

Seen while modelling, and left out of the list because no document promises otherwise: nothing locks the
work directory, so that a setup which starts while a teardown still removes files loses its
`metadata.json` (the runs therefore let only teardowns overlap); a container that a failed or killed run of
dualstream-release-builder leaves behind stops every later one; a truncated log file loses all its
entries, and two runs that overlap lose one (`LogGrows` speaks of whole writes of runs that do not overlap); a clone
deletes a secret without the label that replaced the one it looked at (`UnmanagedSecretSurvives` says that this is the
only way); a pool that goes to another config and back, or loses a node and gets it back, while it is waited for
can be reported as updated with a node at the other config, since a node found done is not looked at again
(`machineconfigpool.go:354`); pausing a pool that an administrator
paused puts the helper's mark on it, and the conditional unpause then lifts the pause of the administrator, as it does when the mark outlived an
unpause by hand and an administrator paused the pool again before the helper read it; withdrawing
the registry deletes its Service, which a run that follows at once misses; a panic in `Apply` unwinds with nothing
reverted; a ppc64le or s390x release is found, recorded as current and then refused by the install config.

Two comments do not say what the code does, without consequence for a caller in the repository: `handleQueryErr` returns
the error that reached the threshold (`machineconfigpool.go:249`, comment at 215-216), and the second write of
`.current-install.yaml` has neither `Finished` nor `Duration` (`setup.go:88-98`, set on a copy at `logs.go:107-110`).

## 6. Not modelled

- Rendering and parsing: the YAML of install configs, release payloads, pull secrets, kubeconfigs. Data in, data out.
- `componentstatus.go`: `WaitForRolloutToComplete` has no caller and no documentation to hold it to. It compares the
  pointer `status.Started` with the address of a local variable (`componentstatus.go:97`), so it does not end as
  long as a component has a pod.
- HTTP requests of the release controllers, remote commands, containers, versions, command errors: one
  request, one command or one conversion each, without state.
- Paths, the prefix and the registration of flags in `cluster-lifecycle`.
- `go-buildah-entrypoint` (an example that prints its commands), the YAML converter and the hack scripts.

## 7. Plan

Every safety property of a passing run has its theorem, for every value of the constants and, for `ClusterLifecycle`, under the
condition named in section 4. What is left:

- action properties worth stating next to the invariants: that a run of dualstream-release-builder writes no pullspec but the one
  it was asked to, that a teardown which is not forced keeps the installer of a cluster that is up;
- an abstract specification of the exposure (exposed or not, and for whom) that `RegistryPull` implements;
- the release controllers and `componentstatus.go`, should they get a caller with state to get wrong.
