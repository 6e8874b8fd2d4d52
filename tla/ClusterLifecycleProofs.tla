----------------------- MODULE ClusterLifecycleProofs -----------------------
(***************************************************************************)
(* Theorems about ClusterLifecycle, for any processes, releases and number  *)
(* of runs; and that the install config suits the release, by cases over    *)
(* the way in which the options lead to it.                                 *)
(***************************************************************************)
EXTENDS ClusterLifecycle, SequenceTheorems, TLAPS

---------------------------------------------------------------------------
(* What holds however runs overlap.                                         *)

\* The steps of setup at which the release is chosen, at which the entry for it is written
\* down, and before which no cluster is created.
Written == {"installConfig", "extract", "fetch", "create", "created", "manifests", "rewriteCurrent"}
Chosen == Written \cup {"writeCurrent"}
BeforeCreate == {"vacation", "release", "writeCurrent", "installConfig", "extract", "fetch", "create"}

\* What a run knows at its step.
RunInv(p) ==
    /\ pc[p] \in SetupSteps => run[p].kind = "setup"
    /\ pc[p] \in TeardownSteps => run[p].kind = "teardown"
    /\ pc[p] \in Chosen => run[p].release \in Releases
    /\ pc[p] \in Written => run[p].entry \in Entries /\ run[p].entry.release = run[p].release
    /\ pc[p] \in LogSteps => run[p].entry \in Entries
    /\ pc[p] \in BeforeCreate => run[p].cluster = 0
    /\ run[p].force => forced
    /\ run[p].cluster <= Len(clusters)

\* Runs that never shared the directory: one is alive at most, and the log is what it read.
NotShared(p) ==
    /\ pc[p] # "idle" => \A q \in Procs \ {p} : pc[q] = "idle"
    /\ pc[p] = "writeLog" => run[p].copy = log

LocalInv == TypeOK /\ (\A p \in Procs : RunInv(p)) /\ (~shared => \A p \in Procs : NotShared(p))

---------------------------------------------------------------------------
(* What holds when a setup has the directory to itself.                     *)

SetupsAlone == "setup" \notin Overlap

PastDestroy == {"keepInstaller", "rmCurrent", "rmScratch", "rmMetadata", "rmInstaller"}
Live(c) == c \in DOMAIN clusters /\ clusters[c].live

AloneInv(p) ==
    (pc[p] # "idle" /\ run[p].kind = "setup") => \A q \in Procs \ {p} : pc[q] = "idle"

\* What a setup finds is what it left: the installer it fetched, the entry it wrote, and no
\* metadata before it creates a cluster; afterwards the cluster is of its release.
SetupInv(p) ==
    /\ pc[p] = "create" => installer = run[p].release
    /\ pc[p] \in Written \ {"rewriteCurrent"} => current = run[p].entry
    /\ (pc[p] \in BeforeCreate /\ ~reused) => metadata = None
    /\ (pc[p] \in {"created", "manifests", "rewriteCurrent"} /\ ~forced /\ ~reused) =>
           \A c \in DOMAIN clusters : Live(c) => clusters[c].release = run[p].release

\* A graceful teardown goes past the destroy only if that left no cluster up.
TeardownInv(p) == (pc[p] \in PastDestroy /\ ~forced) => \A c \in DOMAIN clusters : ~Live(c)

IInv ==
    /\ LocalInv
    /\ \A p \in Procs : AloneInv(p) /\ SetupInv(p) /\ TeardownInv(p)
    /\ ClusterKeepsItsMetadata /\ ChosenReleaseIsInstalled /\ CurrentInstallDescribesCluster

---------------------------------------------------------------------------
(* Steps of one run.                                                        *)

Steps == {"idle"} \cup SetupSteps \cup TeardownSteps \cup LogSteps

\* What a step of p is to every other run.
Others(p) == \A q \in Procs \ {p} : pc'[q] = pc[q] /\ run'[q] = run[q]

\* A run goes to a step, and what else it knows stays.
LEMMA Goes ==
  ASSUME TypeOK, NEW p \in Procs, NEW step \in Steps, To(p, step), UNCHANGED run
  PROVE  /\ pc' \in [Procs -> Steps] /\ run' \in [Procs -> Runs]
         /\ pc'[p] = step /\ run'[p] = run[p] /\ Others(p)
  BY DEF TypeOK, To, Others, Steps

\* ... or its result changes.
LEMMA GoesWithResult ==
  ASSUME TypeOK, NEW p \in Procs, NEW step \in Steps, To(p, step),
         NEW result \in {"none", "ok", "skipped", "error"}, Set(p, "result", result)
  PROVE  /\ pc' \in [Procs -> Steps] /\ run' \in [Procs -> Runs]
         /\ pc'[p] = step /\ Others(p)
         /\ run'[p].kind = run[p].kind /\ run'[p].force = run[p].force
         /\ run'[p].release = run[p].release /\ run'[p].entry = run[p].entry
         /\ run'[p].copy = run[p].copy /\ run'[p].cluster = run[p].cluster
         /\ run'[p].result = result
  BY DEF TypeOK, To, Set, Others, Steps, Runs

\* ... or the entry it writes, or read; or its cluster.
LEMMA GoesWithEntry ==
  ASSUME TypeOK, NEW p \in Procs, NEW step \in Steps, To(p, step),
         NEW e \in Entries \cup {None}, Set(p, "entry", e)
  PROVE  /\ pc' \in [Procs -> Steps] /\ run' \in [Procs -> Runs]
         /\ pc'[p] = step /\ Others(p)
         /\ run'[p].kind = run[p].kind /\ run'[p].force = run[p].force
         /\ run'[p].release = run[p].release /\ run'[p].cluster = run[p].cluster
         /\ run'[p].entry = e
  BY DEF TypeOK, To, Set, Others, Steps, Runs

LEMMA GoesWithCluster ==
  ASSUME TypeOK, NEW p \in Procs, NEW step \in Steps, To(p, step),
         NEW n \in Nat, Set(p, "cluster", n)
  PROVE  /\ pc' \in [Procs -> Steps] /\ run' \in [Procs -> Runs]
         /\ pc'[p] = step /\ Others(p)
         /\ run'[p].kind = run[p].kind /\ run'[p].force = run[p].force
         /\ run'[p].release = run[p].release /\ run'[p].entry = run[p].entry
         /\ run'[p].cluster = n
  BY DEF TypeOK, To, Set, Others, Steps, Runs

\* Such a step keeps what holds of every run, if it does so for its own.
LEMMA OwnStep ==
  ASSUME LocalInv, NEW p \in Procs, pc[p] # "idle", Others(p), TypeOK', RunInv(p)',
         UNCHANGED <<forced, shared>>, Len(clusters) <= Len(clusters'),
         pc'[p] = "writeLog" => run'[p].copy = log'
  PROVE  LocalInv'
  <1>1. ASSUME NEW q \in Procs \ {p} PROVE RunInv(q)'
    <2>1. RunInv(q) /\ run[q].cluster \in Nat
      BY DEF LocalInv, TypeOK, Runs
    <2>2. Len(clusters) \in Nat /\ Len(clusters') \in Nat
      BY DEF LocalInv, TypeOK
    <2> QED
      BY <2>1, <2>2 DEF RunInv, Others
  <1>2. ASSUME NEW q \in Procs, ~shared' PROVE NotShared(q)'
    <2>1. NotShared(p) /\ \A r \in Procs \ {p} : pc'[r] = "idle"
      BY <1>2 DEF LocalInv, NotShared, Others
    <2> QED
      BY <2>1 DEF NotShared
  <1> QED
    BY <1>1, <1>2 DEF LocalInv

\* A run that starts or is killed knows nothing.
LEMMA NoRunTyped == NoRun \in Runs /\ NoRun.cluster = 0 /\ ~NoRun.force /\ NoRun.entry = None
  BY LifecycleAssumption DEF NoRun, Runs

\* What the files hold, by type.
FilesTyped ==
    /\ vacation \in BOOLEAN
    /\ releaseFile \in Releases \cup {None, Empty}
    /\ installer \in Releases \cup {None}
    /\ metadata \in (DOMAIN clusters) \cup {None}
    /\ current \in Entries \cup {None}
    /\ scratch \in BOOLEAN
    /\ log \in Seq(Entries)

\* A step that writes no log and does not go to the cloud.
LEMMA QuietStep ==
  ASSUME LocalInv, NEW p \in Procs, pc[p] # "idle", pc'[p] # "writeLog", UNCHANGED cloud,
         pc' \in [Procs -> Steps], run' \in [Procs -> Runs], Others(p), FilesTyped', RunInv(p)'
  PROVE  LocalInv'
  <1>1. TypeOK /\ UNCHANGED <<clusters, runs, forced, reused, shared>>
    BY DEF LocalInv, cloud
  <1>2. TypeOK'
    BY <1>1 DEF TypeOK, FilesTyped, Steps
  <1>3. Len(clusters) <= Len(clusters')
    BY <1>1 DEF TypeOK
  <1> QED
    BY <1>1, <1>2, <1>3, OwnStep

USE DEF Steps, SetupSteps, TeardownSteps, LogSteps, Chosen, Written, BeforeCreate

\* A step after which a run knows enough, as it knew enough before.
Allowed(p, step) ==
    \A S \in {SetupSteps, TeardownSteps, Chosen, Written, BeforeCreate} : step \in S => pc[p] \in S

\* A step that only moves on.
LEMMA MovesOn ==
  ASSUME LocalInv, NEW p \in Procs, NEW step \in Steps \ {"writeLog"}, pc[p] # "idle",
         To(p, step), UNCHANGED <<run, cloud>>, FilesTyped', Allowed(p, step),
         step = "readLog" => run[p].entry \in Entries
  PROVE  LocalInv'
  <1>1. TypeOK /\ RunInv(p) /\ UNCHANGED <<forced, clusters>>
    BY DEF LocalInv, cloud
  <1>2. pc' \in [Procs -> Steps] /\ run' \in [Procs -> Runs]
        /\ pc'[p] = step /\ run'[p] = run[p] /\ Others(p)
    BY <1>1, Goes
  <1>3. RunInv(p)'
    BY <1>1, <1>2 DEF RunInv, Allowed
  <1> QED
    BY <1>2, <1>3, QuietStep

\* A run that returns, with what it recorded.
LEMMA MovesWithResult ==
  ASSUME LocalInv, NEW p \in Procs, NEW step \in {"idle", "readLog", "rewriteCurrent"}, pc[p] # "idle",
         NEW result \in {"none", "ok", "skipped", "error"},
         To(p, step), Set(p, "result", result), UNCHANGED cloud, FilesTyped',
         step = "readLog" => run[p].entry \in Entries,
         step = "rewriteCurrent" => pc[p] \in Written
  PROVE  LocalInv'
  <1>1. TypeOK /\ RunInv(p) /\ UNCHANGED <<forced, clusters>>
    BY DEF LocalInv, cloud
  <1>2. /\ pc' \in [Procs -> Steps] /\ run' \in [Procs -> Runs]
        /\ pc'[p] = step /\ Others(p)
        /\ run'[p].kind = run[p].kind /\ run'[p].force = run[p].force
        /\ run'[p].release = run[p].release /\ run'[p].entry = run[p].entry
        /\ run'[p].cluster = run[p].cluster
    BY <1>1, GoesWithResult
  <1>3. RunInv(p)'
    BY <1>1, <1>2 DEF RunInv
  <1> QED
    BY <1>2, <1>3, QuietStep

LEMMA UnchangedTyped == TypeOK /\ UNCHANGED <<files, clusters>> => FilesTyped'
  BY DEF TypeOK, FilesTyped, files

\* The early steps of a setup: nothing but the run itself changes.
LEMMA CheckVacationLocal ==
  ASSUME LocalInv, NEW p \in Procs, CheckVacation(p)
  PROVE  LocalInv'
  <1>1. pc[p] = "vacation" /\ UNCHANGED cloud /\ FilesTyped'
    BY UnchangedTyped DEF LocalInv, CheckVacation, cloud
  <1>2. CASE vacation
    BY <1>1, <1>2, MovesWithResult DEF CheckVacation, Exits
  <1>3. CASE ~vacation
    BY <1>1, <1>3, MovesOn DEF CheckVacation, Allowed, cloud
  <1> QED
    BY <1>2, <1>3

LEMMA GetReleaseLocal ==
  ASSUME LocalInv, NEW p \in Procs, GetRelease(p)
  PROVE  LocalInv'
  <1>1. /\ TypeOK /\ RunInv(p) /\ pc[p] = "release" /\ UNCHANGED cloud /\ FilesTyped'
        /\ UNCHANGED <<forced, clusters>>
    BY UnchangedTyped DEF LocalInv, GetRelease, cloud
  <1>2. CASE Exits(p, "error")
    BY <1>1, <1>2, MovesWithResult DEF Exits
  <1>3. ASSUME NEW r \in Candidates(p), Set(p, "release", r), To(p, "writeCurrent")
        PROVE  LocalInv'
    <2>1. r \in Releases
      BY <1>1 DEF Candidates, TypeOK, Runs
    <2>2. /\ pc' \in [Procs -> Steps] /\ run' \in [Procs -> Runs]
          /\ pc'[p] = "writeCurrent" /\ Others(p)
          /\ run'[p].kind = run[p].kind /\ run'[p].force = run[p].force
          /\ run'[p].release = r /\ run'[p].cluster = run[p].cluster
      BY <1>1, <1>3, <2>1 DEF TypeOK, To, Set, Others, Runs
    <2>3. RunInv(p)'
      BY <1>1, <2>1, <2>2 DEF RunInv
    <2> QED
      BY <1>1, <2>2, <2>3, QuietStep
  <1> QED
    BY <1>2, <1>3 DEF GetRelease

\* An entry of a run with a release can be written; so can what is left of one.
LEMMA EntriesTyped ==
  ASSUME TypeOK, NEW p \in Procs
  PROVE  /\ run[p].release \in Releases =>
               Entry(p, FALSE) \in Entries /\ Entry(p, FALSE).release = run[p].release
         /\ CutShortCurrent(p) \subseteq Entries \cup {None}
         /\ CutShortLog(p) \subseteq Seq(Entries)
         /\ Blank \in Entries /\ Blank.release = Empty
  <1>1. Blank \in Entries /\ Blank.release = Empty
    BY DEF Blank, Entries
  <1>2. run[p].release \in Releases =>
            Entry(p, FALSE) \in Entries /\ Entry(p, FALSE).release = run[p].release
    BY DEF Entry, Entries
  <1>3. CutShortCurrent(p) \subseteq Entries \cup {None}
    BY <1>1 DEF CutShortCurrent, TypeOK
  <1>4. CutShortLog(p) \subseteq Seq(Entries)
    BY EmptySeq DEF CutShortLog, TypeOK
  <1> QED
    BY <1>1, <1>2, <1>3, <1>4

LEMMA WriteCurrentInstallLocal ==
  ASSUME LocalInv, NEW p \in Procs, WriteCurrentInstall(p)
  PROVE  LocalInv'
  <1>1. /\ TypeOK /\ RunInv(p) /\ pc[p] = "writeCurrent" /\ UNCHANGED cloud
        /\ UNCHANGED <<vacation, releaseFile, installer, metadata, scratch, log, forced, clusters>>
    BY DEF LocalInv, WriteCurrentInstall, cloud
  <1>2. run[p].release \in Releases
    BY <1>1 DEF RunInv
  <1>3. CASE WriteError(p) /\ current' \in CutShortCurrent(p)
    <2>1. FilesTyped'
      BY <1>1, <1>3, EntriesTyped DEF TypeOK, FilesTyped
    <2> QED
      BY <1>1, <1>3, <2>1, MovesWithResult DEF WriteError, Exits
  <1>4. CASE current' = Entry(p, FALSE) /\ Set(p, "entry", current') /\ To(p, "installConfig")
    <2>1. current' \in Entries /\ current'.release = run[p].release
      BY <1>1, <1>2, <1>4, EntriesTyped
    <2>2. /\ pc' \in [Procs -> Steps] /\ run' \in [Procs -> Runs]
          /\ pc'[p] = "installConfig" /\ Others(p)
          /\ run'[p].kind = run[p].kind /\ run'[p].force = run[p].force
          /\ run'[p].release = run[p].release /\ run'[p].cluster = run[p].cluster
          /\ run'[p].entry = current'
      BY <1>1, <1>4, <2>1, GoesWithEntry
    <2>3. RunInv(p)'
      BY <1>1, <2>1, <2>2 DEF RunInv
    <2>4. FilesTyped'
      BY <1>1, <2>1 DEF TypeOK, FilesTyped
    <2> QED
      BY <1>1, <2>2, <2>3, <2>4, QuietStep
  <1> QED
    BY <1>3, <1>4 DEF WriteCurrentInstall

LEMMA WriteInstallConfigLocal ==
  ASSUME LocalInv, NEW p \in Procs, WriteInstallConfig(p)
  PROVE  LocalInv'
  <1>1. /\ TypeOK /\ pc[p] = "installConfig" /\ UNCHANGED cloud
        /\ UNCHANGED <<vacation, releaseFile, installer, metadata, current, log, clusters>>
    BY DEF LocalInv, WriteInstallConfig, cloud
  <1>2. scratch' \in BOOLEAN
    BY <1>1 DEF WriteInstallConfig, TypeOK
  <1>3. FilesTyped'
    BY <1>1, <1>2 DEF TypeOK, FilesTyped
  <1>4. CASE Returns(p, "error")
    BY <1>1, <1>3, <1>4, MovesWithResult DEF Returns
  <1>5. CASE To(p, "extract") /\ UNCHANGED run
    BY <1>1, <1>3, <1>5, MovesOn DEF Allowed, cloud
  <1> QED
    BY <1>4, <1>5 DEF WriteInstallConfig

LEMMA ExtractInstallerLocal ==
  ASSUME LocalInv, NEW p \in Procs, ExtractInstaller(p)
  PROVE  LocalInv'
  <1>1. /\ TypeOK /\ RunInv(p) /\ pc[p] = "extract" /\ UNCHANGED cloud
        /\ UNCHANGED <<vacation, releaseFile, metadata, current, scratch, log, forced, clusters>>
    BY DEF LocalInv, ExtractInstaller, cloud
  <1>2. installer' \in Releases \cup {None}
    BY <1>1 DEF ExtractInstaller, TypeOK
  <1>3. FilesTyped'
    BY <1>1, <1>2 DEF TypeOK, FilesTyped
  <1>4. CASE Returns(p, ExtractFailed)
    BY <1>1, <1>3, <1>4, MovesWithResult DEF Returns, ExtractFailed
  <1>5. ASSUME NEW step \in {"fetch", "create"}, To(p, step), UNCHANGED run PROVE LocalInv'
    BY <1>1, <1>3, <1>5, MovesOn DEF Allowed, cloud
  <1>6. CASE UNCHANGED <<pc, run>>
    <2>1. RunInv(p)'
      BY <1>1, <1>6 DEF RunInv
    <2> QED
      BY <1>1, <1>3, <1>6, <2>1, QuietStep DEF Others, TypeOK
  <1> QED
    BY <1>4, <1>5, <1>6 DEF ExtractInstaller

LEMMA FetchInstallerLocal ==
  ASSUME LocalInv, NEW p \in Procs, FetchInstaller(p)
  PROVE  LocalInv'
  <1>1. /\ TypeOK /\ RunInv(p) /\ pc[p] = "fetch" /\ UNCHANGED cloud
        /\ UNCHANGED <<vacation, releaseFile, metadata, current, scratch, log, clusters>>
    BY DEF LocalInv, FetchInstaller, cloud
  <1>2. installer' \in Releases \cup {None}
    BY <1>1 DEF FetchInstaller, TypeOK, RunInv
  <1>3. FilesTyped'
    BY <1>1, <1>2 DEF TypeOK, FilesTyped
  <1>4. CASE Returns(p, ExtractFailed)
    BY <1>1, <1>3, <1>4, MovesWithResult DEF Returns, ExtractFailed
  <1>5. CASE To(p, "create") /\ UNCHANGED run
    BY <1>1, <1>3, <1>5, MovesOn DEF Allowed, cloud
  <1> QED
    BY <1>4, <1>5 DEF FetchInstaller

\* A cluster that is created is the last one; the others stay as they are.
LEMMA ClusterAppended ==
  ASSUME TypeOK, NEW r \in Releases,
         clusters' = Append(clusters, [release |-> r, live |-> TRUE])
  PROVE  /\ clusters' \in Seq(Clusters) /\ Len(clusters') = Len(clusters) + 1
         /\ NewId \in Nat \ {0} /\ NewId = Len(clusters') /\ NewId \in DOMAIN clusters'
         /\ DOMAIN clusters' = DOMAIN clusters \cup {NewId} /\ NewId \notin DOMAIN clusters
         /\ clusters'[NewId] = [release |-> r, live |-> TRUE]
         /\ \A c \in DOMAIN clusters : clusters'[c] = clusters[c]
  BY DEF TypeOK, Clusters, NewId

LEMMA CreateClusterLocal ==
  ASSUME LocalInv, NEW p \in Procs, CreateCluster(p)
  PROVE  LocalInv'
  <1>1. /\ TypeOK /\ RunInv(p) /\ pc[p] = "create" /\ UNCHANGED <<runs, forced, reused, shared>>
        /\ UNCHANGED <<vacation, releaseFile, installer, current, scratch, log>>
    BY DEF LocalInv, CreateCluster
  <1>2. CASE Returns(p, "error") /\ UNCHANGED <<metadata, clusters>>
    BY <1>1, <1>2, MovesWithResult, UnchangedTyped DEF Returns, cloud, files
  <1>3. CASE /\ installer # None /\ metadata' = NewId
             /\ clusters' = Append(clusters, [release |-> installer, live |-> TRUE])
             /\ To(p, "created") /\ Set(p, "cluster", NewId)
    <2>1. installer \in Releases
      BY <1>1, <1>3 DEF TypeOK
    <2>2. /\ clusters' \in Seq(Clusters) /\ Len(clusters') = Len(clusters) + 1
          /\ NewId \in Nat /\ NewId = Len(clusters') /\ NewId \in DOMAIN clusters'
      BY <1>1, <1>3, <2>1, ClusterAppended
    <2>3. /\ pc' \in [Procs -> Steps] /\ run' \in [Procs -> Runs]
          /\ pc'[p] = "created" /\ Others(p)
          /\ run'[p].kind = run[p].kind /\ run'[p].force = run[p].force
          /\ run'[p].release = run[p].release /\ run'[p].entry = run[p].entry
          /\ run'[p].cluster = NewId
      BY <1>1, <1>3, <2>2, GoesWithCluster
    <2>4. RunInv(p)'
      BY <1>1, <2>2, <2>3 DEF RunInv
    <2>5. TypeOK'
      BY <1>1, <1>3, <2>2, <2>3 DEF TypeOK
    <2>6. Len(clusters) <= Len(clusters')
      BY <1>1, <2>2 DEF TypeOK
    <2> QED
      BY <1>1, <2>3, <2>4, <2>5, <2>6, OwnStep
  <1> QED
    BY <1>2, <1>3 DEF CreateCluster

LEMMA CreateEndsLocal ==
  ASSUME LocalInv, NEW p \in Procs, CreateEnds(p) \/ ApplyPostInstallManifests(p)
  PROVE  LocalInv'
  <1>1. /\ pc[p] \in {"created", "manifests"} /\ UNCHANGED cloud /\ FilesTyped'
    BY UnchangedTyped DEF LocalInv, CreateEnds, ApplyPostInstallManifests, cloud
  <1>2. CASE \E result \in {"ok", "error"} : Returns(p, result)
    BY <1>1, <1>2, MovesWithResult DEF Returns
  <1>3. CASE To(p, "manifests") /\ UNCHANGED run
    BY <1>1, <1>3, MovesOn DEF Allowed, cloud
  <1> QED
    BY <1>2, <1>3 DEF CreateEnds, ApplyPostInstallManifests

LEMMA RewriteCurrentInstallLocal ==
  ASSUME LocalInv, NEW p \in Procs, RewriteCurrentInstall(p)
  PROVE  LocalInv'
  <1>1. /\ TypeOK /\ RunInv(p) /\ pc[p] = "rewriteCurrent" /\ UNCHANGED cloud
        /\ UNCHANGED <<vacation, releaseFile, installer, metadata, scratch, log, clusters>>
    BY DEF LocalInv, RewriteCurrentInstall, cloud
  <1>2. run[p].entry \in Entries
    BY <1>1 DEF RunInv
  <1>3. current' \in Entries \cup {None}
    BY <1>1, <1>2, EntriesTyped DEF RewriteCurrentInstall
  <1>4. FilesTyped'
    BY <1>1, <1>3 DEF TypeOK, FilesTyped
  <1>5. CASE Exits(p, "error")
    BY <1>1, <1>4, <1>5, MovesWithResult DEF Exits
  <1>6. ASSUME NEW step \in {"readLog", "idle"}, To(p, step), UNCHANGED run PROVE LocalInv'
    BY <1>1, <1>2, <1>4, <1>6, MovesOn DEF Allowed, cloud
  <1> QED
    BY <1>5, <1>6 DEF RewriteCurrentInstall

LEMMA ReadLogLocal ==
  ASSUME LocalInv, NEW p \in Procs, ReadLog(p)
  PROVE  LocalInv'
  <1>1. /\ TypeOK /\ RunInv(p) /\ pc[p] = "readLog" /\ UNCHANGED <<files, clusters, runs, forced>>
        /\ UNCHANGED <<reused, shared>> /\ FilesTyped'
    BY UnchangedTyped DEF LocalInv, ReadLog, cloud
  <1>2. CASE Exits(p, "error")
    BY <1>1, <1>2, MovesWithResult DEF Exits, cloud
  <1>3. CASE Set(p, "copy", log) /\ To(p, "writeLog")
    <2>1. log \in Seq(Entries)
      BY <1>1 DEF TypeOK
    <2>2. /\ pc' \in [Procs -> Steps] /\ run' \in [Procs -> Runs]
          /\ pc'[p] = "writeLog" /\ Others(p)
          /\ run'[p].force = run[p].force /\ run'[p].entry = run[p].entry
          /\ run'[p].cluster = run[p].cluster /\ run'[p].copy = log
      BY <1>1, <1>3, <2>1 DEF TypeOK, To, Set, Others, Runs
    <2>3. RunInv(p)'
      BY <1>1, <2>2 DEF RunInv
    <2>4. TypeOK'
      BY <1>1, <2>2 DEF TypeOK, files
    <2>5. Len(clusters) <= Len(clusters') /\ log' = log
      BY <1>1 DEF TypeOK, files
    <2> QED
      BY <1>1, <2>2, <2>3, <2>4, <2>5, OwnStep
  <1> QED
    BY <1>2, <1>3 DEF ReadLog

\* What is written is the log that was read, with the entry at its end.
LEMMA NewLogTyped ==
  ASSUME LocalInv, NEW p \in Procs, pc[p] = "writeLog"
  PROVE  \E e \in Entries : NewLog(p) = Append(run[p].copy, e) /\ run[p].copy \in Seq(Entries)
  <1>1. run[p].entry \in Entries /\ run[p].kind \in {"setup", "teardown"}
        /\ run[p].copy \in Seq(Entries)
    BY DEF LocalInv, TypeOK, RunInv, Runs
  <1>2. [run[p].entry EXCEPT !.op = run[p].kind, !.finished = TRUE] \in Entries
    BY <1>1 DEF Entries
  <1> QED
    BY <1>1, <1>2 DEF NewLog

LEMMA WriteLogLocal ==
  ASSUME LocalInv, NEW p \in Procs, WriteLog(p)
  PROVE  LocalInv'
  <1>1. /\ TypeOK /\ pc[p] = "writeLog" /\ UNCHANGED cloud
        /\ UNCHANGED <<vacation, releaseFile, installer, metadata, current, scratch, clusters>>
    BY DEF LocalInv, WriteLog, cloud
  <1>2. NewLog(p) \in Seq(Entries)
    BY <1>1, NewLogTyped, AppendProperties
  <1>3. log' \in Seq(Entries)
    BY <1>1, <1>2, EntriesTyped DEF WriteLog
  <1>4. FilesTyped'
    BY <1>1, <1>3 DEF TypeOK, FilesTyped
  <1>5. CASE Exits(p, "error")
    BY <1>1, <1>4, <1>5, MovesWithResult DEF Exits
  <1>6. CASE To(p, "idle") /\ UNCHANGED run
    BY <1>1, <1>4, <1>6, MovesOn DEF Allowed, cloud
  <1> QED
    BY <1>5, <1>6 DEF WriteLog

\* A teardown ends in the log if it read an entry.
LEMMA EndsLocal ==
  ASSUME LocalInv, NEW p \in Procs, pc[p] \in TeardownSteps, Ends(p, "ok") \/ Ends(p, "error"),
         UNCHANGED cloud, FilesTyped'
  PROVE  LocalInv'
  <1>1. run[p].entry \in Entries \cup {None}
    BY DEF LocalInv, TypeOK, Runs
  <1> QED
    BY <1>1, MovesWithResult DEF Ends

LEMMA ReadCurrentInstallLocal ==
  ASSUME LocalInv, NEW p \in Procs, ReadCurrentInstall(p)
  PROVE  LocalInv'
  <1>1. /\ TypeOK /\ RunInv(p) /\ pc[p] = "readCurrent" /\ UNCHANGED <<cloud, clusters, forced>>
        /\ FilesTyped'
    BY UnchangedTyped DEF LocalInv, ReadCurrentInstall, cloud
  <1>2. TeardownStep(p) \in {"destroy", "hasInstaller"}
    BY DEF TeardownStep
  <1>3. CASE Set(p, "entry", current) /\ To(p, TeardownStep(p))
    <2>1. current \in Entries \cup {None}
      BY <1>1 DEF TypeOK
    <2>2. /\ pc' \in [Procs -> Steps] /\ run' \in [Procs -> Runs]
          /\ pc'[p] = TeardownStep(p) /\ Others(p)
          /\ run'[p].kind = run[p].kind /\ run'[p].force = run[p].force
          /\ run'[p].cluster = run[p].cluster
      BY <1>1, <1>2, <1>3, <2>1, GoesWithEntry
    <2>3. RunInv(p)'
      BY <1>1, <1>2, <2>2 DEF RunInv
    <2> QED
      BY <1>1, <1>2, <2>2, <2>3, QuietStep
  <1>4. CASE To(p, TeardownStep(p)) /\ UNCHANGED run
    BY <1>1, <1>2, <1>4, MovesOn DEF Allowed, cloud
  <1>5. CASE Exits(p, "error")
    BY <1>1, <1>5, MovesWithResult DEF Exits
  <1> QED
    BY <1>3, <1>4, <1>5 DEF ReadCurrentInstall

LEMMA ChecksLocal ==
  ASSUME LocalInv, NEW p \in Procs, CheckInstaller(p) \/ CheckMetadata(p)
  PROVE  LocalInv'
  <1>1. /\ pc[p] \in {"hasInstaller", "hasMetadata"} /\ UNCHANGED cloud /\ FilesTyped'
    BY UnchangedTyped DEF LocalInv, CheckInstaller, CheckMetadata, cloud
  <1>2. CASE Ends(p, "ok")
    BY <1>1, <1>2, EndsLocal
  <1>3. ASSUME NEW step \in {"hasMetadata", "destroy"}, To(p, step), UNCHANGED run PROVE LocalInv'
    BY <1>1, <1>3, MovesOn DEF Allowed, cloud
  <1> QED
    BY <1>2, <1>3 DEF CheckInstaller, CheckMetadata

\* A cluster that is destroyed stays the cluster it was.
LEMMA ClusterDestroyed ==
  ASSUME TypeOK, NEW c \in DOMAIN clusters, clusters' = [clusters EXCEPT ![c].live = FALSE]
  PROVE  /\ clusters' \in Seq(Clusters) /\ Len(clusters') = Len(clusters)
         /\ DOMAIN clusters' = DOMAIN clusters /\ ~clusters'[c].live
         /\ \A d \in DOMAIN clusters : clusters'[d].release = clusters[d].release
         /\ \A d \in DOMAIN clusters \ {c} : clusters'[d] = clusters[d]
  <1>1. clusters \in Seq(Clusters) /\ c \in 1..Len(clusters) /\ clusters[c] \in Clusters
    BY DEF TypeOK
  <1>2. DEFINE e == [clusters[c] EXCEPT !.live = FALSE]
  <1>3. e \in Clusters /\ ~e.live /\ e.release = clusters[c].release
    BY <1>1 DEF Clusters
  <1>4. clusters' = [clusters EXCEPT ![c] = e]
    OBVIOUS
  <1> HIDE DEF e
  <1>5. [clusters EXCEPT ![c] = e] \in Seq(Clusters) /\ Len([clusters EXCEPT ![c] = e]) = Len(clusters)
    BY <1>1, <1>3, ExceptSeq, Zenon
  <1>6. DOMAIN clusters = 1..Len(clusters) /\ DOMAIN clusters' = DOMAIN clusters
    BY <1>1, <1>4
  <1>7. \A d \in DOMAIN clusters : clusters'[d] = IF d = c THEN e ELSE clusters[d]
    BY <1>4
  <1> QED
    BY <1>3, <1>4, <1>5, <1>6, <1>7

LEMMA DestroyClusterLocal ==
  ASSUME LocalInv, NEW p \in Procs, DestroyCluster(p)
  PROVE  LocalInv'
  <1>1. /\ TypeOK /\ RunInv(p) /\ pc[p] = "destroy" /\ UNCHANGED <<runs, forced, reused, shared>>
        /\ UNCHANGED <<vacation, releaseFile, installer, current, scratch, log>>
    BY DEF LocalInv, DestroyCluster
  <1>2. CASE /\ metadata # None /\ clusters' = [clusters EXCEPT ![metadata].live = FALSE]
             /\ metadata' \in {metadata, None} /\ To(p, "keepInstaller") /\ UNCHANGED run
    <2>1. /\ clusters' \in Seq(Clusters) /\ Len(clusters') = Len(clusters)
          /\ metadata' \in DOMAIN clusters' \cup {None}
      BY <1>1, <1>2, ClusterDestroyed DEF TypeOK
    <2>2. /\ pc' \in [Procs -> Steps] /\ run' \in [Procs -> Runs]
          /\ pc'[p] = "keepInstaller" /\ run'[p] = run[p] /\ Others(p)
      BY <1>1, <1>2, Goes
    <2>3. RunInv(p)'
      BY <1>1, <2>1, <2>2 DEF RunInv
    <2>4. TypeOK'
      BY <1>1, <2>1, <2>2 DEF TypeOK
    <2>5. Len(clusters) <= Len(clusters')
      BY <1>1, <2>1 DEF TypeOK
    <2> QED
      BY <1>1, <2>2, <2>3, <2>4, <2>5, OwnStep
  <1>3. CASE DestroyError(p) /\ UNCHANGED <<clusters, metadata>>
    <2>1. UNCHANGED <<files, cloud, forced, clusters>> /\ FilesTyped'
      BY <1>1, <1>3, UnchangedTyped DEF files, cloud
    <2>2. CASE Ends(p, "error")
      BY <1>1, <2>1, <2>2, EndsLocal
    <2>3. CASE To(p, "keepInstaller") /\ Set(p, "errs", TRUE)
      <3>1. /\ pc' \in [Procs -> Steps] /\ run' \in [Procs -> Runs]
            /\ pc'[p] = "keepInstaller" /\ Others(p)
            /\ run'[p].kind = run[p].kind /\ run'[p].force = run[p].force
            /\ run'[p].cluster = run[p].cluster
        BY <1>1, <2>3 DEF TypeOK, To, Set, Others, Runs
      <3>2. RunInv(p)'
        BY <1>1, <2>1, <3>1 DEF RunInv
      <3> QED
        BY <1>1, <2>1, <3>1, <3>2, QuietStep
    <2> QED
      BY <1>3, <2>2, <2>3 DEF DestroyError
  <1> QED
    BY <1>2, <1>3 DEF DestroyCluster

LEMMA GoesWithKeep ==
  ASSUME TypeOK, NEW p \in Procs, NEW step \in Steps, To(p, step),
         NEW keep \in BOOLEAN, Set(p, "keep", keep)
  PROVE  /\ pc' \in [Procs -> Steps] /\ run' \in [Procs -> Runs]
         /\ pc'[p] = step /\ Others(p)
         /\ run'[p].kind = run[p].kind /\ run'[p].force = run[p].force
         /\ run'[p].release = run[p].release /\ run'[p].entry = run[p].entry
         /\ run'[p].cluster = run[p].cluster
  BY DEF TypeOK, To, Set, Others, Steps, Runs

LEMMA DecideKeepInstallerLocal ==
  ASSUME LocalInv, NEW p \in Procs, DecideKeepInstaller(p)
  PROVE  LocalInv'
  <1>1. /\ TypeOK /\ RunInv(p) /\ pc[p] = "keepInstaller" /\ UNCHANGED <<cloud, forced, clusters>>
        /\ FilesTyped'
    BY UnchangedTyped DEF LocalInv, DecideKeepInstaller, cloud
  <1>2. CASE Ends(p, "error")
    BY <1>1, <1>2, EndsLocal
  <1>3. CASE Set(p, "keep", Kept) /\ To(p, "rmCurrent")
    <2> DEFINE keep == Kept
    <2>0. keep \in BOOLEAN
      BY DEF Kept
    <2> HIDE DEF keep
    <2>1. /\ pc' \in [Procs -> Steps] /\ run' \in [Procs -> Runs]
          /\ pc'[p] = "rmCurrent" /\ Others(p)
          /\ run'[p].kind = run[p].kind /\ run'[p].force = run[p].force
          /\ run'[p].cluster = run[p].cluster
      BY <1>1, <1>3, <2>0, GoesWithKeep DEF keep
    <2>2. RunInv(p)'
      BY <1>1, <2>1 DEF RunInv
    <2> QED
      BY <1>1, <2>1, <2>2, QuietStep
  <1> QED
    BY <1>2, <1>3 DEF DecideKeepInstaller

LEMMA RemovalsLocal ==
  ASSUME LocalInv, NEW p \in Procs,
         \/ RemovalFails(p) \/ RemoveCurrentInstall(p) \/ RemoveOtherFiles(p)
         \/ RemoveMetadata(p) \/ RemoveInstaller(p)
  PROVE  LocalInv'
  <1> USE DEF Removal
  <1>1. /\ TypeOK /\ pc[p] \in {"rmCurrent", "rmScratch", "rmMetadata", "rmInstaller"}
        /\ UNCHANGED <<vacation, releaseFile, log, cloud, clusters>>
        /\ installer' \in {installer, None} /\ metadata' \in {metadata, None}
        /\ current' \in {current, None} /\ scratch' \in {scratch, FALSE}
    BY DEF LocalInv, RemovalFails, RemoveCurrentInstall, RemoveOtherFiles, RemoveMetadata,
           RemoveInstaller, files, cloud
  <1>2. FilesTyped'
    BY <1>1 DEF TypeOK, FilesTyped
  <1>3. CASE Ends(p, "error") \/ Ends(p, "ok")
    BY <1>1, <1>2, <1>3, EndsLocal
  <1>4. ASSUME NEW step \in {"rmScratch", "rmMetadata", "rmInstaller"}, To(p, step), UNCHANGED run
        PROVE  LocalInv'
    BY <1>1, <1>2, <1>4, MovesOn DEF Allowed, cloud
  <1> QED
    BY <1>3, <1>4 DEF RemovalFails, RemoveCurrentInstall, RemoveOtherFiles, RemoveMetadata,
                      RemoveInstaller

LEMMA UserEditsLocal ==
  ASSUME LocalInv, UserEditsFiles
  PROVE  LocalInv'
  <1>1. /\ TypeOK /\ UNCHANGED <<installer, metadata, current, scratch, log, clusters, runs, forced>>
        /\ UNCHANGED <<reused, shared, pc, run>>
    BY DEF LocalInv, UserEditsFiles, cloud
  <1>2. vacation' \in BOOLEAN /\ releaseFile' \in Releases \cup {None, Empty}
    BY <1>1 DEF UserEditsFiles, TypeOK
  <1>3. TypeOK'
    BY <1>1, <1>2 DEF TypeOK
  <1>4. \A p \in Procs : RunInv(p) => RunInv(p)'
    BY <1>1 DEF RunInv
  <1>5. \A p \in Procs : NotShared(p) => NotShared(p)'
    BY <1>1 DEF NotShared
  <1> QED
    BY <1>1, <1>3, <1>4, <1>5 DEF LocalInv

\* A run that starts does so alone, or the directory is shared from now on.
LEMMA StartsLocal ==
  ASSUME LocalInv, NEW p \in Procs, NEW kind \in {"setup", "teardown"}, MayStart(p, kind),
         NEW step \in {"vacation", "readCurrent", "destroy", "hasInstaller"}, To(p, step),
         step = "vacation" <=> kind = "setup",
         NEW new \in Runs, run' = [run EXCEPT ![p] = new], new.kind = kind, new.cluster = 0,
         new.force => forced', forced => forced', forced' \in BOOLEAN, reused' \in BOOLEAN,
         runs' = runs + 1, UNCHANGED <<files, clusters>>
  PROVE  LocalInv'
  <1>1. /\ TypeOK /\ shared' \in BOOLEAN /\ runs' \in 0..MaxRuns
        /\ UNCHANGED <<vacation, releaseFile, installer, metadata, current, scratch, log>>
    BY LifecycleAssumption DEF LocalInv, MayStart, files, TypeOK
  <1>2. /\ pc' \in [Procs -> Steps] /\ run' \in [Procs -> Runs]
        /\ pc'[p] = step /\ run'[p] = new /\ Others(p)
    BY <1>1 DEF TypeOK, To, Others
  <1>3. TypeOK'
    BY <1>1, <1>2 DEF TypeOK
  <1>4. RunInv(p)'
    BY <1>1, <1>2 DEF RunInv, TypeOK
  <1>5. ASSUME NEW q \in Procs \ {p} PROVE RunInv(q)'
    BY <1>2 DEF RunInv, Others, LocalInv
  <1>6. ASSUME ~shared' PROVE \A q \in Procs : NotShared(q)'
    <2>1. \A q \in Procs : pc[q] = "idle"
      BY <1>6 DEF MayStart
    <2>2. \A q \in Procs \ {p} : pc'[q] = "idle"
      BY <1>2, <2>1 DEF Others
    <2> QED
      BY <1>2, <2>2 DEF NotShared
  <1> QED
    BY <1>3, <1>4, <1>5, <1>6 DEF LocalInv

LEMMA StartSetupLocal ==
  ASSUME LocalInv, NEW p \in Procs, StartSetup(p)
  PROVE  LocalInv'
  <1>1. PICK flag \in Releases \cup {None} : run' = [run EXCEPT ![p] = [NoRun EXCEPT !.flag = flag]]
    BY DEF StartSetup
  <1> DEFINE new == [NoRun EXCEPT !.flag = flag]
  <1>2. new \in Runs /\ new.kind = "setup" /\ new.cluster = 0 /\ ~new.force
    BY NoRunTyped DEF NoRun, Runs
  <1>3. /\ reused' \in BOOLEAN /\ forced' = forced /\ forced \in BOOLEAN
        /\ MayStart(p, "setup") /\ To(p, "vacation") /\ runs' = runs + 1 /\ UNCHANGED <<files, clusters>>
    BY DEF StartSetup, LocalInv, TypeOK
  <1>4. run' = [run EXCEPT ![p] = new]
    BY <1>1
  <1> HIDE DEF new
  <1> QED
    BY <1>2, <1>3, <1>4, StartsLocal

LEMMA StartTeardownLocal ==
  ASSUME LocalInv, NEW p \in Procs, StartTeardown(p)
  PROVE  LocalInv'
  <1>1. PICK force \in BOOLEAN :
          /\ run' = [run EXCEPT ![p] = [NoRun EXCEPT !.kind = "teardown", !.force = force]]
          /\ forced' = (forced \/ force)
          /\ To(p, IF WritesLog THEN "readCurrent" ELSE IF force THEN "destroy" ELSE "hasInstaller")
    BY DEF StartTeardown
  <1> DEFINE new == [NoRun EXCEPT !.kind = "teardown", !.force = force]
             step == IF WritesLog THEN "readCurrent" ELSE IF force THEN "destroy" ELSE "hasInstaller"
  <1>2. new \in Runs /\ new.kind = "teardown" /\ new.cluster = 0 /\ new.force = force
    BY NoRunTyped DEF NoRun, Runs
  <1>3. reused' = reused /\ reused' \in BOOLEAN /\ forced' \in BOOLEAN
    BY <1>1 DEF StartTeardown, LocalInv, TypeOK
  <1>4. step \in {"readCurrent", "destroy", "hasInstaller"} /\ To(p, step)
    BY <1>1
  <1>5. run' = [run EXCEPT ![p] = new]
    BY <1>1
  <1>6. (new.force => forced') /\ (forced => forced')
    BY <1>1, <1>2
  <1> HIDE DEF new, step
  <1> QED
    BY <1>2, <1>3, <1>4, <1>5, <1>6, StartsLocal DEF StartTeardown

LEMMA CrashLocal ==
  ASSUME LocalInv, NEW p \in Procs, Crash(p)
  PROVE  LocalInv'
  <1>1. /\ TypeOK /\ pc[p] # "idle" /\ UNCHANGED <<cloud, clusters>>
        /\ UNCHANGED <<vacation, releaseFile, installer, metadata, scratch>>
    BY DEF LocalInv, Crash, cloud
  <1>2. current' \in Entries \cup {None} /\ log' \in Seq(Entries)
    BY <1>1, EntriesTyped DEF Crash
  <1>3. FilesTyped'
    BY <1>1, <1>2 DEF TypeOK, FilesTyped
  <1>4. /\ pc' \in [Procs -> Steps] /\ run' \in [Procs -> Runs]
        /\ pc'[p] = "idle" /\ run'[p] = NoRun /\ Others(p)
    BY <1>1, NoRunTyped DEF TypeOK, To, Others, Crash
  <1>5. RunInv(p)'
    BY <1>1, <1>4, NoRunTyped DEF RunInv, TypeOK
  <1> QED
    BY <1>1, <1>3, <1>4, <1>5, QuietStep

---------------------------------------------------------------------------
(* Types, and the log, however runs overlap.                                *)

LEMMA LocalInitially == Init => LocalInv
  <1> SUFFICES ASSUME Init PROVE LocalInv
    OBVIOUS
  <1>1. <<>> \in Seq(Entries) /\ <<>> \in Seq(Clusters)
    BY EmptySeq
  <1>2. pc \in [Procs -> Steps] /\ run \in [Procs -> Runs]
    BY NoRunTyped DEF Init
  <1>3. runs \in 0..MaxRuns
    BY LifecycleAssumption DEF Init
  <1>4. /\ metadata \in DOMAIN clusters \cup {None} /\ current \in Entries \cup {None}
        /\ log \in Seq(Entries) /\ clusters \in Seq(Clusters)
    BY <1>1 DEF Init
  <1>5. TypeOK
    BY <1>2, <1>3, <1>4 DEF Init, TypeOK
  <1>6. \A p \in Procs : RunInv(p) /\ NotShared(p)
    BY NoRunTyped DEF Init, RunInv, NotShared
  <1> QED
    BY <1>5, <1>6 DEF LocalInv

LEMMA LocalPreserved == LocalInv /\ [Next]_vars => LocalInv'
  <1> SUFFICES ASSUME LocalInv, [Next]_vars PROVE LocalInv'
    OBVIOUS
  <1>1. CASE UserEditsFiles
    BY <1>1, UserEditsLocal
  <1>2. ASSUME NEW p \in Procs, StartSetup(p) \/ StartTeardown(p) PROVE LocalInv'
    BY <1>2, StartSetupLocal, StartTeardownLocal
  <1>3. ASSUME NEW p \in Procs, Setup(p) PROVE LocalInv'
    BY <1>3, CheckVacationLocal, GetReleaseLocal, WriteCurrentInstallLocal,
       WriteInstallConfigLocal, ExtractInstallerLocal, FetchInstallerLocal, CreateClusterLocal,
       CreateEndsLocal, RewriteCurrentInstallLocal DEF Setup
  <1>4. ASSUME NEW p \in Procs, Teardown(p) PROVE LocalInv'
    BY <1>4, ReadCurrentInstallLocal, ChecksLocal, DestroyClusterLocal, DecideKeepInstallerLocal,
       RemovalsLocal DEF Teardown
  <1>5. ASSUME NEW p \in Procs, ReadLog(p) \/ WriteLog(p) PROVE LocalInv'
    BY <1>5, ReadLogLocal, WriteLogLocal
  <1>6. ASSUME NEW p \in Procs, Crash(p) PROVE LocalInv'
    BY <1>6, CrashLocal
  <1>7. CASE UNCHANGED vars
    <2>1. UNCHANGED <<vacation, releaseFile, installer, metadata, current, scratch, log, clusters,
                      pc, run, runs, forced, reused, shared>>
      BY <1>7 DEF vars, files
    <2>2. TypeOK' /\ \A p \in Procs : (RunInv(p) => RunInv(p)') /\ (NotShared(p) => NotShared(p)')
      BY <2>1 DEF LocalInv, TypeOK, RunInv, NotShared
    <2> QED
      BY <2>1, <2>2 DEF LocalInv
  <1> QED
    BY <1>1, <1>2, <1>3, <1>4, <1>5, <1>6, <1>7 DEF Next, Run

\* Every variable has its type, whichever runs share the directory and wherever they die.
THEOREM TypeCorrect == Spec => []TypeOK
  <1>1. LocalInv => TypeOK
    BY DEF LocalInv
  <1> QED
    BY <1>1, LocalInitially, LocalPreserved, PTL DEF Spec

\* Nothing else touches the log.
LEMMA LogUntouched ==
  ASSUME [Next]_vars, \A p \in Procs : ~WriteLog(p) /\ ~Crash(p)
  PROVE  log' = log
  <1>1. ASSUME NEW p \in Procs, Setup(p) PROVE log' = log
    BY <1>1 DEF Setup, CheckVacation, GetRelease, WriteCurrentInstall, WriteInstallConfig,
         ExtractInstaller, FetchInstaller, CreateCluster, CreateEnds, ApplyPostInstallManifests,
         RewriteCurrentInstall, files
  <1>2. ASSUME NEW p \in Procs, Teardown(p) PROVE log' = log
    BY <1>2 DEF Teardown, ReadCurrentInstall, CheckInstaller, CheckMetadata, DestroyCluster,
         DecideKeepInstaller, RemovalFails, RemoveCurrentInstall, RemoveOtherFiles,
         RemoveMetadata, RemoveInstaller, files
  <1>3. ASSUME NEW p \in Procs, StartSetup(p) \/ StartTeardown(p) \/ ReadLog(p) PROVE log' = log
    BY <1>3 DEF StartSetup, StartTeardown, ReadLog, files
  <1>4. CASE UserEditsFiles \/ UNCHANGED vars
    BY <1>4 DEF UserEditsFiles, vars, files
  <1> QED
    BY <1>1, <1>2, <1>3, <1>4 DEF Next, Run

LEMMA PrefixOfAppend ==
  ASSUME NEW S, NEW s \in Seq(S)
  PROVE  IsPrefix(s, s) /\ \A e \in S : IsPrefix(s, Append(s, e))
  <1>1. ASSUME NEW e \in S PROVE IsPrefix(s, Append(s, e))
    <2>1. /\ Append(s, e) \in Seq(S) /\ Len(Append(s, e)) = Len(s) + 1 /\ Len(s) \in Nat
          /\ \A i \in 1..Len(s) : Append(s, e)[i] = s[i]
      BY AppendProperties
    <2>2. SubSeq(s, 1, Len(s)) = SubSeq(Append(s, e), 1, Len(s))
      BY <2>1
    <2> QED
      BY <2>1, <2>2 DEF IsPrefix
  <1> QED
    BY <1>1 DEF IsPrefix

LEMMA LogStep ==
  ASSUME LocalInv, [Next]_vars
  PROVE  shared \/ log' = <<>> \/ IsPrefix(log, log')
  <1>0. log \in Seq(Entries) /\ IsPrefix(log, log)
    BY PrefixOfAppend DEF LocalInv, TypeOK
  <1>1. ASSUME NEW p \in Procs, log' \in CutShortLog(p)
        PROVE  log' = <<>> \/ IsPrefix(log, log')
    BY <1>0, <1>1 DEF CutShortLog
  <1>2. ASSUME NEW p \in Procs, WriteLog(p), log' = NewLog(p), ~shared
        PROVE  IsPrefix(log, log')
    <2>1. pc[p] = "writeLog" /\ run[p].copy = log
      BY <1>2 DEF WriteLog, LocalInv, NotShared
    <2>2. \E e \in Entries : log' = Append(log, e)
      BY <1>2, <2>1, NewLogTyped
    <2> QED
      BY <1>0, <2>2, PrefixOfAppend
  <1> QED
    BY <1>0, <1>1, <1>2, LogUntouched DEF WriteLog, Crash

\* The log loses no entry unless a write of it is cut short or two runs share the directory,
\* whatever dies in between: what a run writes back is the whole log as it was.
THEOREM LogOnlyGrows == Spec => LogGrows
  <1>1. LocalInv /\ [Next]_vars => [shared \/ log' = <<>> \/ IsPrefix(log, log')]_vars
    BY LogStep
  <1> QED
    BY <1>1, LocalInitially, LocalPreserved, PTL DEF Spec, LogGrows

---------------------------------------------------------------------------
(* The files and the clusters, when a setup has the directory to itself.    *)

Created == {"created", "manifests", "rewriteCurrent"}

\* An entry is none of the other contents of its file, and a cluster none of metadata.json's.
LEMMA NoneIsNoEntry == None \notin Entries /\ None \notin Nat /\ Empty \notin Releases
  BY LifecycleAssumption DEF Entries

\* A directory without metadata has no cluster that is up.
LEMMA NoneLive ==
  ASSUME IInv, ~forced, metadata = None
  PROVE  \A c \in DOMAIN clusters : ~clusters[c].live
  <1>1. DOMAIN clusters \subseteq Nat
    BY DEF IInv, LocalInv, TypeOK
  <1> QED
    BY <1>1, NoneIsNoEntry DEF IInv, ClusterKeepsItsMetadata

\* Without a setup alive the invariants of a setup say nothing.
LEMMA NoSetup ==
  ASSUME LocalInv, NEW p \in Procs, pc[p] = "idle" \/ run[p].kind # "setup"
  PROVE  AloneInv(p) /\ SetupInv(p)
  <1>1. pc[p] \notin SetupSteps
    BY DEF LocalInv, RunInv
  <1> QED
    BY <1>1 DEF AloneInv, SetupInv

\* A step that leaves the files and the clusters alone keeps the invariants, if it does so
\* for its own run.
LEMMA FilesKept ==
  ASSUME IInv, LocalInv', NEW p \in Procs, pc[p] # "idle", Others(p),
         UNCHANGED <<installer, metadata, current, clusters, forced, reused>>,
         pc'[p] = "idle" \/ run'[p].kind = run[p].kind,
         \/ run'[p].cluster = 0
         \/ run'[p].cluster = run[p].cluster /\ run'[p].release = run[p].release,
         SetupInv(p)', TeardownInv(p)'
  PROVE  IInv'
  <1>1. \A q \in Procs \ {p} : SetupInv(q)' /\ TeardownInv(q)'
    BY DEF Others, IInv, SetupInv, TeardownInv, Live
  <1>2. \A q \in Procs : AloneInv(q)'
    BY DEF Others, IInv, AloneInv
  <1>3. ClusterKeepsItsMetadata' /\ CurrentInstallDescribesCluster'
    BY DEF IInv, ClusterKeepsItsMetadata, CurrentInstallDescribesCluster
  <1>4. ChosenReleaseIsInstalled'
    BY DEF IInv, ChosenReleaseIsInstalled, Others
  <1> QED
    BY <1>1, <1>2, <1>3, <1>4 DEF IInv

\* The order of the steps, as far as the invariants depend on it.
Along(p, step) ==
    /\ step = "create" => installer = run[p].release
    /\ step \in Written \ {"rewriteCurrent"} => pc[p] \in Written \ {"rewriteCurrent"}
    /\ step \in BeforeCreate => pc[p] \in BeforeCreate
    /\ step \in Created => pc[p] \in BeforeCreate \cup Created
    /\ step \in PastDestroy => pc[p] \in PastDestroy \/ run[p].force

LEMMA MovesAlong ==
  ASSUME IInv, LocalInv', NEW p \in Procs, pc[p] # "idle", Others(p),
         UNCHANGED <<installer, metadata, current, clusters, forced, reused>>,
         Along(p, pc'[p]), run'[p].kind = run[p].kind, run'[p].cluster = run[p].cluster,
         run'[p].release = run[p].release,
         run'[p].entry = run[p].entry \/ pc'[p] \notin Written
  PROVE  IInv'
  <1>1. RunInv(p) /\ SetupInv(p) /\ TeardownInv(p)
    BY DEF IInv, LocalInv
  <1>2. ASSUME ~forced, ~reused, pc[p] \in BeforeCreate PROVE \A c \in DOMAIN clusters : ~clusters[c].live
    BY <1>1, <1>2, NoneLive DEF SetupInv
  <1>3. SetupInv(p)'
    BY <1>1, <1>2 DEF SetupInv, Along, Created, Live
  <1>4. TeardownInv(p)'
    BY <1>1 DEF TeardownInv, Along, RunInv, Live
  <1> QED
    BY <1>3, <1>4, FilesKept

\* What a step may do to its own run beside that.
LEMMA Keeps ==
  ASSUME IInv, LocalInv', NEW p \in Procs, NEW step \in Steps, pc[p] # "idle", To(p, step),
         UNCHANGED <<installer, metadata, current, clusters, forced, reused>>, Along(p, step),
         \/ UNCHANGED run
         \/ \E result \in {"ok", "skipped", "error"} : Set(p, "result", result)
         \/ \E keep \in BOOLEAN : Set(p, "keep", keep)
         \/ Set(p, "errs", TRUE) \/ Set(p, "copy", log)
         \/ step \notin Written /\ Set(p, "entry", current)
  PROVE  IInv'
  <1>0. TypeOK
    BY DEF IInv, LocalInv
  <1>1. pc'[p] = step /\ \A q \in Procs \ {p} : pc'[q] = pc[q]
    BY <1>0 DEF To, TypeOK
  <1> DEFINE Same == /\ run'[p].kind = run[p].kind /\ run'[p].cluster = run[p].cluster
                     /\ run'[p].release = run[p].release
                     /\ run'[p].entry = run[p].entry \/ step \notin Written
                     /\ \A q \in Procs \ {p} : run'[q] = run[q]
  <1>2. ASSUME UNCHANGED run PROVE Same
    BY <1>2
  <1>3. ASSUME NEW result \in {"ok", "skipped", "error"}, Set(p, "result", result) PROVE Same
    BY <1>0, <1>3 DEF Set, TypeOK, Runs
  <1>4. ASSUME NEW keep \in BOOLEAN, Set(p, "keep", keep) PROVE Same
    BY <1>0, <1>4 DEF Set, TypeOK, Runs
  <1>5. ASSUME Set(p, "errs", TRUE) PROVE Same
    BY <1>0, <1>5 DEF Set, TypeOK, Runs
  <1>6. ASSUME Set(p, "copy", log) PROVE Same
    BY <1>0, <1>6 DEF Set, TypeOK, Runs
  <1>7. ASSUME step \notin Written, Set(p, "entry", current) PROVE Same
    BY <1>0, <1>7 DEF Set, TypeOK, Runs
  <1>8. Same
    BY <1>2, <1>3, <1>4, <1>5, <1>6, <1>7
  <1> QED
    BY <1>1, <1>8, MovesAlong DEF Others

\* What the invariants depend on but for the runs.
observed == <<installer, metadata, current, clusters, forced, reused>>

\* The steps of a setup that change none of it.
LEMMA SetupMoves ==
  ASSUME IInv, LocalInv', NEW p \in Procs,
         \/ CheckVacation(p) \/ WriteInstallConfig(p) \/ CreateEnds(p) \/ ApplyPostInstallManifests(p)
         \/ ReadLog(p) \/ WriteLog(p)
  PROVE  IInv'
  <1> USE DEF Along, Created, PastDestroy
  <1>1. pc[p] # "idle" /\ UNCHANGED observed
    BY DEF observed, CheckVacation, WriteInstallConfig, CreateEnds, ApplyPostInstallManifests,
           ReadLog, WriteLog, files, cloud
  <1>2. CASE CheckVacation(p)
    BY <1>1, <1>2, Keeps DEF observed, CheckVacation, Exits
  <1>3. CASE WriteInstallConfig(p)
    BY <1>1, <1>3, Keeps DEF observed, WriteInstallConfig, Returns
  <1>4. CASE CreateEnds(p)
    BY <1>1, <1>4, Keeps DEF observed, CreateEnds, Returns
  <1>5. CASE ApplyPostInstallManifests(p)
    BY <1>1, <1>5, Keeps DEF observed, ApplyPostInstallManifests, Returns
  <1>6. CASE ReadLog(p)
    BY <1>1, <1>6, Keeps DEF observed, ReadLog, Exits
  <1>7. CASE WriteLog(p)
    BY <1>1, <1>7, Keeps DEF observed, WriteLog, Exits
  <1> QED
    BY <1>2, <1>3, <1>4, <1>5, <1>6, <1>7

\* The release is chosen before there is a cluster.
LEMMA GetReleaseAlone ==
  ASSUME IInv, LocalInv', NEW p \in Procs, GetRelease(p)
  PROVE  IInv'
  <1>1. /\ pc[p] = "release" /\ UNCHANGED observed /\ TypeOK /\ RunInv(p) /\ SetupInv(p)
        /\ run[p].cluster = 0
    BY DEF observed, GetRelease, files, cloud, IInv, LocalInv, RunInv
  <1>2. CASE Exits(p, "error")
    BY <1>1, <1>2, Keeps DEF observed, Exits, Along, Created, PastDestroy
  <1>3. ASSUME NEW r \in Candidates(p), Set(p, "release", r), To(p, "writeCurrent")
        PROVE  IInv'
    <2>1. r \in Releases
      BY <1>1 DEF Candidates, TypeOK, Runs
    <2>2. /\ pc'[p] = "writeCurrent" /\ run'[p].kind = run[p].kind /\ run'[p].cluster = 0
          /\ Others(p)
      BY <1>1, <1>3, <2>1 DEF Set, To, Others, TypeOK, Runs
    <2>3. SetupInv(p)'
      BY <1>1, <2>2 DEF SetupInv, observed
    <2>4. TeardownInv(p)'
      BY <2>2 DEF TeardownInv, PastDestroy
    <2> QED
      BY <1>1, <2>2, <2>3, <2>4, FilesKept DEF observed
  <1> QED
    BY <1>2, <1>3 DEF GetRelease

\* The steps of a teardown that change none of it.
LEMMA EndsAlone ==
  ASSUME IInv, LocalInv', NEW p \in Procs, pc[p] # "idle", Ends(p, "ok") \/ Ends(p, "error"),
         UNCHANGED observed
  PROVE  IInv'
  BY Keeps DEF Ends, observed, Along, Created, PastDestroy

LEMMA TeardownMoves ==
  ASSUME IInv, LocalInv', NEW p \in Procs,
         \/ ReadCurrentInstall(p) \/ CheckInstaller(p) \/ CheckMetadata(p) \/ DecideKeepInstaller(p)
         \/ RemovalFails(p) \/ RemoveOtherFiles(p)
  PROVE  IInv'
  <1> USE DEF Along, Created, PastDestroy
  <1>1. pc[p] # "idle" /\ UNCHANGED observed
    BY DEF observed, ReadCurrentInstall, CheckInstaller, CheckMetadata, DecideKeepInstaller,
           RemovalFails, RemoveOtherFiles, Removal, files, cloud
  <1>2. CASE ReadCurrentInstall(p)
    <2>1. TeardownStep(p) \in {"destroy", "hasInstaller"}
      BY DEF TeardownStep
    <2> QED
      BY <1>1, <1>2, <2>1, Keeps DEF observed, ReadCurrentInstall, Exits
  <1>3. CASE CheckInstaller(p)
    BY <1>1, <1>3, EndsAlone, Keeps DEF observed, CheckInstaller
  <1>4. CASE CheckMetadata(p)
    BY <1>1, <1>4, EndsAlone, Keeps DEF observed, CheckMetadata
  <1>5. CASE DecideKeepInstaller(p)
    <2>1. Kept \in BOOLEAN
      BY DEF Kept
    <2> QED
      BY <1>1, <1>5, <2>1, EndsAlone, Keeps DEF observed, DecideKeepInstaller
  <1>6. CASE RemovalFails(p)
    BY <1>1, <1>6, EndsAlone DEF RemovalFails
  <1>7. CASE RemoveOtherFiles(p)
    BY <1>1, <1>7, Keeps DEF observed, RemoveOtherFiles, Removal
  <1> QED
    BY <1>2, <1>3, <1>4, <1>5, <1>6, <1>7

\* The steps of a setup, or of one that is killed, that change the files: no other run is
\* alive to see it.
LEMMA AloneStep ==
  ASSUME IInv, LocalInv', NEW p \in Procs, pc[p] \in SetupSteps, Others(p),
         SetupInv(p)', pc'[p] \notin PastDestroy, ClusterKeepsItsMetadata',
         ChosenReleaseIsInstalled', CurrentInstallDescribesCluster'
  PROVE  IInv'
  <1>1. \A q \in Procs \ {p} : pc'[q] = "idle"
    BY DEF IInv, LocalInv, RunInv, AloneInv, Others
  <1>2. \A q \in Procs \ {p} : SetupInv(q)' /\ TeardownInv(q)'
    BY <1>1 DEF SetupInv, TeardownInv, Created, PastDestroy
  <1>3. \A q \in Procs : AloneInv(q)'
    BY <1>1 DEF AloneInv
  <1>4. TeardownInv(p)'
    BY DEF TeardownInv
  <1> QED
    BY <1>2, <1>3, <1>4 DEF IInv

\* What is left of an entry that was cut short says nothing wrong.
LEMMA CutShort ==
  ASSUME IInv, NEW p \in Procs, current' \in CutShortCurrent(p), UNCHANGED <<clusters, forced, reused>>
  PROVE  CurrentInstallDescribesCluster'
  <1>1. Blank # None /\ Blank.release = Empty
    BY NoneIsNoEntry, EntriesTyped DEF IInv, LocalInv
  <1>2. current' = current \/ current' = Blank
    BY DEF CutShortCurrent
  <1> QED
    BY <1>1, <1>2 DEF IInv, CurrentInstallDescribesCluster

\* A run without a cluster of its own changes nothing of what the clusters are.
LEMMA ReleasesKept ==
  ASSUME IInv, NEW p \in Procs, Others(p), UNCHANGED clusters,
         \/ run'[p].cluster = 0
         \/ run'[p].cluster = run[p].cluster /\ run'[p].release = run[p].release
  PROVE  ChosenReleaseIsInstalled'
  BY DEF IInv, ChosenReleaseIsInstalled, Others

LEMMA WriteCurrentInstallAlone ==
  ASSUME IInv, LocalInv', NEW p \in Procs, WriteCurrentInstall(p)
  PROVE  IInv'
  <1>1. /\ TypeOK /\ RunInv(p) /\ SetupInv(p) /\ pc[p] = "writeCurrent"
        /\ UNCHANGED <<installer, metadata, clusters, forced, reused>>
    BY DEF WriteCurrentInstall, cloud, IInv, LocalInv
  <1>2. ClusterKeepsItsMetadata'
    BY <1>1 DEF IInv, ClusterKeepsItsMetadata
  <1>3. CASE WriteError(p) /\ current' \in CutShortCurrent(p)
    <2>1. /\ pc'[p] = "idle" /\ Others(p)
          /\ run'[p].cluster = run[p].cluster /\ run'[p].release = run[p].release
      BY <1>1, <1>3, GoesWithResult DEF WriteError, Exits
    <2>2. SetupInv(p)'
      BY <2>1 DEF SetupInv
    <2> QED
      BY <1>1, <1>2, <1>3, <2>1, <2>2, AloneStep, CutShort, ReleasesKept DEF PastDestroy
  <1>4. CASE current' = Entry(p, FALSE) /\ Set(p, "entry", current') /\ To(p, "installConfig")
    <2>1. current' \in Entries
      BY <1>1, <1>4, EntriesTyped DEF RunInv
    <2>2. /\ pc'[p] = "installConfig" /\ Others(p) /\ run'[p].entry = current'
          /\ run'[p].cluster = run[p].cluster /\ run'[p].release = run[p].release
      BY <1>1, <1>4, <2>1, GoesWithEntry
    <2>3. SetupInv(p)'
      BY <1>1, <2>2 DEF SetupInv
    <2>4. CurrentInstallDescribesCluster'
      BY <1>1, NoneLive DEF CurrentInstallDescribesCluster, SetupInv
    <2> QED
      BY <1>1, <1>2, <2>2, <2>3, <2>4, AloneStep, ReleasesKept DEF PastDestroy
  <1> QED
    BY <1>3, <1>4 DEF WriteCurrentInstall

LEMMA RewriteCurrentInstallAlone ==
  ASSUME IInv, LocalInv', NEW p \in Procs, RewriteCurrentInstall(p)
  PROVE  IInv'
  <1>1. /\ TypeOK /\ RunInv(p) /\ SetupInv(p) /\ pc[p] = "rewriteCurrent"
        /\ UNCHANGED <<installer, metadata, clusters, forced, reused>>
    BY DEF RewriteCurrentInstall, cloud, IInv, LocalInv
  <1>2. ClusterKeepsItsMetadata'
    BY <1>1 DEF IInv, ClusterKeepsItsMetadata
  <1>3. CurrentInstallDescribesCluster'
    <2>1. CASE current' = run[p].entry
      <3>1. run[p].entry # None /\ run[p].entry.release = run[p].release
        BY <1>1, NoneIsNoEntry DEF RunInv
      <3> QED
        BY <1>1, <2>1, <3>1 DEF SetupInv, CurrentInstallDescribesCluster, Live
    <2> QED
      BY <1>1, <2>1, CutShort DEF RewriteCurrentInstall
  <1>4. pc'[p] \in {"readLog", "idle"} /\ Others(p)
        /\ run'[p].cluster = run[p].cluster /\ run'[p].release = run[p].release
    <2>1. CASE Exits(p, "error")
      BY <1>1, <2>1, GoesWithResult DEF Exits
    <2>2. ASSUME NEW step \in {"readLog", "idle"}, To(p, step), UNCHANGED run PROVE <1>4
      BY <1>1, <2>2, Goes
    <2> QED
      BY <2>1, <2>2 DEF RewriteCurrentInstall
  <1>5. SetupInv(p)'
    BY <1>4 DEF SetupInv
  <1> QED
    BY <1>1, <1>2, <1>3, <1>4, <1>5, AloneStep, ReleasesKept DEF PastDestroy

\* The installer in the directory is the one of the release chosen before it is used.
LEMMA InstallerAlone ==
  ASSUME IInv, LocalInv', NEW p \in Procs, ExtractInstaller(p) \/ FetchInstaller(p)
  PROVE  IInv'
  <1>1. /\ TypeOK /\ RunInv(p) /\ SetupInv(p) /\ pc[p] \in {"extract", "fetch"}
        /\ UNCHANGED <<metadata, current, clusters, forced, reused>>
    BY DEF ExtractInstaller, FetchInstaller, cloud, IInv, LocalInv
  <1>2. CASE UNCHANGED installer /\ Returns(p, ExtractFailed)
    BY <1>1, <1>2, Keeps DEF Returns, ExtractFailed, Along, Created, PastDestroy
  <1>3. ASSUME NEW step \in {"fetch", "create"}, UNCHANGED <<installer, run>>, To(p, step),
               step = "create" => installer = run[p].release
        PROVE  IInv'
    BY <1>1, <1>3, Keeps DEF Along, Created, PastDestroy
  <1>4. ASSUME NEW step \in {"extract", "create"}, UNCHANGED run, To(p, step),
               step = "create" => installer' = run[p].release
        PROVE  IInv'
    <2>1. pc'[p] = step /\ run'[p] = run[p] /\ Others(p)
      BY <1>1, <1>4, Goes
    <2>2. SetupInv(p)'
      BY <1>1, <1>4, <2>1 DEF SetupInv, Created
    <2>3. ClusterKeepsItsMetadata' /\ CurrentInstallDescribesCluster'
      BY <1>1 DEF IInv, ClusterKeepsItsMetadata, CurrentInstallDescribesCluster
    <2> QED
      BY <1>1, <2>1, <2>2, <2>3, AloneStep, ReleasesKept DEF PastDestroy
  <1>5. CASE pc[p] = "extract" /\ UNCHANGED <<pc, run>>
    BY <1>1, <1>5, <1>4 DEF To, TypeOK
  <1> QED
    BY <1>2, <1>3, <1>4, <1>5 DEF ExtractInstaller, FetchInstaller, Reuses

LEMMA CreateClusterAlone ==
  ASSUME IInv, LocalInv', NEW p \in Procs, CreateCluster(p)
  PROVE  IInv'
  <1>1. /\ TypeOK /\ RunInv(p) /\ SetupInv(p) /\ pc[p] = "create"
        /\ UNCHANGED <<installer, current, forced, reused>>
    BY DEF CreateCluster, IInv, LocalInv
  <1>2. CASE Returns(p, "error") /\ UNCHANGED <<metadata, clusters>>
    BY <1>1, <1>2, Keeps DEF Returns, Along, Created, PastDestroy
  <1>3. CASE /\ installer # None /\ metadata = None /\ metadata' = NewId
             /\ clusters' = Append(clusters, [release |-> installer, live |-> TRUE])
             /\ To(p, "created") /\ Set(p, "cluster", NewId)
    <2>1. installer \in Releases /\ installer = run[p].release /\ current = run[p].entry
          /\ current # None /\ current.release = installer
      BY <1>1, <1>3, NoneIsNoEntry DEF TypeOK, RunInv, SetupInv
    <2>2. /\ NewId \in Nat \ {0} /\ NewId \notin DOMAIN clusters
          /\ DOMAIN clusters' = DOMAIN clusters \cup {NewId}
          /\ clusters'[NewId].release = installer
          /\ \A c \in DOMAIN clusters : clusters'[c] = clusters[c]
      BY <1>1, <1>3, <2>1, ClusterAppended
    <2>3. /\ pc'[p] = "created" /\ Others(p) /\ run'[p].cluster = NewId
          /\ run'[p].release = run[p].release /\ run'[p].entry = run[p].entry
      BY <1>1, <1>3, <2>2, GoesWithCluster
    <2>4. ASSUME ~forced, NEW c \in DOMAIN clusters', clusters'[c].live PROVE c = NewId
      BY <1>3, <2>2, <2>4, NoneLive
    <2>5. SetupInv(p)'
      BY <1>1, <2>1, <2>2, <2>3, <2>4 DEF SetupInv, Live
    <2>6. ClusterKeepsItsMetadata'
      BY <1>1, <1>3, <2>4 DEF ClusterKeepsItsMetadata
    <2>7. CurrentInstallDescribesCluster'
      BY <1>1, <2>1, <2>2, <2>4 DEF CurrentInstallDescribesCluster
    <2>8. ASSUME NEW q \in Procs \ {p}, run'[q].cluster # 0
          PROVE  clusters'[run'[q].cluster].release = run'[q].release
      <3>1. run'[q] = run[q] /\ run[q].cluster \in 1..Len(clusters)
        BY <1>1, <2>3, <2>8 DEF Others, IInv, LocalInv, RunInv, TypeOK, Runs
      <3>2. run[q].cluster \in DOMAIN clusters
        BY <1>1, <3>1 DEF TypeOK
      <3> QED
        BY <2>2, <2>8, <3>1, <3>2 DEF IInv, ChosenReleaseIsInstalled
    <2>9. ChosenReleaseIsInstalled'
      BY <2>1, <2>2, <2>3, <2>8 DEF ChosenReleaseIsInstalled
    <2> QED
      BY <1>1, <2>3, <2>5, <2>6, <2>7, <2>9, AloneStep DEF PastDestroy
  <1> QED
    BY <1>2, <1>3 DEF CreateCluster

\* The steps of a teardown that change the files or the clusters: no setup is alive to see it.
\* Clusters only go down, and no file goes but for a cluster that is down.
LEMMA TeardownStepAlone ==
  ASSUME IInv, LocalInv', NEW p \in Procs, pc[p] \in TeardownSteps, Others(p),
         run'[p].kind = run[p].kind, run'[p].cluster = run[p].cluster,
         run'[p].release = run[p].release, UNCHANGED <<forced, reused>>,
         DOMAIN clusters' = DOMAIN clusters,
         \A c \in DOMAIN clusters :
             clusters'[c].release = clusters[c].release /\ (clusters'[c].live => clusters[c].live),
         metadata' # metadata \/ current' # current \/ pc'[p] \in PastDestroy =>
             forced \/ \A c \in DOMAIN clusters : ~clusters'[c].live
  PROVE  IInv'
  <1>1. TypeOK /\ run[p].kind = "teardown"
    BY DEF IInv, LocalInv, RunInv
  <1>2. \A q \in Procs \ {p} : pc[q] = "idle" \/ run[q].kind # "setup"
    BY <1>1 DEF IInv, AloneInv
  <1>3. \A q \in Procs : AloneInv(q)' /\ SetupInv(q)'
    <2>1. ASSUME NEW q \in Procs PROVE pc'[q] = "idle" \/ run'[q].kind # "setup"
      BY <1>1, <1>2 DEF Others
    <2>2. ASSUME NEW q \in Procs PROVE pc'[q] \notin SetupSteps
      BY <2>1 DEF LocalInv, RunInv
    <2> QED
      BY <2>1, <2>2 DEF AloneInv, SetupInv, Created
  <1>4. \A q \in Procs : TeardownInv(q)'
    BY DEF IInv, TeardownInv, Others, Live
  <1>5. ClusterKeepsItsMetadata' /\ CurrentInstallDescribesCluster'
    BY DEF IInv, ClusterKeepsItsMetadata, CurrentInstallDescribesCluster
  <1>6. ASSUME NEW q \in Procs, run'[q].cluster # 0
        PROVE  clusters'[run'[q].cluster].release = run'[q].release
    <2>1. run'[q].cluster = run[q].cluster /\ run'[q].release = run[q].release
      BY DEF Others
    <2>2. run[q].cluster \in DOMAIN clusters
      BY <1>1, <1>6, <2>1 DEF IInv, LocalInv, RunInv, TypeOK, Runs
    <2> QED
      BY <1>6, <2>1, <2>2 DEF IInv, ChosenReleaseIsInstalled
  <1>7. ChosenReleaseIsInstalled'
    BY <1>6 DEF ChosenReleaseIsInstalled
  <1> QED
    BY <1>3, <1>4, <1>5, <1>7 DEF IInv

LEMMA DestroyClusterAlone ==
  ASSUME IInv, LocalInv', NEW p \in Procs, DestroyCluster(p)
  PROVE  IInv'
  <1>1. /\ TypeOK /\ RunInv(p) /\ pc[p] = "destroy" /\ UNCHANGED <<installer, current, forced, reused>>
    BY DEF DestroyCluster, IInv, LocalInv
  <1>2. CASE DestroyError(p) /\ UNCHANGED <<clusters, metadata>>
    BY <1>1, <1>2, EndsAlone, Keeps DEF DestroyError, observed, Along, Created
  <1>3. CASE /\ metadata # None /\ clusters' = [clusters EXCEPT ![metadata].live = FALSE]
             /\ metadata' \in {metadata, None} /\ To(p, "keepInstaller") /\ UNCHANGED run
    <2>1. metadata \in DOMAIN clusters
      BY <1>1, <1>3 DEF TypeOK
    <2>2. /\ DOMAIN clusters' = DOMAIN clusters /\ ~clusters'[metadata].live
          /\ \A c \in DOMAIN clusters : clusters'[c].release = clusters[c].release
          /\ \A c \in DOMAIN clusters \ {metadata} : clusters'[c] = clusters[c]
      BY <1>1, <1>3, <2>1, ClusterDestroyed
    <2>3. forced \/ \A c \in DOMAIN clusters : ~clusters'[c].live
      BY <2>2 DEF IInv, ClusterKeepsItsMetadata
    <2>4. run'[p] = run[p] /\ Others(p)
      BY <1>1, <1>3, Goes
    <2>5. \A c \in DOMAIN clusters : clusters'[c].live => clusters[c].live
      BY <2>2
    <2> QED
      BY <1>1, <2>2, <2>3, <2>4, <2>5, TeardownStepAlone
  <1> QED
    BY <1>2, <1>3 DEF DestroyCluster

LEMMA RemovalsAlone ==
  ASSUME IInv, LocalInv', NEW p \in Procs,
         RemoveCurrentInstall(p) \/ RemoveMetadata(p) \/ RemoveInstaller(p)
  PROVE  IInv'
  <1> USE DEF Removal
  <1>1. /\ TypeOK /\ TeardownInv(p) /\ pc[p] \in {"rmCurrent", "rmMetadata", "rmInstaller"}
        /\ UNCHANGED <<clusters, forced, reused>>
    BY DEF RemoveCurrentInstall, RemoveMetadata, RemoveInstaller, cloud, IInv, LocalInv
  <1>2. forced \/ \A c \in DOMAIN clusters : ~clusters'[c].live
    BY <1>1 DEF TeardownInv, PastDestroy, Live
  <1>3. /\ Others(p) /\ run'[p].kind = run[p].kind /\ run'[p].cluster = run[p].cluster
        /\ run'[p].release = run[p].release
    <2>1. ASSUME NEW step \in {"rmScratch", "rmInstaller"}, To(p, step), UNCHANGED run PROVE <1>3
      BY <1>1, <2>1, Goes
    <2>2. ASSUME Ends(p, "ok") \/ Ends(p, "error") PROVE <1>3
      BY <1>1, <2>2, GoesWithResult DEF Ends
    <2> QED
      BY <2>1, <2>2 DEF RemoveCurrentInstall, RemoveMetadata, RemoveInstaller
  <1> QED
    BY <1>1, <1>2, <1>3, TeardownStepAlone

\* A run that is killed leaves behind what it has written so far.
LEMMA CrashAlone ==
  ASSUME IInv, LocalInv', NEW p \in Procs, Crash(p)
  PROVE  IInv'
  <1>1. /\ TypeOK /\ pc[p] # "idle" /\ UNCHANGED <<installer, metadata, clusters, forced, reused>>
        /\ current' \in CutShortCurrent(p)
    BY DEF Crash, cloud, IInv, LocalInv
  <1>2. pc'[p] = "idle" /\ run'[p].cluster = 0 /\ Others(p)
    BY <1>1, NoRunTyped DEF Crash, To, Others, TypeOK
  <1>3. SetupInv(p)' /\ TeardownInv(p)'
    BY <1>2 DEF SetupInv, TeardownInv, Created, PastDestroy
  <1>4. CASE current' = current
    BY <1>1, <1>2, <1>3, <1>4, FilesKept
  <1>5. CASE pc[p] \in {"writeCurrent", "rewriteCurrent"}
    <2>1. ClusterKeepsItsMetadata'
      BY <1>1 DEF IInv, ClusterKeepsItsMetadata
    <2> QED
      BY <1>1, <1>2, <1>3, <1>5, <2>1, AloneStep, CutShort, ReleasesKept DEF PastDestroy
  <1> QED
    BY <1>1, <1>4, <1>5 DEF CutShortCurrent

\* A setup starts when no run is alive, and no run starts while it is.
LEMMA StartsAlone ==
  ASSUME SetupsAlone, IInv, LocalInv', NEW p \in Procs, StartSetup(p) \/ StartTeardown(p)
  PROVE  IInv'
  <1>1. /\ TypeOK /\ pc[p] = "idle" /\ UNCHANGED <<installer, metadata, current, clusters>>
        /\ (forced => forced') /\ (reused => reused')
    <2>1. TypeOK /\ pc[p] = "idle" /\ UNCHANGED <<installer, metadata, current, clusters>>
      BY DEF StartSetup, StartTeardown, MayStart, files, IInv, LocalInv
    <2>2. (forced => forced') /\ (reused => reused')
      <3>1. forced \in BOOLEAN /\ reused \in BOOLEAN
        BY <2>1 DEF TypeOK
      <3>2. CASE StartSetup(p)
        BY <3>1, <3>2 DEF StartSetup
      <3>3. CASE StartTeardown(p)
        BY <3>1, <3>3 DEF StartTeardown
      <3> QED
        BY <3>2, <3>3
    <2> QED
      BY <2>1, <2>2
  <1>2. Others(p) /\ run'[p].cluster = 0
    BY <1>1, NoRunTyped DEF StartSetup, StartTeardown, To, Others, TypeOK, NoRun
  <1>3. pc'[p] \in {"vacation", "readCurrent", "destroy", "hasInstaller"}
    BY <1>1 DEF StartSetup, StartTeardown, To, TypeOK
  <1>4. ClusterKeepsItsMetadata' /\ CurrentInstallDescribesCluster'
    BY <1>1 DEF IInv, ClusterKeepsItsMetadata, CurrentInstallDescribesCluster
  <1>5. ChosenReleaseIsInstalled'
    BY <1>1, <1>2, ReleasesKept
  <1>6. \A q \in Procs : TeardownInv(q)'
    BY <1>1, <1>2, <1>3 DEF IInv, TeardownInv, Others, Live, PastDestroy
  <1>7. CASE StartSetup(p)
    <2>1. \A q \in Procs : pc[q] = "idle"
      BY <1>7 DEF StartSetup, MayStart, SetupsAlone
    <2>2. \A q \in Procs \ {p} : AloneInv(q)' /\ SetupInv(q)'
      BY <1>2, <2>1 DEF AloneInv, SetupInv, Others, Created
    <2>3. pc'[p] = "vacation" /\ (~reused' => metadata' = None)
      BY <1>1, <1>7 DEF StartSetup, To, TypeOK
    <2>4. AloneInv(p)' /\ SetupInv(p)'
      BY <1>2, <2>1, <2>3 DEF AloneInv, SetupInv, Others, Created
    <2> QED
      BY <1>4, <1>5, <1>6, <2>2, <2>4 DEF IInv
  <1>8. CASE StartTeardown(p)
    <2>1. \A q \in Procs : pc[q] # "idle" => run[q].kind # "setup"
      BY <1>8 DEF StartTeardown, MayStart, SetupsAlone
    <2>2. run'[p].kind = "teardown"
      BY <1>1, <1>8, NoRunTyped DEF StartTeardown, TypeOK, NoRun
    <2>3. ASSUME NEW q \in Procs PROVE pc'[q] = "idle" \/ run'[q].kind # "setup"
      BY <1>2, <2>1, <2>2 DEF Others
    <2>4. ASSUME NEW q \in Procs PROVE pc'[q] \notin SetupSteps
      BY <2>3 DEF LocalInv, RunInv
    <2>5. \A q \in Procs : AloneInv(q)' /\ SetupInv(q)'
      BY <2>3, <2>4 DEF AloneInv, SetupInv, Created
    <2> QED
      BY <1>4, <1>5, <1>6, <2>5 DEF IInv
  <1> QED
    BY <1>7, <1>8

LEMMA Initially == Init => IInv
  <1> SUFFICES ASSUME Init PROVE IInv
    OBVIOUS
  <1>1. LocalInv
    BY LocalInitially
  <1>2. \A p \in Procs : pc[p] = "idle" /\ run[p].cluster = 0
    BY NoRunTyped DEF Init
  <1>3. DOMAIN clusters = {}
    BY DEF Init
  <1> QED
    BY <1>1, <1>2, <1>3 DEF IInv, AloneInv, SetupInv, TeardownInv, Created, PastDestroy,
       ClusterKeepsItsMetadata, ChosenReleaseIsInstalled, CurrentInstallDescribesCluster

LEMMA Preserved ==
  ASSUME SetupsAlone, IInv, [Next]_vars
  PROVE  IInv'
  <1>1. LocalInv'
    BY LocalPreserved DEF IInv
  <1>2. CASE UserEditsFiles \/ UNCHANGED vars
    <2>1. UNCHANGED <<installer, metadata, current, clusters, pc, run, forced, reused>>
      BY <1>2 DEF UserEditsFiles, vars, files, cloud
    <2> QED
      BY <1>1, <2>1 DEF IInv, AloneInv, SetupInv, TeardownInv, Live,
         ClusterKeepsItsMetadata, ChosenReleaseIsInstalled, CurrentInstallDescribesCluster
  <1>3. ASSUME NEW p \in Procs, StartSetup(p) \/ StartTeardown(p) PROVE IInv'
    BY <1>1, <1>3, StartsAlone
  <1>4. ASSUME NEW p \in Procs, Setup(p) PROVE IInv'
    BY <1>1, <1>4, SetupMoves, GetReleaseAlone, WriteCurrentInstallAlone, InstallerAlone,
       CreateClusterAlone, RewriteCurrentInstallAlone DEF Setup
  <1>5. ASSUME NEW p \in Procs, Teardown(p) PROVE IInv'
    BY <1>1, <1>5, TeardownMoves, DestroyClusterAlone, RemovalsAlone DEF Teardown
  <1>6. ASSUME NEW p \in Procs, ReadLog(p) \/ WriteLog(p) PROVE IInv'
    BY <1>1, <1>6, SetupMoves
  <1>7. ASSUME NEW p \in Procs, Crash(p) PROVE IInv'
    BY <1>1, <1>7, CrashAlone
  <1> QED
    BY <1>2, <1>3, <1>4, <1>5, <1>6, <1>7 DEF Next, Run

\* However the runs fail, and wherever they are killed, metadata.json names every cluster that
\* is up: it can be torn down, unless a forced teardown removed it.
THEOREM ClustersCanBeTornDown ==
  ASSUME SetupsAlone
  PROVE  Spec => []ClusterKeepsItsMetadata
  <1>1. IInv => ClusterKeepsItsMetadata
    BY DEF IInv
  <1>2. IInv /\ [Next]_vars => IInv'
    BY Preserved
  <1> QED
    BY <1>1, <1>2, Initially, PTL DEF Spec

\* The cluster of a run is of the release the run chose, whichever installer it found.
THEOREM ReleasesAreAsChosen ==
  ASSUME SetupsAlone
  PROVE  Spec => []ChosenReleaseIsInstalled
  <1>1. IInv => ChosenReleaseIsInstalled
    BY DEF IInv
  <1>2. IInv /\ [Next]_vars => IInv'
    BY Preserved
  <1> QED
    BY <1>1, <1>2, Initially, PTL DEF Spec

\* The entry of the current install is there as long as its cluster, and tells its release.
THEOREM CurrentInstallIsRight ==
  ASSUME SetupsAlone
  PROVE  Spec => []CurrentInstallDescribesCluster
  <1>1. IInv => CurrentInstallDescribesCluster
    BY DEF IInv
  <1>2. IInv /\ [Next]_vars => IInv'
    BY Preserved
  <1> QED
    BY <1>1, <1>2, Initially, PTL DEF Spec

---------------------------------------------------------------------------
(* The options of setup.                                                    *)

\* The fields of a release, and of an option record.
LEMMA PayloadFields ==
  ASSUME NEW r \in Payloads
  PROVE  /\ r.kind \in Kinds /\ r.arch \in Arches \ {"aarch64"}
         /\ r.kind # "ocp" => r.arch = "amd64"
  BY DEF Payloads, Kinds, Arches

\* A release named by a pullspec or by the .release file: its kind is found again.
LEMMA NamedFits ==
  ASSUME NEW o \in Options, Named(o) # NoPayload, Accepted(o)
  PROVE  Fits(o)
  <1> DEFINE r == Named(o)
  <1>1. r \in Payloads /\ getRelease(o) = r
    BY DEF Named, getRelease, Options
  <1>2. r.kind \in Kinds /\ r.arch \in Arches
    BY <1>1, PayloadFields DEF Arches
  <1>3. inferKind(r) = r.kind
    BY <1>2 DEF inferKind, NameContains, Kinds
  <1>4. /\ installConfigOf(o).kind = r.kind /\ installConfigOf(o).variant = ""
        /\ installConfigOf(o).arch = ConfigArchitecture(r)
    BY <1>3 DEF installConfigOf, Effective, toInstallConfigOpts, inferArchAndKindFromPullspec,
                Options
  <1>5. ConfigArchitecture(r) \in {"amd64", "aarch64", "arm64", "multi"}
    <2>1. IsValidKindAndArch(r.kind, ConfigArchitecture(r))
      BY <1>4 DEF Accepted, validate
    <2> QED
      BY <2>1 DEF IsValidKindAndArch
  <1>6. renderConfig(installConfigOf(o)) = getBaseConfig(ConfigArchitecture(r))
    BY <1>4 DEF renderConfig
  <1>7. getBaseConfig(ConfigArchitecture(r)) \in Machines(r)
    <2>1. CASE r.arch = "multi"
      BY <2>1 DEF ConfigArchitecture, getBaseConfig, Machines
    <2>2. CASE r.arch # "multi"
      <3>1. r.arch \in {"amd64", "arm64"}
        BY <1>1, <1>5, <2>2, PayloadFields DEF ConfigArchitecture
      <3> QED
        BY <2>2, <3>1 DEF ConfigArchitecture, getBaseConfig, Machines
    <2> QED
      BY <2>1, <2>2
  <1> QED
    BY <1>1, <1>4, <1>6, <1>7 DEF Fits

\* A release from a controller: its arch is the flag's, and so is its kind, because the
\* stream was compared with it.
LEMMA LatestFits ==
  ASSUME NEW o \in Options, Named(o) = NoPayload, Accepted(o)
  PROVE  Fits(o)
  <1> DEFINE r == Latest(o.kind, o.arch, o.stream)
  <1>1. HasController(o.kind, o.arch) /\ r # NoPayload /\ getRelease(o) = r
    BY DEF Accepted, getRelease, getReleaseFromController
  <1>2. o.pullspec = NoPayload /\ o.stream \in Streams
    BY DEF Named, Options
  <1>3. /\ installConfigOf(o).kind = o.kind /\ installConfigOf(o).variant = ""
        /\ installConfigOf(o).arch = o.arch
    BY DEF installConfigOf, Effective, toInstallConfigOpts
  <1>4. r.kind = o.kind /\ r.arch = o.arch
    <2>1. CASE o.kind = "ocp"
      BY <1>1, <2>1 DEF Latest
    <2>2. CASE o.kind = "okd"
      <3>1. o.stream # "scos"
        BY <1>2, <2>2 DEF Accepted, validateForSetup
      <3> QED
        BY <1>1, <2>2, <3>1 DEF Latest
    <2>3. CASE o.kind = "okd-scos"
      <3>1. o.stream = "scos"
        BY <1>2, <2>3 DEF Accepted, validateForSetup
      <3> QED
        BY <1>1, <2>3, <3>1 DEF Latest
    <2> QED
      BY <1>1, <2>1, <2>2, <2>3 DEF HasController
  <1>5. o.arch \in {"amd64", "arm64", "multi"}
    <2>0. IsValidKindAndArch(o.kind, o.arch)
      BY <1>3 DEF Accepted, validate
    <2>1. o.arch \in {"amd64", "aarch64", "arm64", "multi"}
      BY <2>0 DEF IsValidKindAndArch
    <2> QED
      BY <1>1, <2>1 DEF HasController
  <1>6. renderConfig(installConfigOf(o)) = getBaseConfig(o.arch)
    BY <1>3 DEF renderConfig
  <1>7. getBaseConfig(o.arch) \in Machines(r)
    BY <1>4, <1>5 DEF getBaseConfig, Machines
  <1> QED
    BY <1>1, <1>3, <1>4, <1>6, <1>7 DEF Fits

\* Whatever the options and the state of the work directory, the install config that is
\* written suits the release.
THEOREM ConfigsFit == ConfigFitsRelease
  <1>1. \A o \in Options : Fits(o)
    BY NamedFits, LatestFits DEF Fits
  <1> QED
    BY <1>1 DEF ConfigFitsRelease, FitsWithFile, FitsWithoutFile

\* What is accepted has a file.
THEOREM AcceptedHaveFiles == AcceptedConfigHasFile
  <1> SUFFICES ASSUME NEW c \in InstallConfigs, validate(c) PROVE renderConfig(c) # "nil"
    BY DEF AcceptedConfigHasFile
  <1>1. CASE c.variant = ""
    BY <1>1 DEF validate, IsValidKindAndArch, renderConfig, getBaseConfig
  <1>2. CASE c.variant # ""
    BY <1>2 DEF validate, validateVariant, renderConfig, getSingleNodeConfig
  <1> QED
    BY <1>1, <1>2
===========================================================================
