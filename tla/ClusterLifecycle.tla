------------------------- MODULE ClusterLifecycle -------------------------
(***************************************************************************)
(* cmd/cluster-lifecycle: setup and teardown of a sandbox cluster.  Every   *)
(* run is a process that works on the files of one work directory, calls    *)
(* openshift-install, and may die at any step.  Nothing locks the directory: *)
(* Procs with one element are runs one after the other, with two elements   *)
(* runs that may overlap.                                                   *)
(***************************************************************************)
EXTENDS Naturals, SequencesExt, SetupOptions

CONSTANTS
    Procs,          \* runs of the program that may be alive at a time
    Overlap,        \* the kinds of runs that may be alive at the same time
    Releases,       \* release pullspecs
    None,           \* no file, no flag
    Empty,          \* the content of an empty file
    MayCrash,       \* is a run ever killed?
    MayForce,       \* is teardown ever run with --force?
    WritesLog,      \* --write-log-file
    MaxRuns         \* how many runs are started in all

ASSUME LifecycleAssumption ==
    /\ None \notin Releases /\ Empty \notin Releases /\ None # Empty
    /\ None \notin Nat /\ None \notin [op : {"setup", "teardown"}, release : Releases \cup {Empty},
                                       finished : BOOLEAN]
    /\ Overlap \subseteq {"setup", "teardown"}
    /\ MayCrash \in BOOLEAN /\ MayForce \in BOOLEAN /\ WritesLog \in BOOLEAN /\ MaxRuns \in Nat

VARIABLES
    vacation,       \* is there a .vacation file?
    releaseFile,    \* content of the .release file
    installer,      \* release of the openshift-install binary in the directory
    metadata,       \* the cluster metadata.json is about
    current,        \* the entry in .current-install.yaml
    scratch,        \* is there an install-config.yaml or another left-over file?
    log,            \* the entries of .cluster-lifecycle-log.yaml
    clusters,       \* what openshift-install created at the cloud provider, in order
    pc,             \* the step each run is at
    run,            \* the options and local variables of each run
    runs,           \* runs started so far
    forced,         \* history: a forced teardown was run
    reused,         \* history: a setup was run in a directory with a cluster
    shared          \* history: two runs were alive at the same time

files == <<vacation, releaseFile, installer, metadata, current, scratch, log>>
vars == <<files, clusters, pc, run, runs, forced, reused, shared>>

Entries == [op : {"setup", "teardown"}, release : Releases \cup {Empty}, finished : BOOLEAN]
Runs == [kind : {"setup", "teardown"}, force : BOOLEAN, flag : Releases \cup {None},
         release : Releases \cup {None}, entry : Entries \cup {None},
         copy : Seq(Entries), keep : BOOLEAN, errs : BOOLEAN, cluster : Nat,
         result : {"none", "ok", "skipped", "error"}]
Clusters == [release : Releases, live : BOOLEAN]

SetupSteps == {"vacation", "release", "writeCurrent", "installConfig", "extract", "fetch",
               "create", "created", "manifests", "rewriteCurrent"}
TeardownSteps == {"readCurrent", "hasInstaller", "hasMetadata", "destroy", "keepInstaller",
                  "rmCurrent", "rmScratch", "rmMetadata", "rmInstaller"}
LogSteps == {"readLog", "writeLog"}

TypeOK ==
    /\ vacation \in BOOLEAN
    /\ releaseFile \in Releases \cup {None, Empty}
    /\ installer \in Releases \cup {None}
    /\ metadata \in (DOMAIN clusters) \cup {None}
    /\ current \in Entries \cup {None}
    /\ scratch \in BOOLEAN
    /\ log \in Seq(Entries)
    /\ clusters \in Seq(Clusters)
    /\ pc \in [Procs -> {"idle"} \cup SetupSteps \cup TeardownSteps \cup LogSteps]
    /\ run \in [Procs -> Runs]
    /\ runs \in 0..MaxRuns
    /\ forced \in BOOLEAN /\ reused \in BOOLEAN /\ shared \in BOOLEAN

\* What is read from an entry's file that was cut short when it was written.
Blank == [op |-> "setup", release |-> Empty, finished |-> FALSE]

NoRun == [kind |-> "setup", force |-> FALSE, flag |-> None, release |-> None, entry |-> None,
          copy |-> <<>>, keep |-> FALSE, errs |-> FALSE, cluster |-> 0, result |-> "none"]

\* A directory nothing has been run in, but for the files a user may have put there.
Init ==
    /\ vacation \in BOOLEAN
    /\ releaseFile \in Releases \cup {None, Empty}
    /\ installer = None /\ metadata = None /\ current = None /\ scratch = FALSE
    /\ log = <<>>
    /\ clusters = <<>>
    /\ pc = [p \in Procs |-> "idle"]
    /\ run = [p \in Procs |-> NoRun]
    /\ runs = 0
    /\ forced = FALSE /\ reused = FALSE /\ shared = FALSE

---------------------------------------------------------------------------
To(p, step) == pc' = [pc EXCEPT ![p] = step]
Set(p, field, value) == run' = [run EXCEPT ![p][field] = value]
\* The run returns; its deferred functions, if any, have run before.
Exits(p, result) == To(p, "idle") /\ Set(p, "result", result)
cloud == <<clusters, runs, forced, reused, shared>>

\* The user adds or removes .vacation and .release at any moment.
UserEditsFiles ==
    /\ \/ vacation' = ~vacation /\ UNCHANGED releaseFile
       \/ releaseFile' \in (Releases \cup {None}) \ {releaseFile} /\ UNCHANGED vacation
    /\ UNCHANGED <<installer, metadata, current, scratch, log, cloud, pc, run>>

MayStart(p, kind) ==
    /\ pc[p] = "idle" /\ runs < MaxRuns
    /\ \A q \in Procs : pc[q] # "idle" => {kind, run[q].kind} \subseteq Overlap
    /\ shared' = (shared \/ \E q \in Procs : pc[q] # "idle")

StartSetup(p) ==
    /\ MayStart(p, "setup")
    /\ \E flag \in Releases \cup {None} : run' = [run EXCEPT ![p] = [NoRun EXCEPT !.flag = flag]]
    /\ To(p, "vacation")
    /\ runs' = runs + 1
    /\ reused' = (reused \/ metadata # None)
    /\ UNCHANGED <<files, clusters, forced>>

StartTeardown(p) ==
    /\ MayStart(p, "teardown")
    /\ \E force \in IF MayForce THEN BOOLEAN ELSE {FALSE} :
          /\ run' = [run EXCEPT ![p] = [NoRun EXCEPT !.kind = "teardown", !.force = force]]
          /\ forced' = (forced \/ force)
          /\ To(p, IF WritesLog THEN "readCurrent" ELSE IF force THEN "destroy" ELSE "hasInstaller")
    /\ runs' = runs + 1
    /\ UNCHANGED <<files, clusters, reused>>

\* os.WriteFile truncates the file first: a write may be cut short.
CutShortCurrent(p) == IF pc[p] \in {"writeCurrent", "rewriteCurrent"} THEN {current, Blank} ELSE {current}
CutShortLog(p) == IF pc[p] = "writeLog" THEN {log, <<>>} ELSE {log}

\* The process is killed, at any of its steps.
Crash(p) ==
    /\ MayCrash /\ pc[p] # "idle"
    /\ To(p, "idle") /\ run' = [run EXCEPT ![p] = NoRun]
    /\ current' \in CutShortCurrent(p)
    /\ log' \in CutShortLog(p)
    /\ UNCHANGED <<vacation, releaseFile, installer, metadata, scratch, cloud>>

---------------------------------------------------------------------------
(* setup                                                                    *)
CheckVacation(p) ==
    /\ pc[p] = "vacation"
    /\ IF vacation THEN Exits(p, "skipped") ELSE To(p, "release") /\ UNCHANGED run
    /\ UNCHANGED <<files, cloud>>

\* The flag, else the file, else the latest release of the stream.
Candidates(p) ==
    IF run[p].flag # None THEN {run[p].flag}
    ELSE IF releaseFile = None THEN Releases
    ELSE {releaseFile} \ {Empty}

GetRelease(p) ==
    /\ pc[p] = "release"
    /\ \/ \E r \in Candidates(p) : Set(p, "release", r) /\ To(p, "writeCurrent")
       \/ Exits(p, "error")
    /\ UNCHANGED <<files, cloud>>

\* The fields of the entry that only writeLogEntry's copy of it gets.
EntryOfFlag(p, finished) == [op |-> "setup", release |-> run[p].flag, finished |-> finished]
Entry(p, finished) == [op |-> "setup", release |-> run[p].release, finished |-> finished]

WriteErrorIgnored(p) == To(p, "installConfig") /\ Set(p, "entry", Entry(p, FALSE))
WriteError(p) == Exits(p, "error")

WriteCurrentInstall(p) ==
    /\ pc[p] = "writeCurrent"
    /\ \/ current' = Entry(p, FALSE) /\ Set(p, "entry", current') /\ To(p, "installConfig")
       \/ WriteError(p) /\ current' \in CutShortCurrent(p)
    /\ UNCHANGED <<vacation, releaseFile, installer, metadata, scratch, log, cloud>>

\* From here on a return runs the deferred function first.
Returns(p, result) == To(p, "rewriteCurrent") /\ Set(p, "result", result)

WriteInstallConfig(p) ==
    /\ pc[p] = "installConfig"
    /\ \/ scratch' = TRUE /\ To(p, "extract") /\ UNCHANGED run
       \/ Returns(p, "error") /\ UNCHANGED scratch
    /\ UNCHANGED <<vacation, releaseFile, installer, metadata, current, log, cloud>>

\* runSetup returns nil when extractInstaller fails.
ExtractFailed == "ok"

\* A binary left from an earlier run is kept only if it is of the release wanted.
ReusesAny(p) == installer # None
Reuses(p) == installer = run[p].release

ExtractInstaller(p) ==
    /\ pc[p] = "extract"
    /\ \/ installer = None /\ To(p, "fetch") /\ UNCHANGED <<run, installer>>
       \/ Reuses(p) /\ To(p, "create") /\ UNCHANGED <<run, installer>>
       \/ installer # None /\ ~Reuses(p) /\ installer' = None /\ UNCHANGED <<pc, run>>
       \/ Returns(p, ExtractFailed) /\ UNCHANGED installer
    /\ UNCHANGED <<vacation, releaseFile, metadata, current, scratch, log, cloud>>

FetchInstaller(p) ==
    /\ pc[p] = "fetch"
    /\ \/ installer' = run[p].release /\ To(p, "create") /\ UNCHANGED run
       \/ Returns(p, ExtractFailed) /\ UNCHANGED installer
    /\ UNCHANGED <<vacation, releaseFile, metadata, current, scratch, log, cloud>>

\* openshift-install create cluster (external): it refuses a directory that has the
\* metadata of a cluster, writes metadata.json, then brings the cluster up.
NewId == Len(clusters) + 1
CreateCluster(p) ==
    /\ pc[p] = "create"
    /\ \/ /\ installer # None /\ metadata = None /\ scratch
          /\ metadata' = NewId
          /\ clusters' = Append(clusters, [release |-> installer, live |-> TRUE])
          /\ To(p, "created") /\ Set(p, "cluster", NewId)
       \/ Returns(p, "error") /\ UNCHANGED <<metadata, clusters>>
    /\ UNCHANGED <<vacation, releaseFile, installer, current, scratch, log, runs, forced, reused, shared>>

\* ... and the installation may fail after minutes, with the cluster there.
CreateEnds(p) ==
    /\ pc[p] = "created"
    /\ \/ To(p, "manifests") /\ UNCHANGED run
       \/ Returns(p, "error")
    /\ UNCHANGED <<files, cloud>>

ApplyPostInstallManifests(p) ==
    /\ pc[p] = "manifests"
    /\ \E result \in {"ok", "error"} : Returns(p, result)
    /\ UNCHANGED <<files, cloud>>

\* The deferred function writes the entry again, as it is, then appends it to the log;
\* klog.Fatalf ends the process when that fails.
RewriteCurrentInstall(p) ==
    /\ pc[p] = "rewriteCurrent"
    /\ \/ current' = run[p].entry /\ UNCHANGED run /\ To(p, IF WritesLog THEN "readLog" ELSE "idle")
       \/ Exits(p, "error") /\ current' \in CutShortCurrent(p)
    /\ UNCHANGED <<vacation, releaseFile, installer, metadata, scratch, log, cloud>>

\* writeLogEntry reads the whole file, then writes it with one entry more.
ReadLog(p) ==
    /\ pc[p] = "readLog"
    /\ \/ Set(p, "copy", log) /\ To(p, "writeLog")
       \/ Exits(p, "error")
    /\ UNCHANGED <<files, cloud>>

OnlyLastEntry(p) == <<[run[p].entry EXCEPT !.op = run[p].kind, !.finished = TRUE]>>
NewLog(p) == Append(run[p].copy, [run[p].entry EXCEPT !.op = run[p].kind, !.finished = TRUE])

WriteLog(p) ==
    /\ pc[p] = "writeLog"
    /\ \/ log' = NewLog(p) /\ To(p, "idle") /\ UNCHANGED run
       \/ Exits(p, "error") /\ log' \in CutShortLog(p)
    /\ UNCHANGED <<vacation, releaseFile, installer, metadata, current, scratch, cloud>>

---------------------------------------------------------------------------
(* teardown                                                                 *)
TeardownStep(p) == IF run[p].force THEN "destroy" ELSE "hasInstaller"

\* Without a current install there is nothing to log; an unreadable one stops a
\* graceful teardown.
ReadCurrentInstall(p) ==
    /\ pc[p] = "readCurrent"
    /\ \/ Set(p, "entry", current) /\ To(p, TeardownStep(p))
       \/ /\ current # None
          /\ IF run[p].force THEN To(p, TeardownStep(p)) /\ UNCHANGED run ELSE Exits(p, "error")
    /\ UNCHANGED <<files, cloud>>

\* The deferred function of teardown appends an entry if the current install was read.
Ends(p, result) ==
    /\ Set(p, "result", result)
    /\ To(p, IF WritesLog /\ run[p].entry # None THEN "readLog" ELSE "idle")

CheckInstaller(p) ==
    /\ pc[p] = "hasInstaller"
    /\ IF installer = None THEN Ends(p, "ok") ELSE To(p, "hasMetadata") /\ UNCHANGED run
    /\ UNCHANGED <<files, cloud>>

CheckMetadata(p) ==
    /\ pc[p] = "hasMetadata"
    /\ IF metadata = None THEN Ends(p, "ok") ELSE To(p, "destroy") /\ UNCHANGED run
    /\ UNCHANGED <<files, cloud>>

\* An error of destroyCluster ends a graceful teardown; a forced one goes on.
DestroyErrorIgnored(p) == To(p, "keepInstaller") /\ Set(p, "errs", TRUE)
DestroyError(p) ==
    IF run[p].force THEN To(p, "keepInstaller") /\ Set(p, "errs", TRUE) ELSE Ends(p, "error")

\* openshift-install destroy cluster (external) destroys what metadata.json names.
DestroyCluster(p) ==
    /\ pc[p] = "destroy"
    /\ \/ /\ installer # None /\ metadata # None
          /\ clusters' = [clusters EXCEPT ![metadata].live = FALSE]
          /\ metadata' \in {metadata, None}
          /\ To(p, "keepInstaller") /\ UNCHANGED run
       \/ DestroyError(p) /\ UNCHANGED <<clusters, metadata>>
    /\ UNCHANGED <<vacation, releaseFile, installer, current, scratch, log, runs, forced, reused, shared>>

\* teardownWorkDir: whether to keep the installer is decided before anything is removed.
Kept == releaseFile # None
DecideKeepInstaller(p) ==
    /\ pc[p] = "keepInstaller"
    /\ \/ Set(p, "keep", Kept) /\ To(p, "rmCurrent")
       \/ Ends(p, "error")
    /\ UNCHANGED <<files, cloud>>

\* Paths go in sorted order, one by one; the first that cannot be removed ends it.
Removal(p, step, next) ==
    /\ pc[p] = step
    /\ To(p, next) /\ UNCHANGED run

RemovalFails(p) ==
    /\ pc[p] \in {"rmCurrent", "rmScratch", "rmMetadata", "rmInstaller"}
    /\ Ends(p, "error")
    /\ UNCHANGED <<files, cloud>>

RemoveCurrentInstall(p) ==
    /\ Removal(p, "rmCurrent", "rmScratch")
    /\ current' = None
    /\ UNCHANGED <<vacation, releaseFile, installer, metadata, scratch, log, cloud>>

RemoveOtherFiles(p) ==
    /\ Removal(p, "rmScratch", "rmMetadata")
    /\ scratch' = FALSE
    /\ UNCHANGED <<vacation, releaseFile, installer, metadata, current, log, cloud>>

RemoveMetadata(p) ==
    /\ Removal(p, "rmMetadata", "rmInstaller")
    /\ metadata' = None
    /\ UNCHANGED <<vacation, releaseFile, installer, current, scratch, log, cloud>>

RemoveInstaller(p) ==
    /\ pc[p] = "rmInstaller"
    /\ installer' = IF run[p].keep THEN installer ELSE None
    /\ Ends(p, IF run[p].errs THEN "error" ELSE "ok")
    /\ UNCHANGED <<vacation, releaseFile, metadata, current, scratch, log, cloud>>

Setup(p) ==
    \/ CheckVacation(p) \/ GetRelease(p) \/ WriteCurrentInstall(p) \/ WriteInstallConfig(p)
    \/ ExtractInstaller(p) \/ FetchInstaller(p) \/ CreateCluster(p) \/ CreateEnds(p)
    \/ ApplyPostInstallManifests(p) \/ RewriteCurrentInstall(p)

Teardown(p) ==
    \/ ReadCurrentInstall(p) \/ CheckInstaller(p) \/ CheckMetadata(p) \/ DestroyCluster(p)
    \/ DecideKeepInstaller(p) \/ RemovalFails(p) \/ RemoveCurrentInstall(p)
    \/ RemoveOtherFiles(p) \/ RemoveMetadata(p) \/ RemoveInstaller(p)

Run(p) == Setup(p) \/ Teardown(p) \/ ReadLog(p) \/ WriteLog(p)

Next ==
    \/ UserEditsFiles
    \/ \E p \in Procs : StartSetup(p) \/ StartTeardown(p) \/ Run(p) \/ Crash(p)

Spec == Init /\ [][Next]_vars

---------------------------------------------------------------------------
Ended(p, kind, result) == pc[p] = "idle" /\ run[p].kind = kind /\ run[p].result = result

\* Every cluster that is up can be torn down: whatever setups and graceful teardowns ran,
\* failed or were killed, metadata.json still names it (gracefulTeardown stops when
\* destroyCluster fails, and openshift-install refuses a directory in use).
ClusterKeepsItsMetadata ==
    ~forced => \A c \in DOMAIN clusters : clusters[c].live => metadata = c

\* A run creates a cluster of the release it chose, and not of the release of an
\* installer an earlier run left in the directory (extractInstaller's version check).
ChosenReleaseIsInstalled ==
    \A p \in Procs : run[p].cluster # 0 => clusters[run[p].cluster].release = run[p].release

\* While a cluster is up .current-install.yaml is there and tells its release, unless a
\* write was cut short or setup ran again over the cluster: the entry is written before
\* the cluster is created and goes only after it was destroyed.
CurrentInstallDescribesCluster ==
    \A c \in DOMAIN clusters : clusters[c].live /\ ~forced /\ ~reused =>
        current # None /\ current.release \in {clusters[c].release, Empty}

\* The log file only grows, except when a write of it is cut short or two runs share the
\* directory (writeLogEntry writes back all the entries it read before).
LogGrows == [][shared \/ log' = <<>> \/ IsPrefix(log, log')]_vars

\* What the documents say and the code does not do:
\* "To tear down your OpenShift cluster, run the program": a graceful teardown that reports
\* success leaves no cluster up (gracefulTeardown has nothing to do without an installer,
\* which a setup removed that reports success too: runSetup returns nil when
\* extractInstaller fails).
TeardownOkMeansNoCluster ==
    \A p \in Procs : Ended(p, "teardown", "ok") /\ ~run[p].force =>
        \A c \in DOMAIN clusters : ~clusters[c].live

\* Whatever the work directory has become, and whatever flags setup is run with there, the
\* install config it writes suits the release: although kind and arch come from the flags or
\* from the release, which a pullspec, the .release file or a stream may name, and are
\* looked up in three tables.
ConfigFitsRelease == IF releaseFile \in Releases THEN FitsWithFile ELSE FitsWithoutFile
===========================================================================
