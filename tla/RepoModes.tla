----------------------------- MODULE RepoModes -----------------------------
(***************************************************************************)
(* Build modes of a machine-config-operator checkout: internal/pkg/repo.    *)
(* A client loads the checkout, has SetupForBuild write the files its mode   *)
(* overrides, builds, and has TeardownFromBuild remove them again.  Clients  *)
(* (external) share the checkout with each other and with its user, who      *)
(* checks out branches of other versions, and may be killed at any moment.   *)
(***************************************************************************)
EXTENDS FiniteSets

CONSTANTS
    Clients,        \* processes that work on the checkout
    Supported,      \* versions the module has Dockerfiles for
    Versions        \* versions the branches of the checkout are for

ASSUME RepoModesAssumption ==
    Supported \subseteq Versions /\ Supported # {} /\ Supported \cap {"none", "user", "cut"} = {}

BuildModes == {"normal", "fast", "cluster"}

\* The file a mode builds with, and those of them that SetupForBuild writes.
SharedDockerfile(m) == IF m = "normal" THEN "Dockerfile" ELSE "Dockerfile.fast-build"
DockerfileOf(m) ==
    CASE m = "normal" -> "Dockerfile" [] m = "fast" -> "Dockerfile.fast-build"
      [] m = "cluster" -> "Dockerfile.cluster"
MakefileOf(m) == IF m = "fast" THEN "Makefile.fast-build" ELSE "Makefile"

EmbeddedUnlessNormal(m) == IF m = "normal" THEN {} ELSE {DockerfileOf(m), MakefileOf(m)}
Embedded(m) ==
    CASE m = "normal" -> {} [] m = "fast" -> {DockerfileOf(m), MakefileOf(m)}
      [] m = "cluster" -> {DockerfileOf(m)}

UserFiles == {"Dockerfile", "Makefile"}
Files == UNION {{DockerfileOf(m), MakefileOf(m)} : m \in BuildModes}

VARIABLES
    disk,           \* what each file of the checkout holds
    branch,         \* the version the user's Dockerfile is for
    step,           \* where each client is
    mode,           \* MCORepo.buildMode of each client
    version,        \* the version it inferred when it loaded the checkout
    errs,           \* did a write of SetupForBuild fail?
    kept,           \* history: files the client failed to remove
    disturbed,      \* history: another client of its mode touched its files
    moved           \* history: another branch was checked out since it loaded

repoVars == <<disk, branch, step, mode, version, errs, kept, disturbed, moved>>

\* "cut" is a file that was truncated and not, or not all, written.
Contents == {"none", "user", "cut"} \cup Supported
Steps == {"idle", "writeDockerfile", "writeMakefile", "ready", "failed",
          "removeDockerfile", "removeMakefile", "torndown"}

TypeOK ==
    /\ disk \in [Files -> Contents]
    /\ branch \in Versions
    /\ step \in [Clients -> Steps]
    /\ mode \in [Clients -> BuildModes]
    /\ version \in [Clients -> Versions]
    /\ errs \in [Clients -> BOOLEAN]
    /\ kept \in [Clients -> SUBSET Files]
    /\ disturbed \in [Clients -> BOOLEAN] /\ moved \in [Clients -> BOOLEAN]

Init ==
    /\ disk = [f \in Files |-> IF f \in UserFiles THEN "user" ELSE "none"]
    /\ branch \in Versions
    /\ step = [c \in Clients |-> "idle"]
    /\ mode = [c \in Clients |-> "normal"]
    /\ version = [c \in Clients |-> branch]
    /\ errs = [c \in Clients |-> FALSE]
    /\ kept = [c \in Clients |-> {}]
    /\ disturbed = [c \in Clients |-> FALSE] /\ moved = [c \in Clients |-> FALSE]

---------------------------------------------------------------------------
\* The user checks out another branch; git leaves the files it does not know alone.
Checkout ==
    /\ \E v \in Versions \ {branch} : branch' = v
    /\ moved' = [c \in Clients |-> step[c] # "idle"]
    /\ UNCHANGED <<disk, step, mode, version, errs, kept, disturbed>>

\* The version is that of the first OCP base image in the user's Dockerfile.
inferOCPVersionFromDockerfile == branch

\* Every mode needs a branch, a remote and the user's files, which is not told apart here:
\* a load that fails leaves nothing behind.
Loads(m, v) == m = "normal" \/ v \in Supported

NewMCORepo(c) ==
    /\ step[c] = "idle"
    /\ \E m \in BuildModes :
          /\ Loads(m, inferOCPVersionFromDockerfile)
          /\ mode' = [mode EXCEPT ![c] = m]
    /\ version' = [version EXCEPT ![c] = inferOCPVersionFromDockerfile]
    /\ step' = [step EXCEPT ![c] = "writeDockerfile"]
    /\ errs' = [errs EXCEPT ![c] = FALSE]
    /\ kept' = [kept EXCEPT ![c] = {}]
    /\ disturbed' = [disturbed EXCEPT ![c] = FALSE]
    /\ moved' = [moved EXCEPT ![c] = FALSE]
    /\ UNCHANGED <<disk, branch>>

\* Others that work in the same mode notice what c does to the files.
Disturbs(c) ==
    disturbed' = [d \in Clients |-> disturbed[d] \/ (d # c /\ mode[d] = mode[c])]

\* What an embedded file holds: a Dockerfile is for a version, the Makefile for any.
Content(c) == version[c]

\* writeIfEmbedded: the other file is written even if this one could not be.
WriteIfEmbedded(c, f, next, failed) ==
    /\ IF f \in Embedded(mode[c])
       THEN /\ \/ disk' = [disk EXCEPT ![f] = Content(c)] /\ UNCHANGED errs
               \/ /\ errs' = [errs EXCEPT ![c] = TRUE]
                  /\ \E left \in {"cut", disk[f]} : disk' = [disk EXCEPT ![f] = left]
            /\ Disturbs(c)
       ELSE UNCHANGED <<disk, errs, disturbed>>
    /\ step' = [step EXCEPT ![c] = IF errs'[c] THEN failed ELSE next]
    /\ UNCHANGED <<branch, mode, version, kept, moved>>

WriteDockerfile(c) ==
    /\ step[c] = "writeDockerfile"
    /\ WriteIfEmbedded(c, DockerfileOf(mode[c]), "writeMakefile", "writeMakefile")

WriteMakefile(c) ==
    /\ step[c] = "writeMakefile"
    /\ WriteIfEmbedded(c, MakefileOf(mode[c]), "ready", "failed")

\* TeardownFromBuild, after a build or after a setup that failed.
TeardownFromBuild(c) ==
    /\ step[c] \in {"ready", "failed"}
    /\ step' = [step EXCEPT ![c] = "removeDockerfile"]
    /\ UNCHANGED <<disk, branch, mode, version, errs, kept, disturbed, moved>>

\* deleteIfEmbedded: it is an error that there is no such file.
DeleteIfEmbedded(c, f, next, failed) ==
    /\ IF f \in Embedded(mode[c])
       THEN \/ /\ disk[f] # "none" /\ disk' = [disk EXCEPT ![f] = "none"]
               /\ step' = [step EXCEPT ![c] = next]
               /\ Disturbs(c) /\ UNCHANGED kept
            \/ /\ step' = [step EXCEPT ![c] = failed]
               /\ kept' = [kept EXCEPT ![c] = @ \cup {f}]
               /\ UNCHANGED <<disk, disturbed>>
       ELSE step' = [step EXCEPT ![c] = next] /\ UNCHANGED <<disk, kept, disturbed>>
    /\ UNCHANGED <<branch, mode, version, errs, moved>>

\* The Makefile is removed even if there was no Dockerfile to remove.
AfterErrorStop == "torndown"
AfterError == "removeMakefile"
RemoveDockerfile(c) ==
    /\ step[c] = "removeDockerfile"
    /\ DeleteIfEmbedded(c, DockerfileOf(mode[c]), "removeMakefile", AfterError)

RemoveMakefile(c) ==
    /\ step[c] = "removeMakefile"
    /\ DeleteIfEmbedded(c, MakefileOf(mode[c]), "torndown", "torndown")

\* A client ends: after its teardown, or without one, or it is killed, which may cut the
\* file short that it is writing.
Writing(c) == (CASE step[c] = "writeDockerfile" -> {DockerfileOf(mode[c])}
                 [] step[c] = "writeMakefile" -> {MakefileOf(mode[c])}
                 [] OTHER -> {}) \cap Embedded(mode[c])
Ends(c) ==
    /\ step[c] # "idle"
    /\ \/ UNCHANGED <<disk, disturbed>>
       \/ /\ \E f \in Writing(c) : disk' = [disk EXCEPT ![f] = "cut"]
          /\ Disturbs(c)
    /\ step' = [step EXCEPT ![c] = "idle"]
    /\ UNCHANGED <<branch, mode, version, errs, kept, moved>>

Client(c) ==
    \/ NewMCORepo(c) \/ WriteDockerfile(c) \/ WriteMakefile(c)
    \/ TeardownFromBuild(c) \/ RemoveDockerfile(c) \/ RemoveMakefile(c) \/ Ends(c)

Next == Checkout \/ \E c \in Clients : Client(c)

Spec == Init /\ [][Next]_repoVars

---------------------------------------------------------------------------
\* Whatever mode is built, the user's Dockerfile and Makefile stay as they are, although
\* the cluster mode builds with the Makefile and tears down all it overrode (repo_test.go).
UserFilesSurvive == \A f \in UserFiles : disk[f] = "user"

\* A client that is ready builds with the Dockerfile for the version of the branch, and all
\* its mode overrides, the Makefile too, is in place and whole, though a client of the other
\* mode writes and removes its files meanwhile and an earlier client was killed in the middle
\* of either: unless one of its own mode is at work, or the branch was changed under it.
BuildsItsBranch ==
    \A c \in Clients :
        (step[c] = "ready" /\ mode[c] # "normal" /\ ~disturbed[c] /\ ~moved[c]) =>
            /\ disk[DockerfileOf(mode[c])] = branch
            /\ \A f \in Embedded(mode[c]) : disk[f] \notin {"none", "cut"}

\* A teardown leaves no file of its mode but one whose removal failed: not the other one,
\* not those a killed client left behind, not after a setup that wrote one file only.
TeardownRemovesAll ==
    \A c \in Clients :
        (step[c] = "torndown" /\ ~disturbed[c]) =>
            \A f \in Embedded(mode[c]) : disk[f] = "none" \/ f \in kept[c]
===========================================================================
