-------------------------- MODULE RepoModesProofs --------------------------
(***************************************************************************)
(* Theorems about RepoModes, for any set of clients and of versions.  The   *)
(* heart of them is that the files of two modes are disjoint: a step of a    *)
(* client either leaves the files of another one alone or disturbs it.       *)
(***************************************************************************)
EXTENDS RepoModes, TLAPS

\* The version a client overrides files for has those files.
VersionInv(c) == mode[c] # "normal" => version[c] \in Supported

\* The client works for the branch that is checked out, unless that changed.
BranchInv(c) == (step[c] # "idle" /\ ~moved[c]) => version[c] = branch

\* Between the write of a file and its teardown what the file holds is the client's own.
Written(c, f) == f \in Embedded(mode[c]) => disk[f] = version[c]
WrittenInv(c) ==
    (~disturbed[c] /\ ~errs[c]) =>
        /\ step[c] \in {"writeMakefile", "ready"} => Written(c, DockerfileOf(mode[c]))
        /\ step[c] = "ready" => Written(c, MakefileOf(mode[c]))

ReadyInv(c) == step[c] = "ready" => ~errs[c]

\* What a teardown is past is gone, or could not be removed.
Removed(c, f) == f \in Embedded(mode[c]) => disk[f] = "none" \/ f \in kept[c]
RemovedInv(c) ==
    ~disturbed[c] =>
        /\ step[c] \in {"removeMakefile", "torndown"} => Removed(c, DockerfileOf(mode[c]))
        /\ step[c] = "torndown" => Removed(c, MakefileOf(mode[c]))

ClientInv(c) == VersionInv(c) /\ BranchInv(c) /\ WrittenInv(c) /\ ReadyInv(c) /\ RemovedInv(c)

IInv == TypeOK /\ UserFilesSurvive /\ \A c \in Clients : ClientInv(c)

---------------------------------------------------------------------------
(* The table of files.                                                      *)

\* Two modes have no file in common, and none is the user's.
LEMMA ModesAreDisjoint ==
  ASSUME NEW m \in BuildModes, NEW n \in BuildModes
  PROVE  /\ Embedded(m) \subseteq Files /\ Embedded(m) \cap UserFiles = {}
         /\ m # n => Embedded(m) \cap Embedded(n) = {}
  <1>1. Embedded(m) \subseteq Files
    BY DEF Files, Embedded, BuildModes
  <1>2. Embedded(m) \cap UserFiles = {}
    BY DEF Embedded, UserFiles, DockerfileOf, MakefileOf, BuildModes
  <1>3. m # n => Embedded(m) \cap Embedded(n) = {}
    BY DEF Embedded, DockerfileOf, MakefileOf, BuildModes
  <1> QED
    BY <1>1, <1>2, <1>3

\* A mode that overrides anything overrides its Dockerfile, which is not its Makefile.
LEMMA ModeFiles ==
  ASSUME NEW m \in BuildModes
  PROVE  /\ m # "normal" => DockerfileOf(m) \in Embedded(m)
         /\ m = "normal" => Embedded(m) = {}
         /\ DockerfileOf(m) # MakefileOf(m)
         /\ Embedded(m) \subseteq {DockerfileOf(m), MakefileOf(m)}
  BY DEF Embedded, DockerfileOf, MakefileOf, BuildModes

LEMMA Initially == Init => IInv
  <1> SUFFICES ASSUME Init PROVE IInv
    OBVIOUS
  <1>1. UserFiles \subseteq Files
    BY DEF UserFiles, Files, BuildModes, DockerfileOf, MakefileOf
  <1>2. TypeOK
    BY RepoModesAssumption DEF Init, TypeOK, Contents, Steps, BuildModes
  <1>3. UserFilesSurvive
    BY <1>1 DEF Init, UserFilesSurvive
  <1>4. ASSUME NEW c \in Clients PROVE ClientInv(c)
    BY <1>4 DEF Init, ClientInv, VersionInv, BranchInv, WrittenInv, ReadyInv, RemovedInv
  <1> QED
    BY <1>2, <1>3, <1>4 DEF IInv

---------------------------------------------------------------------------
(* What a step of one client is to another one.                             *)

\* It changes nothing of the other but its disturbed flag; and it sets that when it touches
\* a file of the other's mode.
Others(c) ==
    /\ branch' = branch
    /\ \A d \in Clients \ {c} :
          /\ UNCHANGED <<step[d], mode[d], version[d], errs[d], kept[d], moved[d]>>
          /\ disturbed[d] => disturbed'[d]
          /\ disturbed'[d] \/ \A f \in Embedded(mode[d]) : disk'[f] = disk[f]

LEMMA OthersKeepInv ==
  ASSUME IInv, NEW c \in Clients, Others(c), NEW d \in Clients \ {c}
  PROVE  ClientInv(d)'
  <1>1. mode[d] \in BuildModes
    BY DEF IInv, TypeOK
  <1>2. ClientInv(d)
    BY DEF IInv
  <1>3. UNCHANGED <<step[d], mode[d], version[d], errs[d], kept[d], moved[d], branch>>
    BY DEF Others
  <1>4. VersionInv(d)' /\ BranchInv(d)' /\ ReadyInv(d)'
    BY <1>2, <1>3 DEF ClientInv, VersionInv, BranchInv, ReadyInv
  <1>5. CASE disturbed'[d]
    BY <1>4, <1>5 DEF ClientInv, WrittenInv, RemovedInv
  <1>6. CASE ~disturbed'[d]
    <2>1. ~disturbed[d] /\ \A f \in Embedded(mode[d]) : disk'[f] = disk[f]
      BY <1>6 DEF Others
    <2>2. WrittenInv(d)'
      BY <1>2, <1>3, <2>1 DEF ClientInv, WrittenInv, Written
    <2>3. RemovedInv(d)'
      BY <1>2, <1>3, <2>1 DEF ClientInv, RemovedInv, Removed
    <2> QED
      BY <1>4, <2>2, <2>3 DEF ClientInv
  <1> QED
    BY <1>5, <1>6

\* A client changes nothing but files of its own mode, and what it does is seen.
LEMMA OwnFilesOnly ==
  ASSUME IInv, NEW c \in Clients, NEW f \in Embedded(mode[c]), NEW content \in Contents,
         disk' = [disk EXCEPT ![f] = content], Disturbs(c), UNCHANGED <<branch, mode>>
  PROVE  /\ disk' \in [Files -> Contents] /\ UserFilesSurvive' /\ disk'[f] = content
         /\ disturbed' \in [Clients -> BOOLEAN] /\ disturbed'[c] = disturbed[c]
         /\ \A g \in Embedded(mode[c]) \ {f} : disk'[g] = disk[g]
         /\ \A d \in Clients \ {c} :
               /\ disturbed[d] => disturbed'[d]
               /\ disturbed'[d] \/ \A g \in Embedded(mode[d]) : disk'[g] = disk[g]
  <1>1. disk \in [Files -> Contents] /\ mode \in [Clients -> BuildModes]
        /\ disturbed \in [Clients -> BOOLEAN]
    BY DEF IInv, TypeOK
  <1>2. f \in Files \ UserFiles
    BY <1>1, ModesAreDisjoint
  <1>3. disk' \in [Files -> Contents] /\ disk'[f] = content
        /\ \A g \in Files \ {f} : disk'[g] = disk[g]
    BY <1>1, <1>2
  <1>4. UserFiles \subseteq Files
    BY DEF UserFiles, Files, BuildModes, DockerfileOf, MakefileOf
  <1>5. UserFilesSurvive'
    BY <1>2, <1>3, <1>4 DEF IInv, UserFilesSurvive
  <1>6. disturbed' \in [Clients -> BOOLEAN] /\ disturbed'[c] = disturbed[c]
    BY <1>1 DEF Disturbs
  <1>7. \A g \in Embedded(mode[c]) \ {f} : disk'[g] = disk[g]
    BY <1>1, <1>3, ModesAreDisjoint
  <1>8. ASSUME NEW d \in Clients \ {c}
        PROVE  /\ disturbed[d] => disturbed'[d]
               /\ disturbed'[d] \/ \A g \in Embedded(mode[d]) : disk'[g] = disk[g]
    <2>1. disturbed'[d] = (disturbed[d] \/ mode[d] = mode[c])
      BY <1>1 DEF Disturbs
    <2>2. mode[d] # mode[c] => \A g \in Embedded(mode[d]) : g \in Files \ {f}
      BY <1>1, ModesAreDisjoint
    <2> QED
      BY <1>1, <1>3, <2>1, <2>2
  <1> QED
    BY <1>3, <1>5, <1>6, <1>7, <1>8

---------------------------------------------------------------------------
(* What a step is to the client that takes it, one lemma per action.        *)

\* What is left to show of a step of c.
Kept(c) == TypeOK' /\ UserFilesSurvive' /\ Others(c) /\ ClientInv(c)'

LEMMA KeptSuffices ==
  ASSUME IInv, NEW c \in Clients, Kept(c)
  PROVE  IInv'
  <1>1. ASSUME NEW d \in Clients PROVE ClientInv(d)'
    <2>1. CASE d = c
      BY <2>1 DEF Kept
    <2>2. CASE d # c
      BY <2>2, OthersKeepInv DEF Kept
    <2> QED
      BY <2>1, <2>2
  <1> QED
    BY <1>1 DEF Kept, IInv

LEMMA CheckoutKeeps ==
  ASSUME IInv, Checkout
  PROVE  IInv'
  <1>1. TypeOK'
    BY DEF IInv, TypeOK, Checkout
  <1>2. UserFilesSurvive'
    BY DEF IInv, UserFilesSurvive, Checkout
  <1>3. ASSUME NEW c \in Clients PROVE ClientInv(c)'
    <2>1. ClientInv(c) /\ moved'[c] = (step[c] # "idle")
      BY DEF IInv, Checkout
    <2>2. UNCHANGED <<disk, step, mode, version, errs, kept, disturbed>>
      BY DEF Checkout
    <2> QED
      BY <2>1, <2>2
      DEF ClientInv, VersionInv, BranchInv, WrittenInv, Written, ReadyInv, RemovedInv, Removed
  <1> QED
    BY <1>1, <1>2, <1>3 DEF IInv

LEMMA NewMCORepoKeeps ==
  ASSUME IInv, NEW c \in Clients, NewMCORepo(c)
  PROVE  Kept(c)
  <1>1. PICK m \in BuildModes : Loads(m, branch) /\ mode' = [mode EXCEPT ![c] = m]
    BY DEF NewMCORepo, inferOCPVersionFromDockerfile
  <1>2. TypeOK'
    BY <1>1 DEF IInv, TypeOK, NewMCORepo, Steps, inferOCPVersionFromDockerfile
  <1>3. UserFilesSurvive'
    BY DEF IInv, UserFilesSurvive, NewMCORepo
  <1>4. Others(c)
    BY <1>1 DEF IInv, TypeOK, Others, NewMCORepo
  <1>5. /\ step'[c] = "writeDockerfile" /\ mode'[c] = m /\ version'[c] = branch
        /\ branch' = branch
    BY <1>1 DEF IInv, TypeOK, NewMCORepo, inferOCPVersionFromDockerfile
  <1>6. ClientInv(c)'
    BY <1>1, <1>5 DEF Loads, ClientInv, VersionInv, BranchInv, WrittenInv, ReadyInv, RemovedInv
  <1> QED
    BY <1>2, <1>3, <1>4, <1>6 DEF Kept

\* What both of SetupForBuild's writes do: it is enough to know where they lead.
LEMMA WriteKeeps ==
  ASSUME IInv, NEW c \in Clients, NEW f, NEW next \in Steps, NEW failed \in Steps,
         WriteIfEmbedded(c, f, next, failed)
  PROVE  /\ TypeOK' /\ UserFilesSurvive' /\ Others(c)
         /\ UNCHANGED <<branch, mode, version, kept, moved>>
         /\ step'[c] = IF errs'[c] THEN failed ELSE next
         /\ errs[c] => errs'[c]
         /\ disturbed'[c] = disturbed[c]
         /\ \A g \in Embedded(mode[c]) \ {f} : disk'[g] = disk[g]
         /\ f \in Embedded(mode[c]) => errs'[c] \/ disk'[f] = version[c]
  <1>1. TypeOK /\ UserFilesSurvive /\ VersionInv(c)
    BY DEF IInv, ClientInv
  <1>2. UNCHANGED <<branch, mode, version, kept, moved>>
    BY DEF WriteIfEmbedded
  <1>3. step' = [step EXCEPT ![c] = IF errs'[c] THEN failed ELSE next]
    BY DEF WriteIfEmbedded
  <1>4. step' \in [Clients -> Steps] /\ step'[c] = (IF errs'[c] THEN failed ELSE next)
        /\ \A d \in Clients \ {c} : step'[d] = step[d]
    BY <1>1, <1>3 DEF TypeOK
  <1>5. CASE f \notin Embedded(mode[c])
    <2>1. UNCHANGED <<disk, errs, disturbed>>
      BY <1>5 DEF WriteIfEmbedded
    <2>2. TypeOK' /\ UserFilesSurvive' /\ Others(c)
      BY <1>1, <1>2, <1>4, <2>1 DEF TypeOK, UserFilesSurvive, Others
    <2> QED
      BY <1>2, <1>4, <1>5, <2>1, <2>2
  <1>6. CASE f \in Embedded(mode[c])
    <2>1. mode[c] \in BuildModes /\ mode[c] # "normal" /\ f \in Files
      BY <1>1, <1>6, ModeFiles, ModesAreDisjoint DEF TypeOK
    <2>2. version[c] \in Contents
      BY <1>1, <2>1 DEF VersionInv, Contents
    <2>3. Disturbs(c)
      BY <1>6 DEF WriteIfEmbedded
    <2>4. PICK content \in Contents :
             /\ disk' = [disk EXCEPT ![f] = content]
             /\ \/ content = version[c] /\ UNCHANGED errs
                \/ errs' = [errs EXCEPT ![c] = TRUE]
      <3>1. CASE disk' = [disk EXCEPT ![f] = Content(c)] /\ UNCHANGED errs
        BY <2>2, <3>1 DEF Content
      <3>2. CASE /\ errs' = [errs EXCEPT ![c] = TRUE]
                 /\ \E left \in {"cut", disk[f]} : disk' = [disk EXCEPT ![f] = left]
        <4>1. disk[f] \in Contents /\ "cut" \in Contents
          BY <1>1, <2>1 DEF TypeOK, Contents
        <4> QED
          BY <3>2, <4>1
      <3> QED
        BY <1>6, <3>1, <3>2 DEF WriteIfEmbedded
    <2>5. /\ disk' \in [Files -> Contents] /\ UserFilesSurvive' /\ disk'[f] = content
          /\ disturbed' \in [Clients -> BOOLEAN] /\ disturbed'[c] = disturbed[c]
          /\ \A g \in Embedded(mode[c]) \ {f} : disk'[g] = disk[g]
          /\ \A d \in Clients \ {c} :
                /\ disturbed[d] => disturbed'[d]
                /\ disturbed'[d] \/ \A g \in Embedded(mode[d]) : disk'[g] = disk[g]
      BY <1>2, <1>6, <2>3, <2>4, OwnFilesOnly
    <2>6. /\ errs' \in [Clients -> BOOLEAN]
          /\ errs[c] => errs'[c]
          /\ errs'[c] \/ content = version[c]
          /\ \A d \in Clients \ {c} : errs'[d] = errs[d]
      BY <1>1, <2>4 DEF TypeOK
    <2>7. TypeOK'
      BY <1>1, <1>2, <1>4, <2>5, <2>6 DEF TypeOK
    <2>8. Others(c)
      BY <1>2, <1>4, <2>5, <2>6 DEF Others
    <2> QED
      BY <1>2, <1>4, <2>5, <2>6, <2>7, <2>8
  <1> QED
    BY <1>5, <1>6

LEMMA WriteDockerfileKeeps ==
  ASSUME IInv, NEW c \in Clients, WriteDockerfile(c)
  PROVE  Kept(c)
  <1> DEFINE f == DockerfileOf(mode[c])
  <1>1. mode[c] \in BuildModes /\ ClientInv(c) /\ step[c] = "writeDockerfile"
    BY DEF IInv, TypeOK, WriteDockerfile
  <1>2. /\ TypeOK' /\ UserFilesSurvive' /\ Others(c)
        /\ UNCHANGED <<branch, mode, version, kept, moved>>
        /\ step'[c] = "writeMakefile" /\ disturbed'[c] = disturbed[c]
        /\ f \in Embedded(mode[c]) => errs'[c] \/ disk'[f] = version[c]
    <2>1. WriteIfEmbedded(c, f, "writeMakefile", "writeMakefile") /\ "writeMakefile" \in Steps
      BY DEF WriteDockerfile, Steps
    <2> HIDE DEF f
    <2> QED
      BY <2>1, WriteKeeps
  <1>3. ClientInv(c)'
    BY <1>1, <1>2
    DEF ClientInv, VersionInv, BranchInv, WrittenInv, Written, ReadyInv, RemovedInv
  <1> QED
    BY <1>2, <1>3 DEF Kept

LEMMA WriteMakefileKeeps ==
  ASSUME IInv, NEW c \in Clients, WriteMakefile(c)
  PROVE  Kept(c)
  <1> DEFINE f == MakefileOf(mode[c])
  <1>1. mode[c] \in BuildModes /\ ClientInv(c) /\ step[c] = "writeMakefile"
    BY DEF IInv, TypeOK, WriteMakefile
  <1>2. /\ TypeOK' /\ UserFilesSurvive' /\ Others(c)
        /\ UNCHANGED <<branch, mode, version, kept, moved>>
        /\ step'[c] = (IF errs'[c] THEN "failed" ELSE "ready") /\ disturbed'[c] = disturbed[c]
        /\ errs[c] => errs'[c]
        /\ \A g \in Embedded(mode[c]) \ {f} : disk'[g] = disk[g]
        /\ f \in Embedded(mode[c]) => errs'[c] \/ disk'[f] = version[c]
    <2>1. WriteIfEmbedded(c, f, "ready", "failed") /\ "ready" \in Steps /\ "failed" \in Steps
      BY DEF WriteMakefile, Steps
    <2> HIDE DEF f
    <2> QED
      BY <2>1, WriteKeeps
  <1>3. VersionInv(c)' /\ BranchInv(c)' /\ ReadyInv(c)' /\ RemovedInv(c)'
    BY <1>1, <1>2 DEF ClientInv, VersionInv, BranchInv, ReadyInv, RemovedInv
  <1>4. WrittenInv(c)'
    <2> DEFINE g == DockerfileOf(mode[c])
    <2>1. g # f
      BY <1>1, ModeFiles
    <2>2. (~disturbed[c] /\ ~errs[c]) => Written(c, g)
      BY <1>1 DEF ClientInv, WrittenInv
    <2>3. (~disturbed'[c] /\ ~errs'[c]) => Written(c, g)' /\ Written(c, f)'
      BY <1>2, <2>1, <2>2 DEF Written
    <2> QED
      BY <1>2, <2>3 DEF WrittenInv
  <1> QED
    BY <1>2, <1>3, <1>4 DEF Kept, ClientInv

LEMMA TeardownFromBuildKeeps ==
  ASSUME IInv, NEW c \in Clients, TeardownFromBuild(c)
  PROVE  Kept(c)
  <1>1. /\ step' = [step EXCEPT ![c] = "removeDockerfile"]
        /\ UNCHANGED <<disk, branch, mode, version, errs, kept, disturbed, moved>>
        /\ step[c] \in {"ready", "failed"}
    BY DEF TeardownFromBuild
  <1>2. TypeOK'
    BY <1>1 DEF IInv, TypeOK, Steps
  <1>3. UserFilesSurvive'
    BY <1>1 DEF IInv, UserFilesSurvive
  <1>4. Others(c) /\ step'[c] = "removeDockerfile"
    BY <1>1 DEF IInv, TypeOK, Others
  <1>5. ClientInv(c)'
    BY <1>1, <1>4 DEF IInv, ClientInv, VersionInv, BranchInv, WrittenInv, ReadyInv, RemovedInv
  <1> QED
    BY <1>2, <1>3, <1>4, <1>5 DEF Kept

\* What both of TeardownFromBuild's removals do.
LEMMA DeleteKeeps ==
  ASSUME IInv, NEW c \in Clients, NEW f, NEW next \in Steps,
         DeleteIfEmbedded(c, f, next, next)
  PROVE  /\ TypeOK' /\ UserFilesSurvive' /\ Others(c)
         /\ UNCHANGED <<branch, mode, version, errs, moved>>
         /\ step'[c] = next
         /\ disturbed'[c] = disturbed[c]
         /\ kept[c] \subseteq kept'[c]
         /\ \A g \in Embedded(mode[c]) \ {f} : disk'[g] = disk[g]
         /\ f \in Embedded(mode[c]) => disk'[f] = "none" \/ f \in kept'[c]
  <1>1. TypeOK /\ UserFilesSurvive
    BY DEF IInv
  <1>2. UNCHANGED <<branch, mode, version, errs, moved>>
    BY DEF DeleteIfEmbedded
  <1>3. step' = [step EXCEPT ![c] = next]
    BY DEF DeleteIfEmbedded
  <1>4. step' \in [Clients -> Steps] /\ step'[c] = next
        /\ \A d \in Clients \ {c} : step'[d] = step[d]
    BY <1>1, <1>3 DEF TypeOK
  <1>5. CASE UNCHANGED <<disk, disturbed>>
    <2>1. \/ f \notin Embedded(mode[c]) /\ UNCHANGED kept
          \/ f \in Embedded(mode[c]) /\ kept' = [kept EXCEPT ![c] = @ \cup {f}]
          \/ /\ f \in Embedded(mode[c]) /\ UNCHANGED kept
             /\ disk' = [disk EXCEPT ![f] = "none"]
      BY DEF DeleteIfEmbedded
    <2>2. mode[c] \in BuildModes /\ (f \in Embedded(mode[c]) => f \in Files)
      BY <1>1, ModesAreDisjoint DEF TypeOK
    <2>3. /\ kept' \in [Clients -> SUBSET Files] /\ kept[c] \subseteq kept'[c]
          /\ \A d \in Clients \ {c} : kept'[d] = kept[d]
          /\ f \in Embedded(mode[c]) => disk'[f] = "none" \/ f \in kept'[c]
      BY <1>1, <2>1, <2>2 DEF TypeOK
    <2>4. TypeOK' /\ UserFilesSurvive' /\ Others(c)
      BY <1>1, <1>2, <1>4, <1>5, <2>3 DEF TypeOK, UserFilesSurvive, Others
    <2> QED
      BY <1>2, <1>4, <1>5, <2>3, <2>4
  <1>6. CASE /\ f \in Embedded(mode[c]) /\ disk' = [disk EXCEPT ![f] = "none"]
             /\ Disturbs(c) /\ UNCHANGED kept
    <2>1. "none" \in Contents
      BY DEF Contents
    <2>2. /\ disk' \in [Files -> Contents] /\ UserFilesSurvive' /\ disk'[f] = "none"
          /\ disturbed' \in [Clients -> BOOLEAN] /\ disturbed'[c] = disturbed[c]
          /\ \A g \in Embedded(mode[c]) \ {f} : disk'[g] = disk[g]
          /\ \A d \in Clients \ {c} :
                /\ disturbed[d] => disturbed'[d]
                /\ disturbed'[d] \/ \A g \in Embedded(mode[d]) : disk'[g] = disk[g]
      BY <1>2, <1>6, <2>1, OwnFilesOnly
    <2>3. TypeOK' /\ Others(c)
      BY <1>1, <1>2, <1>4, <1>6, <2>2 DEF TypeOK, Others
    <2> QED
      BY <1>2, <1>4, <1>6, <2>2, <2>3
  <1> QED
    BY <1>5, <1>6 DEF DeleteIfEmbedded

LEMMA RemoveDockerfileKeeps ==
  ASSUME IInv, NEW c \in Clients, RemoveDockerfile(c)
  PROVE  Kept(c)
  <1> DEFINE f == DockerfileOf(mode[c])
  <1>1. ClientInv(c) /\ step[c] = "removeDockerfile"
    BY DEF IInv, RemoveDockerfile
  <1>2. /\ TypeOK' /\ UserFilesSurvive' /\ Others(c)
        /\ UNCHANGED <<branch, mode, version, errs, moved>>
        /\ step'[c] = "removeMakefile" /\ disturbed'[c] = disturbed[c]
        /\ f \in Embedded(mode[c]) => disk'[f] = "none" \/ f \in kept'[c]
    <2>1. DeleteIfEmbedded(c, f, "removeMakefile", "removeMakefile") /\ "removeMakefile" \in Steps
      BY DEF RemoveDockerfile, AfterError, Steps
    <2> HIDE DEF f
    <2> QED
      BY <2>1, DeleteKeeps
  <1>3. ClientInv(c)'
    BY <1>1, <1>2
    DEF ClientInv, VersionInv, BranchInv, WrittenInv, ReadyInv, RemovedInv, Removed
  <1> QED
    BY <1>2, <1>3 DEF Kept

LEMMA RemoveMakefileKeeps ==
  ASSUME IInv, NEW c \in Clients, RemoveMakefile(c)
  PROVE  Kept(c)
  <1> DEFINE f == MakefileOf(mode[c])
             g == DockerfileOf(mode[c])
  <1>1. mode[c] \in BuildModes /\ ClientInv(c) /\ step[c] = "removeMakefile"
    BY DEF IInv, TypeOK, RemoveMakefile
  <1>2. /\ TypeOK' /\ UserFilesSurvive' /\ Others(c)
        /\ UNCHANGED <<branch, mode, version, errs, moved>>
        /\ step'[c] = "torndown" /\ disturbed'[c] = disturbed[c] /\ kept[c] \subseteq kept'[c]
        /\ \A h \in Embedded(mode[c]) \ {f} : disk'[h] = disk[h]
        /\ f \in Embedded(mode[c]) => disk'[f] = "none" \/ f \in kept'[c]
    <2>1. DeleteIfEmbedded(c, f, "torndown", "torndown") /\ "torndown" \in Steps
      BY DEF RemoveMakefile, Steps
    <2> HIDE DEF f
    <2> QED
      BY <2>1, DeleteKeeps
  <1>3. VersionInv(c)' /\ BranchInv(c)' /\ WrittenInv(c)' /\ ReadyInv(c)'
    BY <1>1, <1>2 DEF ClientInv, VersionInv, BranchInv, WrittenInv, ReadyInv
  <1>4. RemovedInv(c)'
    <2>1. ~disturbed[c] => Removed(c, g)
      BY <1>1 DEF ClientInv, RemovedInv
    <2>2. f # g
      BY <1>1, ModeFiles
    <2>3. ~disturbed[c] => Removed(c, g)' /\ Removed(c, f)'
      BY <1>2, <2>1, <2>2 DEF Removed
    <2> QED
      BY <1>2, <2>3 DEF RemovedInv
  <1> QED
    BY <1>2, <1>3, <1>4 DEF Kept, ClientInv

LEMMA EndsKeeps ==
  ASSUME IInv, NEW c \in Clients, Ends(c)
  PROVE  Kept(c)
  <1>1. /\ step' = [step EXCEPT ![c] = "idle"] /\ TypeOK /\ UserFilesSurvive /\ ClientInv(c)
        /\ UNCHANGED <<branch, mode, version, errs, kept, moved>>
    BY DEF Ends, IInv
  <1>2. step' \in [Clients -> Steps] /\ step'[c] = "idle"
        /\ \A d \in Clients \ {c} : step'[d] = step[d]
    BY <1>1 DEF TypeOK, Steps
  <1>3. ClientInv(c)'
    BY <1>1, <1>2 DEF ClientInv, VersionInv, BranchInv, WrittenInv, ReadyInv, RemovedInv
  <1>4. CASE UNCHANGED <<disk, disturbed>>
    <2>1. TypeOK' /\ UserFilesSurvive' /\ Others(c)
      BY <1>1, <1>2, <1>4 DEF TypeOK, UserFilesSurvive, Others
    <2> QED
      BY <1>3, <2>1 DEF Kept
  <1>5. CASE Disturbs(c) /\ \E f \in Writing(c) : disk' = [disk EXCEPT ![f] = "cut"]
    <2>1. PICK f \in Embedded(mode[c]) : disk' = [disk EXCEPT ![f] = "cut"]
      BY <1>5 DEF Writing
    <2>2. "cut" \in Contents
      BY DEF Contents
    <2>3. /\ disk' \in [Files -> Contents] /\ UserFilesSurvive'
          /\ disturbed' \in [Clients -> BOOLEAN]
          /\ \A d \in Clients \ {c} :
                /\ disturbed[d] => disturbed'[d]
                /\ disturbed'[d] \/ \A g \in Embedded(mode[d]) : disk'[g] = disk[g]
      BY <1>1, <1>5, <2>1, <2>2, OwnFilesOnly
    <2>4. TypeOK' /\ Others(c)
      BY <1>1, <1>2, <2>3 DEF TypeOK, Others
    <2> QED
      BY <1>3, <2>3, <2>4 DEF Kept
  <1> QED
    BY <1>4, <1>5 DEF Ends

---------------------------------------------------------------------------
(* The theorems.                                                            *)

LEMMA Preserved == IInv /\ [Next]_repoVars => IInv'
  <1> SUFFICES ASSUME IInv, [Next]_repoVars PROVE IInv'
    OBVIOUS
  <1>1. ASSUME NEW c \in Clients, Client(c) PROVE IInv'
    <2>1. Kept(c)
      BY <1>1, NewMCORepoKeeps, WriteDockerfileKeeps, WriteMakefileKeeps,
         TeardownFromBuildKeeps, RemoveDockerfileKeeps, RemoveMakefileKeeps, EndsKeeps
      DEF Client
    <2> QED
      BY <2>1, KeptSuffices
  <1>2. CASE Checkout
    BY <1>2, CheckoutKeeps
  <1>3. CASE UNCHANGED repoVars
    BY <1>3
    DEF IInv, TypeOK, UserFilesSurvive, ClientInv, VersionInv, BranchInv, WrittenInv, Written,
        ReadyInv, RemovedInv, Removed, repoVars
  <1> QED
    BY <1>1, <1>2, <1>3 DEF Next

\* The invariant behind the theorems below: what a client left of its mode's files is on
\* disk until its teardown, unless another client of that mode was seen to touch them.
THEOREM Invariance == Spec => []IInv
  BY Initially, Preserved, PTL DEF Spec

\* Every file of the checkout, and every client, is in a state the module names.
THEOREM TypeCorrect == Spec => []TypeOK
  <1>1. IInv => TypeOK
    BY DEF IInv
  <1> QED
    BY <1>1, Invariance, PTL

\* No mode, in no order of setups, failures, kills and teardowns of any number of clients,
\* touches the Dockerfile and the Makefile of the user.
THEOREM UserFilesAreSafe == Spec => []UserFilesSurvive
  <1>1. IInv => UserFilesSurvive
    BY DEF IInv
  <1> QED
    BY <1>1, Invariance, PTL

\* A client whose SetupForBuild succeeded builds with the Dockerfile for the version of the
\* branch and finds every file of its mode there and whole, whatever clients of other modes do and whatever killed clients left.
THEOREM BuildsAreOfTheBranch == Spec => []BuildsItsBranch
  <1>1. IInv => BuildsItsBranch
    <2> SUFFICES ASSUME IInv, NEW c \in Clients, step[c] = "ready", mode[c] # "normal",
                        ~disturbed[c], ~moved[c]
                 PROVE  /\ disk[DockerfileOf(mode[c])] = branch
                        /\ \A f \in Embedded(mode[c]) : disk[f] \notin {"none", "cut"}
      BY DEF BuildsItsBranch
    <2>1. ClientInv(c) /\ mode[c] \in BuildModes
      BY DEF IInv, TypeOK
    <2>2. Written(c, DockerfileOf(mode[c])) /\ Written(c, MakefileOf(mode[c]))
      BY <2>1 DEF ClientInv, WrittenInv, ReadyInv
    <2>3. version[c] = branch /\ version[c] \in Supported
      BY <2>1 DEF ClientInv, BranchInv, VersionInv
    <2>4. DockerfileOf(mode[c]) \in Embedded(mode[c])
          /\ Embedded(mode[c]) \subseteq {DockerfileOf(mode[c]), MakefileOf(mode[c])}
      BY <2>1, ModeFiles
    <2>5. Supported \cap {"none", "cut"} = {}
      BY RepoModesAssumption
    <2> QED
      BY <2>2, <2>3, <2>4, <2>5 DEF Written
  <1> QED
    BY <1>1, Invariance, PTL

\* TeardownFromBuild removes every file its mode overrode but those whose removal failed.
THEOREM TeardownsAreComplete == Spec => []TeardownRemovesAll
  <1>1. IInv => TeardownRemovesAll
    <2> SUFFICES ASSUME IInv, NEW c \in Clients, step[c] = "torndown", ~disturbed[c],
                        NEW f \in Embedded(mode[c])
                 PROVE  disk[f] = "none" \/ f \in kept[c]
      BY DEF TeardownRemovesAll
    <2>1. ClientInv(c) /\ mode[c] \in BuildModes
      BY DEF IInv, TypeOK
    <2>2. Removed(c, DockerfileOf(mode[c])) /\ Removed(c, MakefileOf(mode[c]))
      BY <2>1 DEF ClientInv, RemovedInv
    <2>3. f \in {DockerfileOf(mode[c]), MakefileOf(mode[c])}
      BY <2>1, ModeFiles
    <2> QED
      BY <2>2, <2>3 DEF Removed
  <1> QED
    BY <1>1, Invariance, PTL
===========================================================================
