-------------------------- MODULE ReleaseBuilder --------------------------
(***************************************************************************)
(* cmd/dualstream-release-builder: a run copies the manifests of a release  *)
(* payload out of a podman container, adds two tags, rewrites the version   *)
(* and builds and pushes a payload of its own.  All runs of one machine     *)
(* share podman: its image store, and the one container name the program    *)
(* uses.  Any command may fail, and a run may be killed at any step.        *)
(***************************************************************************)
EXTENDS Naturals, Sequences, FiniteSetsExt

CONSTANTS
    Runs,           \* runs of the program, each at most once
    Requests,       \* what a run may be asked: [base |-> pullspec, final |-> pullspec]
    Original        \* what the registry holds at first: [pullspec -> release]

Pullspecs == DOMAIN Original

\* A tag of an image stream, and its streamclass annotation: "nil" stands for no
\* annotations at all, "unset" for annotations without it, "" for an image without the label.
CoreOS == {"os", "ext", "os10", "ext10"}
Extensions == {"ext", "ext10"}
Streams == {"nil", "unset", "", "rhel-9", "rhel-10"}

\* The files of a release: its tags, and how many -dualstream the version has in
\* image-references and in release-metadata.  An image has them and the CVO it is built
\* FROM.  Both are known by the original release they come from.
NoFiles == [origin |-> "none", tags |-> <<>>, refs |-> 0, meta |-> 0]
NoRelease == [files |-> NoFiles, cvo |-> "none"]

Tags == [name : CoreOS \cup {"cvo", "other"}, stream : Streams]
FileSets == [origin : Pullspecs \cup {"none"}, tags : Seq(Tags), refs : Nat, meta : Nat]
Releases == [files : FileSets, cvo : Pullspecs \cup {"none"}]

\* The releases at first are originals, and an image stream has one tag of a name.
ASSUME BuilderAssumption ==
    /\ Requests \subseteq [base : Pullspecs, final : Pullspecs]
    /\ Original \in [Pullspecs -> Releases]
    /\ \A p \in Pullspecs : Original[p] # NoRelease =>
        LET f == Original[p].files IN
        /\ Original[p].cvo = p /\ f.origin = p /\ f.refs = 0 /\ f.meta = 0
        /\ \A i, j \in 1..Len(f.tags) :
            f.tags[i].name = f.tags[j].name /\ f.tags[i].name # "other" => i = j

VARIABLES
    registry,       \* the release each pullspec names
    store,          \* the image each pullspec names on this machine
    containers,     \* the container named release-payload-extractor, if there is one
    pc, request,    \* the step each run is at, and what it was asked
    cvo, files,     \* the CVO image a run read of its base, and its working copy of the files
    stream,         \* the streamclass label a run read of the RHEL 10 image
    dirs,           \* runs whose temporary directory exists
    disturbed,      \* history: runs a command of which failed by itself, that shared the
                    \* machine with another run, or that found a container at the start
    want, made      \* history: the release a run was asked to extend, and what it pushed

machine == <<registry, store, containers>>
local == <<request, cvo, files, stream, dirs>>
history == <<disturbed, want, made>>
vars == <<machine, pc, local, history>>

Ended == {"ok", "failed", "killed"}
DirSteps == {"pull", "create", "copy", "rm", "labels", "tags", "refs", "meta", "build", "push",
             "removeOk", "removeFailed"}
Steps == {"info", "mkdir"} \cup DirSteps
Alive == {r \in Runs : pc[r] \in Steps}

Init ==
    /\ registry = Original
    /\ store = [p \in Pullspecs |-> NoRelease]
    /\ containers = {}
    /\ pc = [r \in Runs |-> "idle"]
    /\ request \in [Runs -> Requests]
    /\ cvo = [r \in Runs |-> "none"] /\ files = [r \in Runs |-> NoFiles]
    /\ stream = [r \in Runs |-> "unset"] /\ dirs = {}
    /\ disturbed = {}
    /\ want = [r \in Runs |-> NoRelease] /\ made = [r \in Runs |-> NoRelease]

---------------------------------------------------------------------------
Goes(r, step) == pc' = [pc EXCEPT ![r] = step]

\* An error returns through the deferred removal of the directory, if there is one.
Fails(r) == Goes(r, IF pc[r] \in DirSteps THEN "removeFailed" ELSE "failed")

Start(r) ==
    /\ pc[r] = "idle"
    /\ Goes(r, "info")
    /\ disturbed' = disturbed \cup (IF Alive = {} THEN {} ELSE Alive \cup {r})
                              \cup (IF containers = {} THEN {} ELSE {r})
    /\ want' = [want EXCEPT ![r] = registry[request[r].base]]
    /\ UNCHANGED <<machine, local, made>>

Names(tags) == {tags[i].name : i \in 1..Len(tags)}

GetReleaseInfo(r) ==
    LET rel == registry[request[r].base] IN
    /\ pc[r] = "info"
    /\ IF "cvo" \in Names(rel.files.tags)
       THEN cvo' = [cvo EXCEPT ![r] = rel.files.origin] /\ Goes(r, "mkdir")
       ELSE Fails(r) /\ UNCHANGED cvo
    /\ UNCHANGED <<machine, request, files, stream, dirs, history>>

MkdirTemp(r) ==
    /\ pc[r] = "mkdir"
    /\ dirs' = dirs \cup {r}
    /\ Goes(r, "pull")
    /\ UNCHANGED <<machine, request, cvo, files, stream, history>>

---------------------------------------------------------------------------
(* CopyFilesFromImage                                                       *)
Pulled(r) == store' = [store EXCEPT ![request[r].base] = registry[request[r].base]]
PullImage(r) ==
    /\ pc[r] = "pull"
    /\ Pulled(r) /\ Goes(r, "create")
    /\ UNCHANGED <<registry, containers, local, history>>

\* podman refuses a name that is in use.
NameInUse == containers # {}
NewContainer(r) == [by |-> r, image |-> store[request[r].base]]
CreateInPlace(r) ==
    /\ pc[r] = "create"
    /\ containers' = {NewContainer(r)} /\ Goes(r, "copy")
    /\ UNCHANGED <<registry, store, local, history>>
NameInUseIgnored(r) ==
    /\ pc[r] = "create"
    /\ containers' = (IF NameInUse THEN containers ELSE {NewContainer(r)}) /\ Goes(r, "copy")
    /\ UNCHANGED <<registry, store, local, history>>
CreateContainer(r) ==
    /\ pc[r] = "create"
    /\ IF NameInUse
       THEN Fails(r) /\ UNCHANGED containers
       ELSE containers' = {NewContainer(r)} /\ Goes(r, "copy")
    /\ UNCHANGED <<registry, store, local, history>>

CopyFiles(r) ==
    /\ pc[r] = "copy"
    /\ \/ \E c \in containers :
            files' = [files EXCEPT ![r] = c.image.files] /\ Goes(r, "rm")
       \/ containers = {} /\ Fails(r) /\ UNCHANGED files
    /\ UNCHANGED <<machine, request, cvo, stream, dirs, history>>

DeleteContainer(r) ==
    /\ pc[r] = "rm"
    /\ IF containers # {} THEN Goes(r, "labels") ELSE Fails(r)
    /\ containers' = {}
    /\ UNCHANGED <<registry, store, local, history>>

---------------------------------------------------------------------------
(* The files of the release                                                 *)
\* getTagRefForRHEL10Image and getTagRefForRHEL10ExtImage: a label that is missing is
\* written as an empty annotation.
GetTagRefs(r) ==
    /\ pc[r] = "labels"
    /\ \E s \in {"", "rhel-10"} : stream' = [stream EXCEPT ![r] = s]
    /\ Goes(r, "tags")
    /\ UNCHANGED <<machine, request, cvo, files, dirs, history>>

NewTags(r) == <<[name |-> "os10", stream |-> stream[r]], [name |-> "ext10", stream |-> "unset"]>>

\* The last tag of each kind; the first tag of all where there is none.
LastOf(tags, names) == Max({1} \cup {i \in 1..Len(tags) : tags[i].name \in names})
OsIndex(tags) == LastOf(tags, CoreOS \ Extensions)
ExtIndex(tags) == LastOf(tags, Extensions)

InsertOffByOne(tags, new) ==
    LET at == Max({OsIndex(tags), ExtIndex(tags)}) - 1
    IN  SubSeq(tags, 1, at) \o new \o SubSeq(tags, at + 1, Len(tags))
Insert(tags, new) ==
    LET at == Max({OsIndex(tags), ExtIndex(tags)})
    IN  SubSeq(tags, 1, at) \o new \o SubSeq(tags, at + 1, Len(tags))

\* Writing to the annotations of a tag that has none is a panic; the directory is
\* removed on the way out.
AddTagRefs(r) ==
    LET tags == files[r].tags
        os == OsIndex(tags)
        marked == [tags EXCEPT ![os].stream = IF @ = "unset" THEN "rhel-9" ELSE @]
    IN
    /\ pc[r] = "tags"
    /\ IF tags = <<>> \/ tags[os].stream = "nil"
       THEN Fails(r) /\ UNCHANGED files
       ELSE files' = [files EXCEPT ![r].tags = Insert(marked, NewTags(r))] /\ Goes(r, "refs")
    /\ UNCHANGED <<machine, request, cvo, stream, dirs, history>>

\* setReleaseVersion walks the files in lexical order.  Every file that has the version
\* of release-metadata in it gets a suffix: a version that is longer by suffixes has.
LongerVersionsOnly(r) ==
    /\ pc[r] = "refs"
    /\ files' = [files EXCEPT ![r].refs = IF @ > files[r].meta THEN @ + 1 ELSE @]
    /\ Goes(r, "meta")
    /\ UNCHANGED <<machine, request, cvo, stream, dirs, history>>
ReplaceInRefs(r) ==
    /\ pc[r] = "refs"
    /\ files' = [files EXCEPT ![r].refs = IF @ >= files[r].meta THEN @ + 1 ELSE @]
    /\ Goes(r, "meta")
    /\ UNCHANGED <<machine, request, cvo, stream, dirs, history>>

ReplaceInMeta(r) ==
    /\ pc[r] = "meta"
    /\ files' = [files EXCEPT ![r].meta = @ + 1]
    /\ Goes(r, "build")
    /\ UNCHANGED <<machine, request, cvo, stream, dirs, history>>

---------------------------------------------------------------------------
Built(r) == store' = [store EXCEPT ![request[r].final] = [files |-> files[r], cvo |-> cvo[r]]]
Build(r) ==
    /\ pc[r] = "build"
    /\ Built(r) /\ Goes(r, "push")
    /\ UNCHANGED <<registry, containers, local, history>>

\* podman pushes the image the pullspec names by now.
Pushed(r) ==
    /\ registry' = [registry EXCEPT ![request[r].final] = store[request[r].final]]
    /\ made' = [made EXCEPT ![r] = store[request[r].final]]
Push(r) ==
    /\ pc[r] = "push"
    /\ Pushed(r) /\ Goes(r, "removeOk")
    /\ UNCHANGED <<store, containers, local, disturbed, want>>

\* That the directory cannot be removed is only a warning.
RemoveDir(r) ==
    /\ pc[r] \in {"removeOk", "removeFailed"}
    /\ \/ dirs' = dirs \ {r} /\ UNCHANGED disturbed
       \/ disturbed' = disturbed \cup {r} /\ UNCHANGED dirs
    /\ Goes(r, IF pc[r] = "removeOk" THEN "ok" ELSE "failed")
    /\ UNCHANGED <<machine, request, cvo, files, stream, want, made>>

Step(r) ==
    \/ GetReleaseInfo(r) \/ MkdirTemp(r) \/ PullImage(r) \/ CreateContainer(r) \/ CopyFiles(r)
    \/ DeleteContainer(r) \/ GetTagRefs(r) \/ AddTagRefs(r) \/ ReplaceInRefs(r)
    \/ ReplaceInMeta(r) \/ Build(r) \/ Push(r) \/ RemoveDir(r)

---------------------------------------------------------------------------
\* What a command does to the machine, or nothing: it fails, or the run is killed, before
\* its effect or after it.
Cut(r) ==
    /\ disturbed' = disturbed \cup {r}
    /\ UNCHANGED <<local, want>>
    /\ \/ UNCHANGED <<machine, made>>
       \/ pc[r] = "pull" /\ Pulled(r) /\ UNCHANGED <<registry, containers, made>>
       \/ /\ pc[r] = "create" /\ ~NameInUse /\ containers' = {NewContainer(r)}
          /\ UNCHANGED <<registry, store, made>>
       \/ pc[r] = "rm" /\ containers' = {} /\ UNCHANGED <<registry, store, made>>
       \/ pc[r] = "build" /\ Built(r) /\ UNCHANGED <<registry, containers, made>>
       \/ pc[r] = "push" /\ Pushed(r) /\ UNCHANGED <<store, containers>>

CommandFails(r) == pc[r] \in Steps \ {"removeOk", "removeFailed"} /\ Fails(r) /\ Cut(r)
Killed(r) == pc[r] \in Steps /\ Goes(r, "killed") /\ Cut(r)

Next == \E r \in Runs : Start(r) \/ Step(r) \/ CommandFails(r) \/ Killed(r)

Spec == Init /\ [][Next]_vars
---------------------------------------------------------------------------
TypeOK ==
    /\ registry \in [Pullspecs -> Releases] /\ store \in [Pullspecs -> Releases]
    /\ containers \subseteq [by : Runs, image : Releases]
    /\ pc \in [Runs -> {"idle"} \cup Steps \cup Ended]
    /\ request \in [Runs -> Requests]
    /\ cvo \in [Runs -> Pullspecs \cup {"none"}] /\ files \in [Runs -> FileSets]
    /\ stream \in [Runs -> Streams]
    /\ dirs \subseteq Runs /\ disturbed \subseteq Runs
    /\ want \in [Runs -> Releases] /\ made \in [Runs -> Releases]

\* The tags of old with the two new ones together right after the last CoreOS tag, in
\* order, with no streamclass changed and the only OS tag, if it is one, given one.
Extends(new, old) ==
    \E k \in 1..Len(old) :
        LET rest == SubSeq(new, 1, k) \o SubSeq(new, k + 3, Len(new)) IN
        /\ Len(new) = Len(old) + 2
        /\ new[k + 1].name = "os10" /\ new[k + 2].name = "ext10"
        /\ \A i \in 1..Len(old) :
            /\ rest[i].name = old[i].name
            /\ rest[i].stream = old[i].stream \/ old[i].stream = "unset"
            /\ (old[i].name = "os" /\ "os10" \notin Names(old)) => rest[i].stream # "unset"
            /\ i > k => old[i].name \notin CoreOS
        /\ old[k].name \in CoreOS \/ (k = 1 /\ Names(old) \cap CoreOS = {})

IsDualstreamOf(new, old) ==
    /\ new.cvo = old.files.origin /\ new.files.origin = old.files.origin
    /\ Extends(new.files.tags, old.files.tags)
    /\ new.files.refs = old.files.refs + 1 /\ new.files.meta = old.files.meta + 1

Buildable(rel) ==
    LET tags == rel.files.tags IN
    "cvo" \in Names(tags) /\ tags[OsIndex(tags)].stream # "nil"

\* A run that nothing disturbed publishes the dualstream release of its base, or fails
\* because there can be none, and leaves no directory and no container behind.
UndisturbedRunPublishes ==
    \A r \in Runs : (pc[r] \in Ended /\ r \notin disturbed) =>
        /\ r \notin dirs /\ \A c \in containers : c.by # r
        /\ IF Buildable(want[r])
           THEN pc[r] = "ok" /\ IsDualstreamOf(made[r], want[r])
           ELSE pc[r] = "failed" /\ made[r] = NoRelease

\* A run that reports success has published its own work however many runs shared the
\* machine with it, as long as none of them wrote its base or its final pullspec, or had
\* its final pullspec as a base (a pull moves that name in the image store).
SuccessIsOwnWork ==
    \A r \in Runs :
        /\ pc[r] = "ok"
        /\ \A q \in Runs \ {r} : pc[q] # "idle" =>
            /\ request[q].final \notin {request[r].base, request[r].final}
            /\ request[q].base # request[r].final
        => IsDualstreamOf(made[r], want[r])

Count(tags, name) == Cardinality({i \in 1..Len(tags) : tags[i].name = name})

\* No failure, kill or overlap ever leaves an image whose files are half rewritten:
\* every image has the same version in both files, and as many pairs of new tags as
\* its version has suffixes, next to all the tags of its original.
EveryImageIsWhole ==
    \A rel \in {registry[p] : p \in Pullspecs} \cup {store[p] : p \in Pullspecs}
              \cup {c.image : c \in containers} :
        rel # NoRelease =>
            LET f == rel.files
                new(name) == IF name \in {"os10", "ext10"} THEN f.meta ELSE 0
            IN  /\ f.refs = f.meta
                /\ \A name \in CoreOS \cup {"cvo", "other"} :
                    Count(f.tags, name) =
                        Count(Original[f.origin].files.tags, name) + new(name)

\* A run copies its files from the container it created, never from one that another
\* run created or left behind.
ContainerIsOwn ==
    \A r \in Runs : pc[r] \in {"copy", "rm"} =>
        containers # {} /\ \A c \in containers : c.by = r
===========================================================================
