---------------------------- MODULE SecretStore ----------------------------
(***************************************************************************)
(* Secrets the helpers create over what is there already:                   *)
(* internal/pkg/utils/clone.go (CloneSecret, CreateOrRecreateSecret) and    *)
(* internal/pkg/utils/longlivedsecrets.go (CreateLongLivedPullSecret).  All *)
(* callers want a secret of the same name.  Between two requests of a       *)
(* caller the others, or a user, may change what it saw.                    *)
(***************************************************************************)
EXTENDS Naturals

CONSTANTS
    Cloners,        \* calls of CloneSecret and CreateOrRecreateSecret
    Replacers,      \* calls of CreateLongLivedPullSecret with DeleteIfExists
    Creators,       \* calls of CreateLongLivedPullSecret without it
    User,           \* whoever else works on the namespace
    MaxEdits        \* how often the user changes the secret

LongLived == Replacers \cup Creators
Callers == Cloners \cup LongLived

ASSUME SecretAssumption ==
    /\ Cloners \cap Replacers = {} /\ Creators \cap (Cloners \cup Replacers) = {}
    /\ User \notin Callers /\ MaxEdits \in Nat

VARIABLES
    exists,         \* is there a secret of that name?
    labelled,       \* does it have the recreatable label?
    author,         \* who created it
    version,        \* its resourceVersion: grows with every change
    edits,          \* changes by the user so far
    pc,             \* the step each call is at
    seen,           \* the version a call looked at
    tmp,            \* calls whose temporary directory, with the token in it, is there
    faulty,         \* history: calls that a request failed for no reason of the state
    abandoned       \* history: calls that were killed, or could not remove their directory

store == <<exists, labelled, author, version>>
faults == <<faulty, abandoned>>
vars == <<store, edits, pc, seen, tmp, faults>>

TypeOK ==
    /\ exists \in BOOLEAN /\ labelled \in BOOLEAN
    /\ author \in Callers \cup {User}
    /\ version \in Nat /\ edits \in 0..MaxEdits
    /\ pc \in [Callers -> {"prepare", "token", "tmpdir", "login", "create", "get", "delete",
                            "ok", "failed"}]
    /\ seen \in [Callers -> 0..version]
    /\ tmp \subseteq LongLived
    /\ faulty \subseteq Callers /\ abandoned \subseteq Callers

Ended(c) == pc[c] \in {"ok", "failed"}

\* There may be a secret already, from the user or from an earlier call.
Init ==
    /\ exists \in BOOLEAN /\ labelled \in BOOLEAN
    /\ author = User
    /\ version = 0 /\ edits = 0
    /\ pc = [c \in Callers |-> IF c \in Cloners THEN "prepare" ELSE "token"]
    /\ seen = [c \in Callers |-> 0]
    /\ tmp = {} /\ faulty = {} /\ abandoned = {}

---------------------------------------------------------------------------
(* The API server and its user (external).                                  *)
Put(who, label) ==
    /\ exists' = TRUE /\ labelled' = label /\ author' = who
    /\ version' = version + 1

Gone ==
    /\ exists' = FALSE
    /\ version' = version + 1
    /\ UNCHANGED <<labelled, author>>

UserEdits ==
    /\ edits < MaxEdits /\ edits' = edits + 1
    /\ \/ \E label \in BOOLEAN : Put(User, label)
       \/ exists /\ Gone
    /\ UNCHANGED <<pc, seen, tmp, faults>>

---------------------------------------------------------------------------
(* The calls.                                                               *)
Goes(c, step) == pc' = [pc EXCEPT ![c] = step]

\* The secret to clone is read.
Prepare(c) ==
    /\ pc[c] = "prepare"
    /\ Goes(c, "create")
    /\ UNCHANGED <<store, edits, seen, tmp, faults>>

\* The pull secret of a service account: a token for it, which the API server confirms.
CreateToken(c) ==
    /\ pc[c] = "token"
    /\ Goes(c, "tmpdir")
    /\ UNCHANGED <<store, edits, seen, tmp, faults>>

\* A temporary directory, with a kubeconfig that has the token.
MakeTempDir(c) ==
    /\ pc[c] = "tmpdir"
    /\ Goes(c, "login")
    /\ tmp' = tmp \cup {c}
    /\ UNCHANGED <<store, edits, seen, faults>>

\* The deferred removal of the directory, whose own error is ignored.
LeavesTempDir(c) == UNCHANGED <<tmp, abandoned>>
RemovesTempDir(c) ==
    \/ tmp' = tmp \ {c} /\ UNCHANGED abandoned
    \/ abandoned' = abandoned \cup {c} /\ UNCHANGED tmp

\* oc login, oc whoami and oc registry login, with that kubeconfig; then it is removed.
Login(c) ==
    /\ pc[c] = "login"
    /\ Goes(c, "create")
    /\ RemovesTempDir(c)
    /\ UNCHANGED <<store, edits, seen, faulty>>

\* What a call does when the secret is there already.
AfterConflict(c) ==
    IF c \in Cloners THEN "get" ELSE IF c \in Replacers THEN "delete" ELSE "failed"

\* A secret of clone.go gets the label; the labels of a long lived one are its caller's.
Labels(c) == IF c \in Cloners THEN {TRUE} ELSE BOOLEAN
PutsOwn(c) == \E label \in Labels(c) : Put(c, label)

Create(c) ==
    /\ pc[c] = "create"
    /\ IF exists
       THEN Goes(c, AfterConflict(c)) /\ UNCHANGED store
       ELSE Goes(c, "ok") /\ PutsOwn(c)
    /\ UNCHANGED <<edits, seen, tmp, faults>>

DeletesAnything == exists
MayDelete == exists /\ labelled

\* createSecret looks for the label, and refuses a secret without it.
Look(c) ==
    /\ pc[c] = "get"
    /\ Goes(c, IF MayDelete THEN "delete" ELSE "failed")
    /\ seen' = [seen EXCEPT ![c] = version]
    /\ UNCHANGED <<store, edits, tmp, faults>>

ReturnsAfterDelete == "ok"
AfterDelete == "create"

\* Deleted by name, whatever has that name by now; a secret that is gone is an error.
DeleteForgotten(c) ==
    /\ pc[c] = "delete"
    /\ Goes(c, AfterDelete)
    /\ UNCHANGED <<store, edits, seen, tmp, faults>>
Delete(c) ==
    /\ pc[c] = "delete"
    /\ IF exists THEN Goes(c, AfterDelete) /\ Gone
                 ELSE Goes(c, "failed") /\ UNCHANGED store
    /\ UNCHANGED <<edits, seen, tmp, faults>>

\* A request or a command fails for another reason: before it had its effect, or after.
Stops(c) ==
    /\ ~Ended(c)
    /\ Goes(c, "failed")
    /\ faulty' = faulty \cup {c}
    /\ \/ UNCHANGED store
       \/ pc[c] = "create" /\ ~exists /\ PutsOwn(c)
       \/ pc[c] = "delete" /\ exists /\ Gone
    /\ UNCHANGED <<edits, seen>>

LeftAtError(c) == LeavesTempDir(c)
AtError(c) == IF pc[c] = "login" THEN RemovesTempDir(c) ELSE LeavesTempDir(c)
Fails(c) == Stops(c) /\ AtError(c)

\* The process is killed, and what is deferred does not run: another failure, unless there
\* is a directory to remove.
Killed(c) == pc[c] = "login" /\ Stops(c) /\ abandoned' = abandoned \cup {c} /\ UNCHANGED tmp

Call(c) ==
    \/ Prepare(c) \/ CreateToken(c) \/ MakeTempDir(c) \/ Login(c)
    \/ Create(c) \/ Look(c) \/ Delete(c) \/ Fails(c)

AllEnded == (\A c \in Callers : Ended(c)) /\ UNCHANGED vars

Next == UserEdits \/ AllEnded \/ \E c \in Callers : Call(c) \/ Killed(c)

Spec == Init /\ [][Next]_vars

\* Every request is answered and every command ends, sooner or later.
FairSpec == Spec /\ \A c \in Callers : WF_vars(Call(c))

---------------------------------------------------------------------------
\* A secret without the label, which belongs to somebody else, is deleted by a clone only
\* if it changed after the clone had looked at it: there is no precondition on the delete.
UnmanagedSecretSurvives ==
    [][\A c \in Cloners :
          (pc[c] = "delete" /\ pc'[c] # "delete" /\ exists /\ ~exists') =>
              labelled \/ version # seen[c]]_vars

\* Calls that race for one secret do not destroy it: when all have ended, none of them hit
\* by an error and the user having done nothing, the secret is there, and it is that of a
\* call that succeeded, or the one that was there if none did.
RaceLeavesWinner ==
    ((\A c \in Callers : Ended(c)) /\ faulty = {} /\ edits = 0 /\ Callers # {}) =>
        /\ exists
        /\ \/ author \in Callers /\ pc[author] = "ok"
           \/ author = User /\ \A c \in Callers : pc[c] = "failed"

\* The directory with the token of a service account outlives the call, however it ends,
\* only if the process was killed or the directory could not be removed.
TokenIsNotLeftBehind == \A c \in tmp : Ended(c) => c \in abandoned

\* The create, look, delete, create loop has no bound of its own, and yet ends: a call goes
\* round again only when somebody else created the secret in between.
CallsEnd == \A c \in Callers : <>Ended(c)
===========================================================================
