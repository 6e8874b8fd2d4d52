------------------------- MODULE SecretStoreProofs -------------------------
(***************************************************************************)
(* Theorems about SecretStore, for any callers and any number of edits by   *)
(* the user.                                                                *)
(***************************************************************************)
EXTENDS SecretStore, TLAPS

\* Only the calls that create a long-lived secret handle a token.
KindInv == \A c \in Cloners : pc[c] \notin {"token", "tmpdir", "login"}

\* Only clones look for the label.
GetInv == \A c \in Callers : pc[c] = "get" => c \in Cloners

\* A clone deletes the secret it looked at only if that had the label.
LookInv ==
    \A c \in Cloners : (pc[c] = "delete" /\ version = seen[c]) => exists /\ labelled

\* A directory is that of a call that is about to remove it, or nobody will.
TokenInv == \A c \in tmp : pc[c] = "login" \/ c \in abandoned

\* The steps that lead to a create.
Creating == {"prepare", "token", "tmpdir", "login", "create"}

\* Without errors and edits: while there is no secret, somebody is still to create it; and
\* the last one to succeed is the author.
Quiet == faulty = {} /\ edits = 0
GoneInv == (Quiet /\ ~exists /\ Callers # {}) => \E c \in Callers : pc[c] \in Creating
AuthorInv ==
    Quiet => IF author = User THEN \A c \in Callers : pc[c] # "ok" ELSE pc[author] = "ok"

IInv == TypeOK /\ KindInv /\ GetInv /\ LookInv /\ TokenInv /\ GoneInv /\ AuthorInv

---------------------------------------------------------------------------
LEMMA Initially == Init => IInv
  <1> SUFFICES ASSUME Init PROVE IInv
    OBVIOUS
  <1>1. TypeOK
    BY SecretAssumption DEF Init, TypeOK
  <1>2. KindInv /\ GetInv /\ LookInv /\ TokenInv
    BY DEF Init, KindInv, GetInv, LookInv, TokenInv, Callers
  <1>3. GoneInv /\ AuthorInv
    BY DEF Init, GoneInv, AuthorInv, Creating
  <1> QED
    BY <1>1, <1>2, <1>3 DEF IInv

Steps == {"prepare", "token", "tmpdir", "login", "create", "get", "delete", "ok", "failed"}

\* A step of one call is none of the others.
LEMMA GoesOn ==
  ASSUME TypeOK, NEW c \in Callers, NEW step \in Steps, Goes(c, step)
  PROVE  /\ pc' \in [Callers -> Steps] /\ pc'[c] = step
         /\ \A d \in Callers \ {c} : pc'[d] = pc[d]
  BY DEF TypeOK, Goes, Steps

\* Whoever changes the secret, a clone that looked before can tell by the version.
LEMMA ChangeIsSeen ==
  ASSUME TypeOK, version' = version + 1, UNCHANGED seen
  PROVE  /\ version' \in Nat /\ seen' \in [Callers -> 0..version']
         /\ \A c \in Callers : version' # seen'[c]
  <1>1. version \in Nat /\ seen \in [Callers -> 0..version]
    BY DEF TypeOK
  <1>2. ASSUME NEW c \in Callers PROVE seen[c] \in 0..(version + 1) /\ seen[c] # version + 1
    BY <1>1
  <1> QED
    BY <1>1, <1>2

LEMMA UserEditsKeeps ==
  ASSUME IInv, UserEdits
  PROVE  IInv'
  <1>1. /\ TypeOK /\ UNCHANGED <<pc, seen, tmp, faulty, abandoned>>
        /\ edits' \in 1..MaxEdits
    BY SecretAssumption DEF IInv, TypeOK, UserEdits, faults
  <1>2. /\ exists' \in BOOLEAN /\ labelled' \in BOOLEAN /\ author' \in Callers \cup {User}
        /\ version' = version + 1
    BY DEF IInv, TypeOK, UserEdits, Put, Gone
  <1>3. TypeOK'
    BY <1>1, <1>2, ChangeIsSeen DEF TypeOK
  <1>4. LookInv'
    BY <1>1, <1>2, ChangeIsSeen DEF LookInv, Callers
  <1>5. KindInv' /\ GetInv' /\ TokenInv' /\ GoneInv' /\ AuthorInv'
    BY <1>1 DEF IInv, KindInv, GetInv, TokenInv, GoneInv, AuthorInv, Quiet
  <1> QED
    BY <1>3, <1>4, <1>5 DEF IInv

\* The steps before the create touch nothing but the directory.
LEMMA BeforeCreateKeeps ==
  ASSUME IInv, NEW c \in Callers, Prepare(c) \/ CreateToken(c) \/ MakeTempDir(c) \/ Login(c)
  PROVE  IInv'
  <1>1. /\ TypeOK /\ KindInv /\ pc[c] \in Creating
        /\ UNCHANGED <<exists, labelled, author, version, edits, seen, faulty>>
    BY DEF IInv, Prepare, CreateToken, MakeTempDir, Login, store, faults, Creating
  <1>2. PICK step \in Creating :
           /\ Goes(c, step) /\ (c \in Cloners => step = "create")
           /\ tmp' \subseteq LongLived /\ abandoned' \subseteq Callers
           /\ \A d \in tmp' : IF d = c THEN step = "login" \/ d \in abandoned'
                                       ELSE d \in tmp
           /\ abandoned \subseteq abandoned'
    <2>1. CASE Prepare(c) \/ CreateToken(c)
      <3>1. c \notin tmp \/ c \in abandoned
        BY <2>1 DEF IInv, TokenInv, Prepare, CreateToken
      <3> QED
        BY <1>1, <2>1, <3>1 DEF TypeOK, KindInv, Prepare, CreateToken, Creating, faults
    <2>2. CASE MakeTempDir(c)
      <3>1. c \in LongLived
        BY <1>1, <2>2 DEF KindInv, MakeTempDir, Callers
      <3> QED
        BY <1>1, <2>2, <3>1 DEF TypeOK, KindInv, MakeTempDir, Creating, faults, Callers
    <2>3. CASE Login(c)
      BY <1>1, <2>3 DEF TypeOK, KindInv, Login, RemovesTempDir, Creating
    <2> QED
      BY <2>1, <2>2, <2>3
  <1>3. /\ pc' \in [Callers -> Steps] /\ pc'[c] = step
        /\ \A d \in Callers \ {c} : pc'[d] = pc[d]
    BY <1>1, <1>2, GoesOn DEF Steps, Creating
  <1>4. TypeOK'
    BY <1>1, <1>2, <1>3 DEF TypeOK, Steps
  <1>5. KindInv' /\ GetInv' /\ LookInv'
    BY <1>1, <1>2, <1>3 DEF IInv, KindInv, GetInv, LookInv, Creating, Callers
  <1>6. TokenInv'
    BY <1>1, <1>2, <1>3 DEF IInv, TypeOK, TokenInv, Callers
  <1>7. GoneInv' /\ AuthorInv'
    BY <1>1, <1>2, <1>3 DEF IInv, TypeOK, GoneInv, AuthorInv, Quiet, Creating
  <1> QED
    BY <1>4, <1>5, <1>6, <1>7 DEF IInv

\* A create leaves a secret of the call's own, or none of its doing.
LEMMA CreateKeeps ==
  ASSUME IInv, NEW c \in Callers, Create(c)
  PROVE  IInv'
  <1>1. /\ TypeOK /\ pc[c] = "create" /\ c # User
        /\ UNCHANGED <<edits, seen, tmp, faulty, abandoned>>
    BY SecretAssumption DEF IInv, Create, faults
  <1>2. CASE exists
    <2>1. Goes(c, AfterConflict(c)) /\ UNCHANGED <<exists, labelled, author, version>>
      BY <1>2 DEF Create, store
    <2>2. AfterConflict(c) \in Steps \ {"ok", "login", "token", "tmpdir"}
          /\ IF c \in Cloners THEN AfterConflict(c) # "delete" ELSE AfterConflict(c) # "get"
      BY DEF AfterConflict, Steps
    <2>3. /\ pc' \in [Callers -> Steps] /\ pc'[c] = AfterConflict(c)
          /\ \A d \in Callers \ {c} : pc'[d] = pc[d]
      BY <1>1, <2>1, <2>2, GoesOn
    <2>4. TypeOK'
      BY <1>1, <2>1, <2>3 DEF TypeOK, Steps
    <2>5. KindInv' /\ GetInv' /\ LookInv'
      BY <1>1, <2>1, <2>2, <2>3 DEF IInv, KindInv, GetInv, LookInv, Callers
    <2>6. TokenInv'
      BY <1>1, <2>3 DEF IInv, TypeOK, TokenInv, Callers
    <2>7. GoneInv' /\ AuthorInv'
      BY <1>1, <1>2, <2>1, <2>2, <2>3 DEF IInv, TypeOK, GoneInv, AuthorInv, Quiet
    <2> QED
      BY <2>4, <2>5, <2>6, <2>7 DEF IInv
  <1>3. CASE ~exists
    <2>1. /\ Goes(c, "ok") /\ exists' = TRUE /\ labelled' \in BOOLEAN /\ author' = c
          /\ version' = version + 1
      BY <1>3 DEF Create, PutsOwn, Labels, Put
    <2>2. /\ pc' \in [Callers -> Steps] /\ pc'[c] = "ok"
          /\ \A d \in Callers \ {c} : pc'[d] = pc[d]
      BY <1>1, <2>1, GoesOn DEF Steps
    <2>3. TypeOK'
      BY <1>1, <2>1, <2>2, ChangeIsSeen DEF TypeOK, Steps
    <2>4. KindInv' /\ GetInv' /\ LookInv'
      BY <1>1, <2>1, <2>2, ChangeIsSeen DEF IInv, KindInv, GetInv, LookInv, Callers
    <2>5. TokenInv'
      BY <1>1, <2>2 DEF IInv, TypeOK, TokenInv, Callers
    <2>6. GoneInv' /\ AuthorInv'
      BY <1>1, <2>1, <2>2 DEF GoneInv, AuthorInv
    <2> QED
      BY <2>3, <2>4, <2>5, <2>6 DEF IInv
  <1> QED
    BY <1>2, <1>3

\* A look leads to a delete only of what has the label.
LEMMA LookKeeps ==
  ASSUME IInv, NEW c \in Cloners, Look(c)
  PROVE  IInv'
  <1> DEFINE step == IF MayDelete THEN "delete" ELSE "failed"
  <1>1. /\ TypeOK /\ c \in Callers /\ pc[c] = "get" /\ Goes(c, step)
        /\ UNCHANGED <<exists, labelled, author, version, edits, tmp, faulty, abandoned>>
        /\ seen' = [seen EXCEPT ![c] = version]
    BY DEF IInv, Look, store, faults, Callers
  <1>2. /\ pc' \in [Callers -> Steps] /\ pc'[c] = step
        /\ \A d \in Callers \ {c} : pc'[d] = pc[d]
    <2>1. step \in Steps
      BY DEF Steps
    <2> HIDE DEF step
    <2> QED
      BY <1>1, <2>1, GoesOn
  <1>3. seen' \in [Callers -> 0..version] /\ \A d \in Callers \ {c} : seen'[d] = seen[d]
    BY <1>1 DEF TypeOK
  <1>4. TypeOK'
    BY <1>1, <1>2, <1>3 DEF TypeOK, Steps
  <1>5. KindInv' /\ GetInv'
    BY <1>1, <1>2 DEF IInv, KindInv, GetInv, Callers
  <1>6. LookInv'
    BY <1>1, <1>2, <1>3 DEF IInv, LookInv, MayDelete, Callers
  <1>7. TokenInv'
    BY <1>1, <1>2 DEF IInv, TypeOK, TokenInv, Callers
  <1>8. GoneInv' /\ AuthorInv'
    BY <1>1, <1>2 DEF IInv, TypeOK, GoneInv, AuthorInv, Quiet, Creating
  <1> QED
    BY <1>4, <1>5, <1>6, <1>7, <1>8 DEF IInv

\* Who deletes the secret is to create the next one.
LEMMA DeleteKeeps ==
  ASSUME IInv, NEW c \in Callers, Delete(c)
  PROVE  IInv'
  <1>1. /\ TypeOK /\ pc[c] = "delete"
        /\ UNCHANGED <<edits, seen, tmp, faulty, abandoned>>
    BY DEF IInv, Delete, faults
  <1>2. PICK step \in {"create", "failed"} :
           /\ Goes(c, step) /\ UNCHANGED <<labelled, author>> /\ ~exists'
           /\ \/ step = "create" /\ version' = version + 1
              \/ UNCHANGED <<exists, version>>
    BY DEF Delete, Gone, AfterDelete, store, IInv, TypeOK
  <1>3. /\ pc' \in [Callers -> Steps] /\ pc'[c] = step
        /\ \A d \in Callers \ {c} : pc'[d] = pc[d]
    BY <1>1, <1>2, GoesOn DEF Steps
  <1>4. TypeOK'
    <2>1. exists' \in BOOLEAN
      BY <1>2 DEF Delete, Gone, store, IInv, TypeOK
    <2> QED
      BY <1>1, <1>2, <1>3, <2>1, ChangeIsSeen DEF TypeOK, Steps
  <1>5. KindInv' /\ GetInv' /\ LookInv'
    BY <1>1, <1>2, <1>3, ChangeIsSeen DEF IInv, KindInv, GetInv, LookInv, Callers
  <1>6. TokenInv'
    BY <1>1, <1>3 DEF IInv, TypeOK, TokenInv, Callers
  <1>7. GoneInv' /\ AuthorInv'
    BY <1>1, <1>2, <1>3 DEF IInv, TypeOK, GoneInv, AuthorInv, Quiet, Creating
  <1> QED
    BY <1>4, <1>5, <1>6, <1>7 DEF IInv

\* After a failure or a kill nothing is quiet any more; what counts is the directory.
LEMMA StopsKeeps ==
  ASSUME IInv, NEW c \in Callers, Fails(c) \/ Killed(c)
  PROVE  IInv'
  <1>1. /\ TypeOK /\ Stops(c) /\ UNCHANGED <<edits, seen>>
        /\ faulty' = faulty \cup {c} /\ Goes(c, "failed")
    BY DEF IInv, Fails, Killed, Stops
  <1>2. /\ pc' \in [Callers -> Steps] /\ pc'[c] = "failed"
        /\ \A d \in Callers \ {c} : pc'[d] = pc[d]
    BY <1>1, GoesOn DEF Steps
  <1>3. /\ exists' \in BOOLEAN /\ labelled' \in BOOLEAN /\ author' \in Callers \cup {User}
        /\ version' = version + 1 \/ UNCHANGED <<exists, labelled, version>>
    <2>1. CASE UNCHANGED store
      BY <1>1, <2>1 DEF store, TypeOK
    <2>2. CASE PutsOwn(c)
      BY <2>2 DEF PutsOwn, Labels, Put
    <2>3. CASE Gone
      BY <1>1, <2>3 DEF Gone, TypeOK
    <2> QED
      BY <1>1, <2>1, <2>2, <2>3 DEF Stops
  <1>4. /\ tmp' \subseteq tmp /\ abandoned \subseteq abandoned' /\ abandoned' \subseteq Callers
        /\ c \in tmp' => c \in abandoned'
    <2>1. c \in tmp => pc[c] = "login" \/ c \in abandoned
      BY DEF IInv, TokenInv
    <2> QED
      BY <1>1, <2>1 DEF Fails, Killed, AtError, RemovesTempDir, LeavesTempDir, TypeOK
  <1>5. TypeOK'
    BY <1>1, <1>2, <1>3, <1>4, ChangeIsSeen DEF TypeOK, Steps
  <1>6. KindInv' /\ GetInv' /\ LookInv'
    BY <1>1, <1>2, <1>3, ChangeIsSeen DEF IInv, KindInv, GetInv, LookInv, Callers
  <1>7. TokenInv'
    BY <1>1, <1>2, <1>4 DEF IInv, TypeOK, TokenInv, Callers
  <1>8. GoneInv' /\ AuthorInv'
    BY <1>1 DEF GoneInv, AuthorInv, Quiet
  <1> QED
    BY <1>5, <1>6, <1>7, <1>8 DEF IInv

---------------------------------------------------------------------------
\* Only clones look.
LEMMA LooksAreOfClones ==
  ASSUME IInv, NEW c \in Callers, Look(c)
  PROVE  c \in Cloners
  BY DEF IInv, GetInv, Look

LEMMA Preserved == IInv /\ [Next]_vars => IInv'
  <1> SUFFICES ASSUME IInv, [Next]_vars PROVE IInv'
    OBVIOUS
  <1>1. ASSUME NEW c \in Callers, Call(c) \/ Killed(c) PROVE IInv'
    BY <1>1, BeforeCreateKeeps, CreateKeeps, LookKeeps, LooksAreOfClones, DeleteKeeps, StopsKeeps
    DEF Call
  <1>2. CASE UserEdits
    BY <1>2, UserEditsKeeps
  <1>3. CASE UNCHANGED vars
    BY <1>3
    DEF IInv, TypeOK, KindInv, GetInv, LookInv, TokenInv, GoneInv, AuthorInv, Quiet, vars, store, faults
  <1> QED
    BY <1>1, <1>2, <1>3 DEF Next, AllEnded

\* The invariant behind the theorems below.
THEOREM Invariance == Spec => []IInv
  BY Initially, Preserved, PTL DEF Spec

\* The secret and every call are in a state the module names; no call has seen a version
\* that is still to come.
THEOREM TypeCorrect == Spec => []TypeOK
  <1>1. IInv => TypeOK
    BY DEF IInv
  <1> QED
    BY <1>1, Invariance, PTL

\* A clone deletes a secret of somebody else, one without its label, only if that was
\* changed after the clone looked, whatever other callers and the user do in between.
THEOREM UnmanagedAreSafe == Spec => UnmanagedSecretSurvives
  <1>1. IInv => [\A c \in Cloners :
                   (pc[c] = "delete" /\ pc'[c] # "delete" /\ exists /\ ~exists') =>
                       labelled \/ version # seen[c]]_vars
    BY DEF IInv, LookInv
  <1> QED
    BY <1>1, Invariance, PTL DEF UnmanagedSecretSurvives

\* Calls that race and hit no error leave the secret of one of those that succeeded, or the
\* one that was there if none did.
THEOREM RacesLeaveWinner == Spec => []RaceLeavesWinner
  <1>1. IInv => RaceLeavesWinner
    <2> SUFFICES ASSUME IInv, \A c \in Callers : Ended(c), Quiet, Callers # {}
                 PROVE  /\ exists
                        /\ \/ author \in Callers /\ pc[author] = "ok"
                           \/ author = User /\ \A c \in Callers : pc[c] = "failed"
      BY DEF RaceLeavesWinner, Quiet
    <2>1. exists
      BY DEF IInv, GoneInv, Creating, Ended
    <2>2. author \in Callers \cup {User}
      BY DEF IInv, TypeOK
    <2>3. IF author = User THEN \A c \in Callers : pc[c] # "ok" ELSE pc[author] = "ok"
      BY DEF IInv, AuthorInv
    <2> QED
      BY <2>1, <2>2, <2>3 DEF Ended
  <1> QED
    BY <1>1, Invariance, PTL

\* However a call of CreateLongLivedPullSecret ends, the directory with the token is gone,
\* unless the process was killed or the removal failed.
THEOREM TokensAreRemoved == Spec => []TokenIsNotLeftBehind
  <1>1. IInv => TokenIsNotLeftBehind
    BY DEF IInv, TokenInv, TokenIsNotLeftBehind, Ended
  <1> QED
    BY <1>1, Invariance, PTL
===========================================================================
