------------------------ MODULE ReleaseBuilderProofs ------------------------
(***************************************************************************)
(* Theorems about ReleaseBuilder, for any runs, requests and releases.      *)
(***************************************************************************)
EXTENDS ReleaseBuilder, FiniteSetTheorems, SequenceTheorems, WellFoundedInduction, TLAPS

---------------------------------------------------------------------------
(* Where the new tags go.                                                   *)

LEMMA Smallest ==
  ASSUME NEW S \in SUBSET Nat, S # {}
  PROVE  \E x \in S : \A y \in S : x <= y
  <1> DEFINE R == {ss \in Nat \X Nat : ss[1] < ss[2]}
  <1>1. IsWellFoundedOn(R, Nat)
    BY NatLessThanWellFounded DEF OpToRel
  <1>2. \A x, y \in S : <<y, x>> \in R <=> y < x
    BY SMT
  <1> HIDE DEF R
  <1>3. \E x \in S : \A y \in S : ~ (<<y, x>> \in R)
    BY <1>1, WFMin
  <1>4. PICK x \in S : \A y \in S : ~(y < x)
    BY <1>2, <1>3
  <1> QED
    BY <1>4

LEMMA LargestOf ==
  ASSUME NEW n \in Nat, NEW S \in SUBSET (1..n), S # {}
  PROVE  Max(S) \in S /\ \A y \in S : y <= Max(S)
  <1> DEFINE T == {t \in 0..n : n - t \in S}
  <1>1. PICK t \in T : \A u \in T : t <= u
    <2>1. PICK x \in S : TRUE
      OBVIOUS
    <2>2. n - x \in T
      <3>1. n - (n - x) = x
        OBVIOUS
      <3> QED
        BY <3>1
    <2>3. T \in SUBSET Nat
      OBVIOUS
    <2> HIDE DEF T
    <2> QED
      BY <2>2, <2>3, Smallest
  <1>2. ASSUME NEW y \in S PROVE n - t >= y
    <2>1. n - (n - y) = y /\ n - y \in 0..n
      OBVIOUS
    <2>2. t <= n - y
      BY <1>1, <2>1
    <2> QED
      BY <2>2
  <1>3. \E x \in S : \A y \in S : x >= y
    BY <1>2
  <1>4. Max(S) \in S /\ \A y \in S : Max(S) >= y
    BY <1>3 DEF Max
  <1> QED
    BY <1>4

\* The index of a kind of tag is one, and no later tag is of the kind.
LEMMA LastIsIndex ==
  ASSUME NEW tags \in Seq(Tags), tags # <<>>, NEW names
  PROVE  /\ LastOf(tags, names) \in 1..Len(tags)
         /\ \A i \in 1..Len(tags) : tags[i].name \in names => i <= LastOf(tags, names)
         /\ LastOf(tags, names) # 1 => tags[LastOf(tags, names)].name \in names
  <1> DEFINE S == {1} \cup {i \in 1..Len(tags) : tags[i].name \in names}
  <1>1. Len(tags) \in Nat \ {0}
    OBVIOUS
  <1>2. S \in SUBSET (1..Len(tags)) /\ S # {}
    BY <1>1
  <1>3. LastOf(tags, names) = Max(S)
    BY DEF LastOf
  <1>4. Max(S) \in S /\ \A y \in S : y <= Max(S)
    <2> HIDE DEF S
    <2> QED
      BY <1>1, <1>2, LargestOf
  <1> QED
    BY <1>2, <1>3, <1>4

\* The tags are inserted after the later of the two indexes.
At(tags) == Max({OsIndex(tags), ExtIndex(tags)})

LEMMA InsertPoint ==
  ASSUME NEW tags \in Seq(Tags), tags # <<>>
  PROVE  /\ At(tags) \in 1..Len(tags)
         /\ \A i \in 1..Len(tags) : i > At(tags) => tags[i].name \notin CoreOS
         /\ tags[At(tags)].name \in CoreOS
            \/ (At(tags) = 1 /\ \A i \in 1..Len(tags) : tags[i].name \notin CoreOS)
  <1> DEFINE os == OsIndex(tags)
             ext == ExtIndex(tags)
  <1>1. /\ os \in 1..Len(tags) /\ ext \in 1..Len(tags)
        /\ \A i \in 1..Len(tags) : tags[i].name \in CoreOS \ Extensions => i <= os
        /\ \A i \in 1..Len(tags) : tags[i].name \in Extensions => i <= ext
        /\ os # 1 => tags[os].name \in CoreOS \ Extensions
        /\ ext # 1 => tags[ext].name \in Extensions
    BY LastIsIndex DEF OsIndex, ExtIndex
  <1>2. At(tags) \in {os, ext} /\ os <= At(tags) /\ ext <= At(tags)
    <2>1. {os, ext} \in SUBSET (1..Len(tags)) /\ {os, ext} # {} /\ Len(tags) \in Nat
      BY <1>1
    <2> HIDE DEF os, ext
    <2> QED
      BY <2>1, LargestOf DEF At, os, ext
  <1>3. Extensions \subseteq CoreOS
    BY DEF Extensions, CoreOS
  <1> HIDE DEF os, ext
  <1>4. \A i \in 1..Len(tags) : tags[i].name \in CoreOS => i <= At(tags)
    BY <1>1, <1>2
  <1>5. At(tags) \in 1..Len(tags)
    BY <1>1, <1>2
  <1>6. At(tags) # 1 => tags[At(tags)].name \in CoreOS
    BY <1>1, <1>2, <1>3
  <1>7. ASSUME At(tags) = 1, tags[1].name \notin CoreOS, NEW i \in 1..Len(tags)
        PROVE  tags[i].name \notin CoreOS
    BY <1>4, <1>7
  <1>8. \A i \in 1..Len(tags) : i > At(tags) => tags[i].name \notin CoreOS
    BY <1>4, <1>5
  <1> QED
    BY <1>5, <1>6, <1>7, <1>8

\* What two lists one after the other have at each index.
LEMMA Glued ==
  ASSUME NEW S, NEW s \in Seq(S), NEW t \in Seq(S)
  PROVE  /\ s \o t \in Seq(S) /\ Len(s \o t) = Len(s) + Len(t)
         /\ \A i \in 1..Len(s) : (s \o t)[i] = s[i]
         /\ \A i \in 1..Len(t) : (s \o t)[Len(s) + i] = t[i]
  <1>1. /\ s \o t \in Seq(S) /\ Len(s \o t) = Len(s) + Len(t)
        /\ \A i \in 1..(Len(s) + Len(t)) : (s \o t)[i] = IF i <= Len(s) THEN s[i] ELSE t[i - Len(s)]
    BY ConcatProperties
  <1>2. Len(s) \in Nat /\ Len(t) \in Nat
    OBVIOUS
  <1>3. ASSUME NEW i \in 1..Len(s) PROVE (s \o t)[i] = s[i]
    <2>1. i \in 1..(Len(s) + Len(t)) /\ i <= Len(s)
      BY <1>2
    <2> QED
      BY <1>1, <2>1
  <1>4. ASSUME NEW i \in 1..Len(t) PROVE (s \o t)[Len(s) + i] = t[i]
    <2>1. Len(s) + i \in 1..(Len(s) + Len(t)) /\ ~(Len(s) + i <= Len(s)) /\ Len(s) + i - Len(s) = i
      BY <1>2
    <2> QED
      BY <1>1, <2>1
  <1> QED
    BY <1>1, <1>3, <1>4

\* What a list has at each index when two more are put after one of them.
Put(s, at, a, b) == SubSeq(s, 1, at) \o <<a, b>> \o SubSeq(s, at + 1, Len(s))

Splits(new, s, at, a, b) ==
    /\ Len(new) = Len(s) + 2
    /\ \A i \in 1..at : new[i] = s[i]
    /\ new[at + 1] = a /\ new[at + 2] = b
    /\ \A i \in (at + 1)..Len(s) : new[i + 2] = s[i]

LEMMA Between ==
  ASSUME NEW S, NEW s \in Seq(S), NEW at \in 1..Len(s), NEW a \in S, NEW b \in S
  PROVE  Put(s, at, a, b) \in Seq(S) /\ Splits(Put(s, at, a, b), s, at, a, b)
  <1> DEFINE front == SubSeq(s, 1, at)
             mid == <<a, b>>
             back == SubSeq(s, at + 1, Len(s))
             fm == front \o mid
             new == fm \o back
  <1>0. \A u, v \in Seq(S) : /\ u \o v \in Seq(S) /\ Len(u \o v) = Len(u) + Len(v)
                             /\ \A i \in 1..Len(u) : (u \o v)[i] = u[i]
                             /\ \A i \in 1..Len(v) : (u \o v)[Len(u) + i] = v[i]
    BY Glued
  <1>1. Len(s) \in Nat /\ at \in Nat /\ at <= Len(s) /\ \A i \in 1..Len(s) : s[i] \in S
    OBVIOUS
  <1>2. front \in Seq(S) /\ Len(front) = at /\ \A i \in 1..at : front[i] = s[i]
    BY <1>1, SubSeqProperties
  <1>3. /\ back \in Seq(S) /\ Len(back) = Len(s) - at
        /\ \A i \in 1..(Len(s) - at) : back[i] = s[at + i]
    BY <1>1, SubSeqProperties
  <1>4. mid \in Seq(S) /\ Len(mid) = 2 /\ mid[1] = a /\ mid[2] = b
    OBVIOUS
  <1> HIDE DEF front, mid, back
  <1>5. /\ fm \in Seq(S) /\ Len(fm) = Len(front) + Len(mid)
        /\ \A i \in 1..Len(front) : fm[i] = front[i]
        /\ \A i \in 1..Len(mid) : fm[Len(front) + i] = mid[i]
    BY <1>0, <1>2, <1>4, Zenon
  <1> HIDE DEF fm
  <1>6. /\ new \in Seq(S) /\ Len(new) = Len(fm) + Len(back)
        /\ \A i \in 1..Len(fm) : new[i] = fm[i]
        /\ \A i \in 1..Len(back) : new[Len(fm) + i] = back[i]
    BY <1>0, <1>3, <1>5, Zenon
  <1> HIDE DEF new
  <1>7. Len(fm) = at + 2 /\ Len(new) = Len(s) + 2
    BY <1>1, <1>2, <1>3, <1>4, <1>5, <1>6
  <1>8. ASSUME NEW i \in 1..at PROVE new[i] = s[i]
    BY <1>1, <1>2, <1>5, <1>6, <1>7
  <1>9. new[at + 1] = a /\ new[at + 2] = b
    <2>1. fm[at + 1] = a /\ fm[at + 2] = b
      BY <1>2, <1>4, <1>5
    <2> QED
      BY <1>1, <1>6, <1>7, <2>1
  <1>10. ASSUME NEW i \in (at + 1)..Len(s) PROVE new[i + 2] = s[i]
    <2>1. i - at \in 1..Len(back) /\ at + (i - at) = i /\ Len(fm) + (i - at) = i + 2
      BY <1>1, <1>3, <1>7
    <2>2. new[Len(fm) + (i - at)] = back[i - at]
      BY <1>6, <2>1
    <2>3. back[i - at] = s[at + (i - at)]
      BY <1>3, <2>1
    <2> QED
      BY <2>1, <2>2, <2>3
  <1> QED
    BY <1>6, <1>7, <1>8, <1>9, <1>10 DEF Splits, Put, new, fm, front, mid, back

LEMMA Inserted ==
  ASSUME NEW tags \in Seq(Tags), tags # <<>>, NEW a \in Tags, NEW b \in Tags
  PROVE  /\ Insert(tags, <<a, b>>) \in Seq(Tags)
         /\ Splits(Insert(tags, <<a, b>>), tags, At(tags), a, b)
  <1>1. At(tags) \in 1..Len(tags)
    BY InsertPoint
  <1>2. Insert(tags, <<a, b>>) = Put(tags, At(tags), a, b)
    BY DEF Insert, At, Put
  <1>3. \A at \in 1..Len(tags) :
            Put(tags, at, a, b) \in Seq(Tags) /\ Splits(Put(tags, at, a, b), tags, at, a, b)
    BY Between
  <1> QED
    BY <1>1, <1>2, <1>3

\* The OS tag without a streamclass gets one, and nothing else changes.
Marked(tags) == [tags EXCEPT ![OsIndex(tags)].stream = IF @ = "unset" THEN "rhel-9" ELSE @]

LEMMA MarkedTags ==
  ASSUME NEW tags \in Seq(Tags), tags # <<>>
  PROVE  /\ Marked(tags) \in Seq(Tags) /\ Len(Marked(tags)) = Len(tags) /\ Marked(tags) # <<>>
         /\ OsIndex(tags) \in 1..Len(tags)
         /\ \A i \in 1..Len(tags) :
               /\ Marked(tags)[i].name = tags[i].name
               /\ Marked(tags)[i].stream = tags[i].stream \/ tags[i].stream = "unset"
         /\ Marked(tags)[OsIndex(tags)].stream # "unset"
         /\ At(Marked(tags)) = At(tags)
  <1> DEFINE os == OsIndex(tags)
             tag == [tags[os] EXCEPT !.stream = IF @ = "unset" THEN "rhel-9" ELSE @]
  <1>1. os \in 1..Len(tags) /\ tags[os] \in Tags
    BY LastIsIndex DEF OsIndex
  <1> HIDE DEF os
  <1>2. /\ tag \in Tags /\ tag.name = tags[os].name /\ tag.stream # "unset"
        /\ tag.stream = tags[os].stream \/ tags[os].stream = "unset"
    BY <1>1 DEF Tags, Streams
  <1>3. Marked(tags) = [tags EXCEPT ![os] = tag]
    BY DEF Marked, os
  <1> HIDE DEF tag
  <1>4. Marked(tags) \in Seq(Tags) /\ Len(Marked(tags)) = Len(tags)
    <2>1. [tags EXCEPT ![os] = tag] \in Seq(Tags) /\ Len([tags EXCEPT ![os] = tag]) = Len(tags)
      <3>1. \A e \in Tags : \A i \in 1..Len(tags) :
               [tags EXCEPT ![i] = e] \in Seq(Tags) /\ Len([tags EXCEPT ![i] = e]) = Len(tags)
        BY ExceptSeq, Zenon
      <3> QED
        BY <1>1, <1>2, <3>1, Zenon
    <2> QED
      BY <1>3, <2>1
  <1>5. \A i \in 1..Len(tags) : Marked(tags)[i] = IF i = os THEN tag ELSE tags[i]
    BY <1>3
  <1>6. \A i \in 1..Len(tags) : Marked(tags)[i].name = tags[i].name
    BY <1>2, <1>5
  <1>7. ASSUME NEW names PROVE LastOf(Marked(tags), names) = LastOf(tags, names)
    BY <1>4, <1>6 DEF LastOf
  <1>8. At(Marked(tags)) = At(tags)
    <2>1. OsIndex(Marked(tags)) = OsIndex(tags) /\ ExtIndex(Marked(tags)) = ExtIndex(tags)
      BY <1>7 DEF OsIndex, ExtIndex
    <2> QED
      BY <2>1 DEF At
  <1>9. Marked(tags) # <<>>
    BY <1>4
  <1> QED
    BY <1>1, <1>2, <1>4, <1>5, <1>6, <1>8, <1>9 DEF os

---------------------------------------------------------------------------
(* What the new list of tags is to the old one.                             *)

\* Without the two that were put in, a list is as before.
LEMMA TakenOut ==
  ASSUME NEW S, NEW s \in Seq(S), NEW at \in 1..Len(s), NEW a, NEW b,
         NEW new \in Seq(S), Splits(new, s, at, a, b)
  PROVE  \A i \in 1..Len(s) : (SubSeq(new, 1, at) \o SubSeq(new, at + 3, Len(new)))[i] = s[i]
  <1> DEFINE front == SubSeq(new, 1, at)
             back == SubSeq(new, at + 3, Len(new))
  <1>0. \A u, v \in Seq(S) : /\ \A i \in 1..Len(u) : (u \o v)[i] = u[i]
                             /\ \A i \in 1..Len(v) : (u \o v)[Len(u) + i] = v[i]
    BY Glued
  <1>1. /\ Len(s) \in Nat /\ at \in Nat /\ at <= Len(s) /\ Len(new) = Len(s) + 2
        /\ \A i \in 1..Len(new) : new[i] \in S
        /\ \A i \in 1..at : new[i] = s[i]
        /\ \A i \in (at + 1)..Len(s) : new[i + 2] = s[i]
    BY DEF Splits
  <1>2. front \in Seq(S) /\ Len(front) = at /\ \A i \in 1..at : front[i] = new[i]
    BY <1>1, SubSeqProperties
  <1>3. /\ back \in Seq(S) /\ Len(back) = Len(s) - at
        /\ \A i \in 1..(Len(s) - at) : back[i] = new[at + 2 + i]
    BY <1>1, SubSeqProperties
  <1> HIDE DEF front, back
  <1>4. ASSUME NEW i \in 1..at PROVE (front \o back)[i] = s[i]
    <2>1. (front \o back)[i] = front[i]
      BY <1>0, <1>2, <1>3
    <2> QED
      BY <1>1, <1>2, <2>1
  <1>5. ASSUME NEW i \in (at + 1)..Len(s) PROVE (front \o back)[i] = s[i]
    <2>1. i - at \in 1..Len(back) /\ Len(front) + (i - at) = i /\ at + 2 + (i - at) = i + 2
      BY <1>1, <1>2, <1>3
    <2>2. (front \o back)[Len(front) + (i - at)] = back[i - at]
      BY <1>0, <1>2, <1>3, <2>1
    <2>3. back[i - at] = new[at + 2 + (i - at)]
      BY <1>3, <2>1
    <2> QED
      BY <1>1, <2>1, <2>2, <2>3
  <1>6. ASSUME NEW i \in 1..Len(s) PROVE i \in 1..at \/ i \in (at + 1)..Len(s)
    BY <1>1
  <1> QED
    BY <1>4, <1>5, <1>6 DEF front, back

\* A list with at most one OS tag has it at the index of the OS tag, or has a RHEL 10 one.
OneOs(tags) == \A i, j \in 1..Len(tags) : tags[i].name = "os" /\ tags[j].name = "os" => i = j

LEMMA OsIsAtIndex ==
  ASSUME NEW tags \in Seq(Tags), tags # <<>>, OneOs(tags), "os10" \notin Names(tags),
         NEW i \in 1..Len(tags), tags[i].name = "os"
  PROVE  OsIndex(tags) = i
  <1> DEFINE os == OsIndex(tags)
  <1>1. CoreOS \ Extensions = {"os", "os10"}
    BY DEF CoreOS, Extensions
  <1>2. /\ os \in 1..Len(tags) /\ i <= os
        /\ os # 1 => tags[os].name \in {"os", "os10"}
    BY <1>1, LastIsIndex DEF OsIndex
  <1> HIDE DEF os
  <1>3. os # 1 => tags[os].name = "os"
    BY <1>2 DEF Names
  <1>4. CASE os = 1
    BY <1>2, <1>4 DEF os
  <1>5. CASE os # 1
    BY <1>2, <1>3, <1>5 DEF os, OneOs
  <1> QED
    BY <1>4, <1>5

LEMMA InsertExtends ==
  ASSUME NEW tags \in Seq(Tags), tags # <<>>, OneOs(tags), NEW a \in Tags, NEW b \in Tags,
         a.name = "os10", b.name = "ext10"
  PROVE  Extends(Insert(Marked(tags), <<a, b>>), tags)
  <1> DEFINE k == At(tags)
             new == Insert(Marked(tags), <<a, b>>)
             rest == SubSeq(new, 1, k) \o SubSeq(new, k + 3, Len(new))
  <1>1. /\ Marked(tags) \in Seq(Tags) /\ Len(Marked(tags)) = Len(tags) /\ Marked(tags) # <<>>
        /\ \A i \in 1..Len(tags) :
              /\ Marked(tags)[i].name = tags[i].name
              /\ Marked(tags)[i].stream = tags[i].stream \/ tags[i].stream = "unset"
        /\ Marked(tags)[OsIndex(tags)].stream # "unset"
        /\ At(Marked(tags)) = k
    BY MarkedTags
  <1>2. /\ k \in 1..Len(tags)
        /\ \A i \in 1..Len(tags) : i > k => tags[i].name \notin CoreOS
        /\ tags[k].name \in CoreOS
           \/ (k = 1 /\ \A i \in 1..Len(tags) : tags[i].name \notin CoreOS)
    BY InsertPoint
  <1> HIDE DEF k
  <1>3. new \in Seq(Tags) /\ Splits(new, Marked(tags), k, a, b)
    BY <1>1, Inserted
  <1> HIDE DEF new
  <1>4. \A i \in 1..Len(tags) : rest[i] = Marked(tags)[i]
    <2>1. k \in 1..Len(Marked(tags))
      BY <1>1, <1>2
    <2>2. \A i \in 1..Len(Marked(tags)) : rest[i] = Marked(tags)[i]
      BY <1>1, <1>3, <2>1, TakenOut
    <2> QED
      BY <1>1, <2>2
  <1>5. Len(new) = Len(tags) + 2 /\ new[k + 1] = a /\ new[k + 2] = b
    BY <1>1, <1>3 DEF Splits
  <1> HIDE DEF rest
  <1>6. ASSUME NEW i \in 1..Len(tags)
        PROVE  /\ rest[i].name = tags[i].name
               /\ rest[i].stream = tags[i].stream \/ tags[i].stream = "unset"
               /\ (tags[i].name = "os" /\ "os10" \notin Names(tags)) => rest[i].stream # "unset"
               /\ i > k => tags[i].name \notin CoreOS
    <2>1. ASSUME tags[i].name = "os", "os10" \notin Names(tags) PROVE rest[i].stream # "unset"
      <3>1. OsIndex(tags) = i
        BY <2>1, OsIsAtIndex
      <3> QED
        BY <1>1, <1>4, <3>1
    <2> QED
      BY <1>1, <1>2, <1>4, <2>1
  <1>7. tags[k].name \in CoreOS \/ (k = 1 /\ Names(tags) \cap CoreOS = {})
    BY <1>2 DEF Names
  <1>8. \E m \in 1..Len(tags) :
           LET r == SubSeq(new, 1, m) \o SubSeq(new, m + 3, Len(new)) IN
           /\ Len(new) = Len(tags) + 2
           /\ new[m + 1].name = "os10" /\ new[m + 2].name = "ext10"
           /\ \A i \in 1..Len(tags) :
               /\ r[i].name = tags[i].name
               /\ r[i].stream = tags[i].stream \/ tags[i].stream = "unset"
               /\ (tags[i].name = "os" /\ "os10" \notin Names(tags)) => r[i].stream # "unset"
               /\ i > m => tags[i].name \notin CoreOS
           /\ tags[m].name \in CoreOS \/ (m = 1 /\ Names(tags) \cap CoreOS = {})
    <2>0. k \in 1..Len(tags)
      BY <1>2
    <2> USE <2>0
    <2> WITNESS k \in 1..Len(tags)
    <2>1. SubSeq(new, 1, k) \o SubSeq(new, k + 3, Len(new)) = rest
      BY DEF rest
    <2> QED
      BY <1>5, <1>6, <1>7, <2>1
  <1> QED
    BY <1>8 DEF Extends, new

\* Putting tags in that are not OS tags leaves at most one.
LEMMA StillOneOs ==
  ASSUME NEW tags \in Seq(Tags), tags # <<>>, OneOs(tags), NEW a \in Tags, NEW b \in Tags,
         a.name = "os10", b.name = "ext10"
  PROVE  OneOs(Insert(Marked(tags), <<a, b>>))
  <1> DEFINE new == Insert(Marked(tags), <<a, b>>)
             at == At(tags)
  <1>1. /\ Marked(tags) \in Seq(Tags) /\ Len(Marked(tags)) = Len(tags) /\ Marked(tags) # <<>>
        /\ \A i \in 1..Len(tags) : Marked(tags)[i].name = tags[i].name
        /\ At(Marked(tags)) = at
    BY MarkedTags
  <1>2. at \in 1..Len(tags) /\ Len(tags) \in Nat
    BY InsertPoint
  <1> HIDE DEF at
  <1>3. new \in Seq(Tags) /\ Splits(new, Marked(tags), at, a, b)
    BY <1>1, Inserted
  <1> HIDE DEF new
  <1>4. ASSUME NEW i \in 1..Len(new), new[i].name = "os"
        PROVE  \/ i \in 1..at /\ tags[i].name = "os"
               \/ i - 2 \in (at + 1)..Len(tags) /\ tags[i - 2].name = "os"
    <2>1. CASE i \in 1..at
      BY <1>1, <1>2, <1>3, <1>4, <2>1 DEF Splits
    <2>2. CASE i = at + 1 \/ i = at + 2
      BY <1>3, <1>4, <2>2 DEF Splits
    <2>3. CASE i > at + 2
      <3>1. Len(new) = Len(tags) + 2
        BY <1>1, <1>3 DEF Splits
      <3>2. i - 2 \in (at + 1)..Len(tags) /\ i - 2 + 2 = i
        BY <1>2, <2>3, <3>1
      <3>3. new[i - 2 + 2] = Marked(tags)[i - 2]
        BY <1>1, <1>3, <3>2 DEF Splits
      <3>4. i - 2 \in 1..Len(tags)
        BY <1>2, <3>2
      <3> QED
        BY <1>1, <1>4, <3>2, <3>3, <3>4
    <2> QED
      BY <1>2, <2>1, <2>2, <2>3
  <1>5. ASSUME NEW i \in 1..Len(new), NEW j \in 1..Len(new),
               new[i].name = "os", new[j].name = "os"
        PROVE  i = j
    <2>1. i \in Int /\ j \in Int
      OBVIOUS
    <2>2. \A m \in 1..at : m \in 1..Len(tags)
      BY <1>2
    <2>3. \A m \in (at + 1)..Len(tags) : m \in 1..Len(tags)
      BY <1>2
    <2> QED
      BY <1>2, <1>4, <1>5, <2>1, <2>2, <2>3 DEF OneOs
  <1> QED
    BY <1>5 DEF OneOs, new

---------------------------------------------------------------------------
(* How many tags of a name there are.                                       *)

Indexes(tags, name) == {i \in 1..Len(tags) : tags[i].name = name}

LEMMA FiniteIndexes ==
  ASSUME NEW tags \in Seq(Tags), NEW name
  PROVE  IsFiniteSet(Indexes(tags, name)) /\ Cardinality(Indexes(tags, name)) \in Nat
  <1>1. IsFiniteSet(1..Len(tags))
    BY FS_Interval
  <1>2. Indexes(tags, name) \in SUBSET (1..Len(tags))
    BY DEF Indexes
  <1>3. IsFiniteSet(Indexes(tags, name))
    BY <1>1, <1>2, FS_Subset
  <1> QED
    BY <1>3, FS_CardinalityType

\* The tags that were there move together.
Kept(new, at, name) == Indexes(new, name) \ {at + 1, at + 2}

LEMMA Moved ==
  ASSUME NEW tags \in Seq(Tags), NEW a, NEW b, NEW name
  PROVE  \A marked, new \in Seq(Tags) : \A at \in 1..Len(tags) :
            /\ Len(marked) = Len(tags)
            /\ \A i \in 1..Len(tags) : marked[i].name = tags[i].name
            /\ Splits(new, marked, at, a, b)
            => /\ IsFiniteSet(Kept(new, at, name))
               /\ Cardinality(Kept(new, at, name)) = Cardinality(Indexes(tags, name))
  <1> SUFFICES ASSUME NEW marked \in Seq(Tags), NEW new \in Seq(Tags), NEW at \in 1..Len(tags),
                      Len(marked) = Len(tags),
                      \A i \in 1..Len(tags) : marked[i].name = tags[i].name,
                      Splits(new, marked, at, a, b)
               PROVE  /\ IsFiniteSet(Kept(new, at, name))
                      /\ Cardinality(Kept(new, at, name)) = Cardinality(Indexes(tags, name))
    OBVIOUS
  <1> DEFINE S == Indexes(tags, name)
             T == Indexes(new, name) \ {at + 1, at + 2}
             f == [i \in S |-> IF i <= at THEN i ELSE i + 2]
  <1>1. /\ Len(tags) \in Nat /\ at \in Nat /\ at <= Len(tags) /\ Len(new) = Len(tags) + 2
        /\ \A i \in 1..at : new[i] = marked[i]
        /\ \A i \in (at + 1)..Len(tags) : new[i + 2] = marked[i]
    BY DEF Splits
  <1>2. \A i \in S : i \in 1..Len(tags) /\ tags[i].name = name /\ marked[i].name = name
    BY DEF Indexes
  <1>3. ASSUME NEW i \in S PROVE f[i] \in T
    <2>1. CASE i <= at
      <3>1. f[i] = i /\ i \in 1..at
        BY <1>1, <1>2, <2>1
      <3>2. i \in 1..Len(new) /\ new[i].name = name /\ i # at + 1 /\ i # at + 2
        BY <1>1, <1>2, <3>1
      <3> QED
        BY <3>1, <3>2 DEF Indexes
    <2>2. CASE ~(i <= at)
      <3>1. f[i] = i + 2 /\ i \in (at + 1)..Len(tags)
        BY <1>1, <1>2, <2>2
      <3>2. i + 2 \in 1..Len(new) /\ new[i + 2].name = name /\ i + 2 # at + 1 /\ i + 2 # at + 2
        BY <1>1, <1>2, <3>1
      <3> QED
        BY <3>1, <3>2 DEF Indexes
    <2> QED
      BY <2>1, <2>2
  <1>4. ASSUME NEW i \in S, NEW j \in S, f[i] = f[j] PROVE i = j
    BY <1>1, <1>2, <1>4
  <1>5. ASSUME NEW t \in T PROVE \E i \in S : f[i] = t
    <2>1. t \in 1..Len(new) /\ new[t].name = name /\ t # at + 1 /\ t # at + 2
      BY DEF Indexes
    <2>2. CASE t <= at
      <3>1. t \in 1..at /\ t \in 1..Len(tags)
        BY <1>1, <2>1, <2>2
      <3>2. t \in S /\ f[t] = t
        BY <1>1, <2>1, <2>2, <3>1 DEF Indexes
      <3> QED
        BY <3>2
    <2>3. CASE ~(t <= at)
      <3>1. t - 2 \in (at + 1)..Len(tags) /\ t - 2 \in 1..Len(tags) /\ t - 2 + 2 = t /\ ~(t - 2 <= at)
        BY <1>1, <2>1, <2>3
      <3>2. tags[t - 2].name = name
        BY <1>1, <2>1, <3>1
      <3>3. t - 2 \in S /\ f[t - 2] = t
        BY <3>1, <3>2 DEF Indexes
      <3> QED
        BY <3>3
    <2> QED
      BY <2>2, <2>3
  <1>6. IsFiniteSet(S)
    BY FiniteIndexes
  <1> HIDE DEF S, T
  <1>7. f \in Bijection(S, T)
    <2>1. f \in [S -> T]
      BY <1>3
    <2> HIDE DEF f
    <2> QED
      BY <1>4, <1>5, <2>1 DEF Bijection, Injection, Surjection, IsInjective
  <1>8. ExistsBijection(S, T)
    <2> HIDE DEF f
    <2> QED
      BY <1>7 DEF ExistsBijection
  <1> QED
    BY <1>6, <1>8, FS_Bijection DEF S, T, Kept

LEMMA InsertCounts ==
  ASSUME NEW tags \in Seq(Tags), tags # <<>>, NEW a \in Tags, NEW b \in Tags,
         a.name = "os10", b.name = "ext10", NEW name
  PROVE  Count(Insert(Marked(tags), <<a, b>>), name) =
            Count(tags, name) + IF name \in {"os10", "ext10"} THEN 1 ELSE 0
  <1> DEFINE new == Insert(Marked(tags), <<a, b>>)
             at == At(tags)
             kept == Kept(new, at, name)
  <1>1. /\ Marked(tags) \in Seq(Tags) /\ Len(Marked(tags)) = Len(tags) /\ Marked(tags) # <<>>
        /\ \A i \in 1..Len(tags) : Marked(tags)[i].name = tags[i].name
        /\ At(Marked(tags)) = at
    BY MarkedTags
  <1>2. at \in 1..Len(tags) /\ Len(tags) \in Nat
    BY InsertPoint
  <1> HIDE DEF at
  <1>3. new \in Seq(Tags) /\ Splits(new, Marked(tags), at, a, b)
    BY <1>1, Inserted
  <1> HIDE DEF new
  <1>4. IsFiniteSet(kept) /\ Cardinality(kept) = Cardinality(Indexes(tags, name))
    BY <1>1, <1>2, <1>3, Moved
  <1>5. at + 1 \in 1..Len(new) /\ at + 2 \in 1..Len(new) /\ new[at + 1] = a /\ new[at + 2] = b
        /\ at + 1 # at + 2
    BY <1>1, <1>2, <1>3 DEF Splits
  <1>6. Cardinality(Indexes(tags, name)) \in Nat
    BY FiniteIndexes
  <1>7. Cardinality(Indexes(new, name)) =
          Cardinality(Indexes(tags, name)) + IF name \in {"os10", "ext10"} THEN 1 ELSE 0
    <2>1. CASE name = "os10"
      <3>1. Indexes(new, name) = kept \cup {at + 1} /\ at + 1 \notin kept
        BY <1>5, <2>1 DEF Indexes, Kept
      <3> HIDE DEF kept
      <3>2. Cardinality(kept \cup {at + 1}) = Cardinality(kept) + 1
        BY <1>4, <3>1, FS_AddElement
      <3> QED
        BY <1>4, <2>1, <3>1, <3>2
    <2>2. CASE name = "ext10"
      <3>1. Indexes(new, name) = kept \cup {at + 2} /\ at + 2 \notin kept
        BY <1>5, <2>2 DEF Indexes, Kept
      <3> HIDE DEF kept
      <3>2. Cardinality(kept \cup {at + 2}) = Cardinality(kept) + 1
        BY <1>4, <3>1, FS_AddElement
      <3> QED
        BY <1>4, <2>2, <3>1, <3>2
    <2>3. CASE name \notin {"os10", "ext10"}
      <3>1. Indexes(new, name) = kept
        BY <1>5, <2>3 DEF Indexes, Kept
      <3> HIDE DEF kept
      <3> QED
        BY <1>4, <1>6, <2>3, <3>1
    <2> QED
      BY <2>1, <2>2, <2>3
  <1> QED
    BY <1>7 DEF Count, Indexes, new

---------------------------------------------------------------------------
(* The inductive invariant.                                                 *)

\* Files of a release whose two versions agree, with one pair of new tags for each
\* suffix, or with one pair more when the version is yet to follow (extra = 1).
PairsOf(f, extra) ==
    /\ f.origin \in Pullspecs /\ OneOs(f.tags)
    /\ \A name \in CoreOS \cup {"cvo", "other"} :
        Count(f.tags, name) = Count(Original[f.origin].files.tags, name)
                              + (IF name \in {"os10", "ext10"} THEN f.meta + extra ELSE 0)

WholeFiles(f) == f.refs = f.meta /\ PairsOf(f, 0)
WholeImage(rel) == rel = NoRelease \/ WholeFiles(rel.files)

ImagesInv ==
    /\ \A p \in Pullspecs : WholeImage(registry[p]) /\ WholeImage(store[p])
    /\ \A c \in containers : WholeImage(c.image)

\* The working copy follows the step the run is at.
FilesInv ==
    \A r \in Runs :
        /\ pc[r] \in {"rm", "labels", "tags"} => files[r] = NoFiles \/ WholeFiles(files[r])
        /\ pc[r] = "refs" => files[r].refs = files[r].meta /\ PairsOf(files[r], 1)
        /\ pc[r] = "meta" => files[r].refs = files[r].meta + 1 /\ PairsOf(files[r], 1)
        /\ pc[r] = "build" => WholeFiles(files[r])

\* No other run that has started writes what this one reads or writes.
Apart(r) ==
    \A q \in Runs \ {r} : pc[q] # "idle" =>
        /\ request[q].final \notin {request[r].base, request[r].final}
        /\ request[q].base # request[r].final

\* What a run has in its hands is what it was asked to extend, as far as it has got.
AfterInfo == {"mkdir"} \cup (DirSteps \ {"removeOk", "removeFailed"})
Chain(r) ==
    LET base == request[r].base
        final == request[r].final
        f == files[r]
        old == want[r].files
    IN
    /\ pc[r] \in {"info", "mkdir", "pull", "create"} => registry[base] = want[r]
    /\ pc[r] \in AfterInfo => cvo[r] = old.origin /\ "cvo" \in Names(old.tags)
    /\ pc[r] = "create" => store[base] = want[r]
    /\ pc[r] = "copy" => \A c \in containers : c.image = want[r]
    /\ pc[r] \in {"rm", "labels", "tags"} => f = old
    /\ pc[r] \in {"refs", "meta", "build"} => f.origin = old.origin /\ Extends(f.tags, old.tags)
    /\ pc[r] = "refs" => f.refs = old.refs /\ f.meta = old.meta
    /\ pc[r] = "meta" => f.refs = old.refs + 1 /\ f.meta = old.meta
    /\ pc[r] = "build" => f.refs = old.refs + 1 /\ f.meta = old.meta + 1
    /\ pc[r] = "push" => IsDualstreamOf(store[final], want[r])
    /\ pc[r] \in {"removeOk", "ok"} => IsDualstreamOf(made[r], want[r])

ChainInv == \A r \in Runs : Apart(r) \/ r \notin disturbed => Chain(r)

\* A run that nothing disturbed is alone, and leaves nothing behind but its release.
Tidy(r) ==
    /\ pc[r] \in Steps => Alive = {r}
    /\ pc[r] \in Steps \ {"copy", "rm"} => containers = {}
    /\ r \in dirs => pc[r] \in DirSteps
    /\ \A c \in containers : c.by = r => pc[r] \in {"copy", "rm"}
    /\ pc[r] \in {"removeFailed", "failed"} => ~Buildable(want[r])
    /\ pc[r] \in {"refs", "meta", "build", "push", "removeOk", "ok"} => Buildable(want[r])
    /\ pc[r] \notin {"removeOk", "ok"} => made[r] = NoRelease
    /\ pc[r] # "killed"

TidyInv == \A r \in Runs \ disturbed : Tidy(r)

IInv == TypeOK /\ ContainerIsOwn /\ ImagesInv /\ FilesInv /\ ChainInv /\ TidyInv

---------------------------------------------------------------------------
(* Types.                                                                   *)

Acts(q) == Start(q) \/ Step(q) \/ CommandFails(q) \/ Killed(q)

LEMMA NoneIsRelease == NoFiles \in FileSets /\ NoRelease \in Releases
  <1>1. <<>> \in Seq(Tags)
    OBVIOUS
  <1>2. NoFiles \in FileSets
    BY <1>1 DEF NoFiles, FileSets
  <1> QED
    BY <1>2 DEF NoRelease, Releases

\* What a run may do to the machine.
Effect(q) ==
    \/ UNCHANGED machine
    \/ Pulled(q) /\ UNCHANGED <<registry, containers>>
    \/ pc[q] = "create" /\ ~NameInUse /\ containers' = {NewContainer(q)} /\ UNCHANGED <<registry, store>>
    \/ pc[q] = "rm" /\ containers' = {} /\ UNCHANGED <<registry, store>>
    \/ pc[q] = "build" /\ Built(q) /\ UNCHANGED <<registry, containers>>
    \/ /\ registry' = [registry EXCEPT ![request[q].final] = store[request[q].final]]
       /\ UNCHANGED <<store, containers>>

LEMMA Effects ==
  ASSUME NEW q \in Runs, Acts(q)
  PROVE  Effect(q)
  <1>1. CASE Start(q)
    BY <1>1 DEF Start, Effect
  <1>2. CASE GetReleaseInfo(q) \/ MkdirTemp(q) \/ CopyFiles(q) \/ GetTagRefs(q) \/ AddTagRefs(q)
             \/ ReplaceInRefs(q) \/ ReplaceInMeta(q) \/ RemoveDir(q)
    BY <1>2 DEF GetReleaseInfo, MkdirTemp, CopyFiles, GetTagRefs, AddTagRefs, ReplaceInRefs,
                ReplaceInMeta, RemoveDir, Effect
  <1>3. CASE PullImage(q)
    BY <1>3 DEF PullImage, Effect
  <1>4. CASE CreateContainer(q)
    <2>1. CASE NameInUse
      BY <1>4, <2>1 DEF CreateContainer, Effect, machine
    <2>2. CASE ~NameInUse
      BY <1>4, <2>2 DEF CreateContainer, Effect
    <2> QED
      BY <2>1, <2>2
  <1>5. CASE DeleteContainer(q)
    BY <1>5 DEF DeleteContainer, Effect
  <1>6. CASE Build(q)
    BY <1>6 DEF Build, Effect
  <1>7. CASE Push(q)
    BY <1>7 DEF Push, Pushed, Effect
  <1>8. CASE CommandFails(q) \/ Killed(q)
    <2>1. Cut(q)
      BY <1>8 DEF CommandFails, Killed
    <2> QED
      BY <2>1 DEF Cut, Pushed, Effect
  <1> QED
    BY <1>1, <1>2, <1>3, <1>4, <1>5, <1>6, <1>7, <1>8 DEF Acts, Step

\* The machine holds releases.
MachineOK ==
    /\ registry \in [Pullspecs -> Releases] /\ store \in [Pullspecs -> Releases]
    /\ containers \subseteq [by : Runs, image : Releases]

LEMMA RequestOK ==
  ASSUME TypeOK, NEW q \in Runs
  PROVE  request[q].base \in Pullspecs /\ request[q].final \in Pullspecs
  BY BuilderAssumption DEF TypeOK

LEMMA MachineTyped ==
  ASSUME TypeOK, NEW q \in Runs, Acts(q)
  PROVE  MachineOK'
  <1>0. MachineOK
    BY DEF TypeOK, MachineOK
  <1>1. request[q].base \in Pullspecs /\ request[q].final \in Pullspecs
    BY RequestOK
  <1>2. Effect(q)
    BY Effects
  <1>3. CASE UNCHANGED machine
    BY <1>0, <1>3 DEF MachineOK, machine
  <1>4. CASE Pulled(q) /\ UNCHANGED <<registry, containers>>
    BY <1>0, <1>1, <1>4 DEF MachineOK, Pulled
  <1>5. CASE containers' = {NewContainer(q)} /\ UNCHANGED <<registry, store>>
    <2>1. NewContainer(q) \in [by : Runs, image : Releases]
      BY <1>0, <1>1 DEF MachineOK, NewContainer
    <2> QED
      BY <1>0, <1>5, <2>1 DEF MachineOK
  <1>6. CASE containers' = {} /\ UNCHANGED <<registry, store>>
    BY <1>0, <1>6 DEF MachineOK
  <1>7. CASE Built(q) /\ UNCHANGED <<registry, containers>>
    <2>1. [files |-> files[q], cvo |-> cvo[q]] \in Releases
      BY DEF TypeOK, Releases
    <2> QED
      BY <1>0, <1>1, <1>7, <2>1 DEF MachineOK, Built
  <1>8. CASE /\ registry' = [registry EXCEPT ![request[q].final] = store[request[q].final]]
             /\ UNCHANGED <<store, containers>>
    BY <1>0, <1>1, <1>8 DEF MachineOK
  <1> QED
    BY <1>2, <1>3, <1>4, <1>5, <1>6, <1>7, <1>8 DEF Effect

\* The tags a run adds.
Tag10(r) == [name |-> "os10", stream |-> stream[r]]
TagExt10 == [name |-> "ext10", stream |-> "unset"]

LEMMA NewTagsOK ==
  ASSUME TypeOK, NEW r \in Runs
  PROVE  Tag10(r) \in Tags /\ TagExt10 \in Tags /\ NewTags(r) = <<Tag10(r), TagExt10>>
  BY DEF TypeOK, Tag10, TagExt10, NewTags, Tags, Streams, CoreOS

\* Adding the tags either fails or changes the tags of the working copy.
Extendable(tags) == tags # <<>> /\ tags[OsIndex(tags)].stream # "nil"

LEMMA TagsAdded ==
  ASSUME TypeOK, NEW q \in Runs, AddTagRefs(q)
  PROVE  \/ /\ ~Extendable(files[q].tags) /\ pc' = [pc EXCEPT ![q] = "removeFailed"]
            /\ files' = files
         \/ /\ Extendable(files[q].tags) /\ pc' = [pc EXCEPT ![q] = "refs"]
            /\ \E new \in Seq(Tags) :
                /\ new = Insert(Marked(files[q].tags), <<Tag10(q), TagExt10>>)
                /\ files' = [files EXCEPT ![q] = [files[q] EXCEPT !.tags = new]]
  <1> DEFINE tags == files[q].tags
             new == Insert(Marked(tags), <<Tag10(q), TagExt10>>)
  <1>1. files \in [Runs -> FileSets] /\ files[q] \in FileSets /\ tags \in Seq(Tags)
    BY DEF TypeOK, FileSets
  <1>2. Tag10(q) \in Tags /\ TagExt10 \in Tags /\ NewTags(q) = <<Tag10(q), TagExt10>>
    BY NewTagsOK
  <1>3. CASE ~Extendable(tags)
    BY <1>3 DEF AddTagRefs, Extendable, Fails, Goes, DirSteps
  <1>4. CASE Extendable(tags)
    <2>1. new \in Seq(Tags)
      <3>1. Marked(tags) \in Seq(Tags) /\ Marked(tags) # <<>>
        BY <1>1, <1>4, MarkedTags DEF Extendable
      <3> QED
        BY <1>2, <3>1, Inserted
    <2>2. /\ pc' = [pc EXCEPT ![q] = "refs"]
          /\ files' = [files EXCEPT ![q].tags = Insert(Marked(tags), NewTags(q))]
      BY <1>4 DEF AddTagRefs, Extendable, Goes, Marked
    <2>3. files' = [files EXCEPT ![q] = [files[q] EXCEPT !.tags = new]]
      <3> HIDE DEF tags
      <3> QED
        BY <1>2, <2>2
    <2> QED
      BY <1>4, <2>1, <2>2, <2>3
  <1> QED
    BY <1>3, <1>4

\* Each file with the version gets one suffix more.
LEMMA RefsReplaced ==
  ASSUME TypeOK, NEW q \in Runs, ReplaceInRefs(q)
  PROVE  \E n \in Nat :
            /\ n = IF files[q].refs >= files[q].meta THEN files[q].refs + 1 ELSE files[q].refs
            /\ files' = [files EXCEPT ![q] = [files[q] EXCEPT !.refs = n]]
  <1> DEFINE n == IF files[q].refs >= files[q].meta THEN files[q].refs + 1 ELSE files[q].refs
  <1>1. n \in Nat
    BY DEF TypeOK, FileSets
  <1>2. files' = [files EXCEPT ![q] = [files[q] EXCEPT !.refs = n]]
    <2>1. files' = [files EXCEPT ![q].refs = n]
      BY DEF ReplaceInRefs, TypeOK
    <2> HIDE DEF n
    <2> QED
      BY <2>1
  <1> QED
    BY <1>1, <1>2

LEMMA MetaReplaced ==
  ASSUME TypeOK, NEW q \in Runs, ReplaceInMeta(q)
  PROVE  \E n \in Nat :
            /\ n = files[q].meta + 1
            /\ files' = [files EXCEPT ![q] = [files[q] EXCEPT !.meta = n]]
  <1> DEFINE n == files[q].meta + 1
  <1>1. n \in Nat
    BY DEF TypeOK, FileSets
  <1>2. files' = [files EXCEPT ![q] = [files[q] EXCEPT !.meta = n]]
    <2>1. files' = [files EXCEPT ![q].meta = n]
      BY DEF ReplaceInMeta, TypeOK
    <2> HIDE DEF n
    <2> QED
      BY <2>1
  <1> QED
    BY <1>1, <1>2

LEMMA LocalTyped ==
  ASSUME TypeOK, NEW q \in Runs, Acts(q)
  PROVE  /\ pc' \in [Runs -> {"idle"} \cup Steps \cup Ended]
         /\ request' \in [Runs -> Requests]
         /\ cvo' \in [Runs -> Pullspecs \cup {"none"}] /\ files' \in [Runs -> FileSets]
         /\ stream' \in [Runs -> Streams]
         /\ dirs' \subseteq Runs /\ disturbed' \subseteq Runs
         /\ want' \in [Runs -> Releases] /\ made' \in [Runs -> Releases]
  <1> USE DEF Steps, DirSteps, Ended
  <1>0. /\ pc \in [Runs -> {"idle"} \cup Steps \cup Ended]
        /\ request \in [Runs -> Requests]
        /\ cvo \in [Runs -> Pullspecs \cup {"none"}] /\ files \in [Runs -> FileSets]
        /\ stream \in [Runs -> Streams]
        /\ dirs \subseteq Runs /\ disturbed \subseteq Runs
        /\ want \in [Runs -> Releases] /\ made \in [Runs -> Releases]
        /\ registry \in [Pullspecs -> Releases] /\ store \in [Pullspecs -> Releases]
    BY DEF TypeOK
  <1>1. request[q].base \in Pullspecs /\ request[q].final \in Pullspecs
    BY RequestOK
  <1>2. ASSUME NEW step \in Steps \cup Ended, Goes(q, step)
        PROVE  pc' \in [Runs -> {"idle"} \cup Steps \cup Ended]
    BY <1>0, <1>2 DEF Goes
  <1>3. ASSUME Fails(q) PROVE pc' \in [Runs -> {"idle"} \cup Steps \cup Ended]
    BY <1>0, <1>3 DEF Fails, Goes
  <1>4. CASE Start(q)
    <2>1. want' \in [Runs -> Releases]
      BY <1>0, <1>1, <1>4 DEF Start
    <2>2. disturbed' \subseteq Runs
      BY <1>0, <1>4 DEF Start, Alive
    <2> QED
      BY <1>0, <1>2, <1>4, <2>1, <2>2 DEF Start, local
  <1>5. CASE GetReleaseInfo(q)
    <2>1. registry[request[q].base].files.origin \in Pullspecs \cup {"none"}
      BY <1>0, <1>1 DEF Releases, FileSets
    <2>2. CASE "cvo" \in Names(registry[request[q].base].files.tags)
      BY <1>0, <1>2, <1>5, <2>1, <2>2 DEF GetReleaseInfo, history
    <2>3. CASE "cvo" \notin Names(registry[request[q].base].files.tags)
      BY <1>0, <1>3, <1>5, <2>3 DEF GetReleaseInfo, history
    <2> QED
      BY <2>2, <2>3
  <1>6. CASE MkdirTemp(q)
    BY <1>0, <1>2, <1>6 DEF MkdirTemp, history
  <1>7. CASE PullImage(q)
    BY <1>0, <1>2, <1>7 DEF PullImage, local, history
  <1>8. CASE CreateContainer(q)
    BY <1>0, <1>2, <1>3, <1>8 DEF CreateContainer, local, history
  <1>9. CASE CopyFiles(q)
    <2>1. files' \in [Runs -> FileSets]
      <3>1. \A c \in containers : c.image.files \in FileSets
        BY DEF TypeOK, Releases
      <3> QED
        BY <1>0, <1>9, <3>1 DEF CopyFiles
    <2> QED
      BY <1>0, <1>2, <1>3, <1>9, <2>1 DEF CopyFiles, history
  <1>10. CASE DeleteContainer(q)
    BY <1>0, <1>2, <1>3, <1>10 DEF DeleteContainer, local, history
  <1>11. CASE GetTagRefs(q)
    <2>1. {"", "rhel-10"} \subseteq Streams
      BY DEF Streams
    <2> QED
      BY <1>0, <1>2, <1>11, <2>1 DEF GetTagRefs, history
  <1>12. CASE AddTagRefs(q)
    <2>1. files' \in [Runs -> FileSets]
      <3>1. ASSUME NEW new \in Seq(Tags), files' = [files EXCEPT ![q] = [files[q] EXCEPT !.tags = new]]
            PROVE  files' \in [Runs -> FileSets]
        <4>1. [files[q] EXCEPT !.tags = new] \in FileSets
          BY <1>0 DEF FileSets
        <4> QED
          BY <1>0, <3>1, <4>1
      <3> QED
        BY <1>0, <1>12, <3>1, TagsAdded
    <2>2. pc' \in [Runs -> {"idle"} \cup Steps \cup Ended]
      BY <1>0, <1>12, TagsAdded
    <2> QED
      BY <1>0, <1>12, <2>1, <2>2 DEF AddTagRefs, history
  <1>13. CASE ReplaceInRefs(q)
    <2>1. files' \in [Runs -> FileSets]
      <3>1. PICK n \in Nat : files' = [files EXCEPT ![q] = [files[q] EXCEPT !.refs = n]]
        BY <1>13, RefsReplaced
      <3>2. [files[q] EXCEPT !.refs = n] \in FileSets
        BY <1>0 DEF FileSets
      <3> QED
        BY <1>0, <3>1, <3>2
    <2> QED
      BY <1>0, <1>2, <1>13, <2>1 DEF ReplaceInRefs, history
  <1>14. CASE ReplaceInMeta(q)
    <2>1. files' \in [Runs -> FileSets]
      <3>1. PICK n \in Nat : files' = [files EXCEPT ![q] = [files[q] EXCEPT !.meta = n]]
        BY <1>14, MetaReplaced
      <3>2. [files[q] EXCEPT !.meta = n] \in FileSets
        BY <1>0 DEF FileSets
      <3> QED
        BY <1>0, <3>1, <3>2
    <2> QED
      BY <1>0, <1>2, <1>14, <2>1 DEF ReplaceInMeta, history
  <1>15. CASE Build(q)
    BY <1>0, <1>2, <1>15 DEF Build, local, history
  <1>16. CASE Push(q)
    BY <1>0, <1>1, <1>2, <1>16 DEF Push, Pushed, local
  <1>17. CASE RemoveDir(q)
    <2>1. dirs' \subseteq Runs /\ disturbed' \subseteq Runs
      BY <1>0, <1>17 DEF RemoveDir
    <2> QED
      BY <1>0, <1>2, <1>17, <2>1 DEF RemoveDir
  <1>18. CASE CommandFails(q) \/ Killed(q)
    <2>1. made' \in [Runs -> Releases]
      BY <1>0, <1>1, <1>18 DEF CommandFails, Killed, Cut, Pushed
    <2>2. pc' \in [Runs -> {"idle"} \cup Steps \cup Ended]
      BY <1>2, <1>3, <1>18 DEF CommandFails, Killed
    <2> QED
      BY <1>0, <1>18, <2>1, <2>2 DEF CommandFails, Killed, Cut, local
  <1> QED
    BY <1>4, <1>5, <1>6, <1>7, <1>8, <1>9, <1>10, <1>11, <1>12, <1>13, <1>14, <1>15, <1>16,
       <1>17, <1>18 DEF Acts, Step

LEMMA InitTyped == Init => TypeOK
  BY NoneIsRelease, BuilderAssumption DEF Init, TypeOK, Streams

LEMMA TypeStep == TypeOK /\ [Next]_vars => TypeOK'
  <1>1. ASSUME TypeOK, Next PROVE TypeOK'
    <2>1. PICK q \in Runs : Acts(q)
      BY <1>1 DEF Next, Acts
    <2> QED
      BY <1>1, <2>1, LocalTyped, MachineTyped DEF TypeOK, MachineOK
  <1>2. ASSUME TypeOK, UNCHANGED vars PROVE TypeOK'
    BY <1>2 DEF TypeOK, vars, machine, local, history
  <1> QED
    BY <1>1, <1>2

\* Every variable stays in its type, whatever number of runs share the machine and
\* wherever they fail: in particular the files a run rewrites stay files of a release.
THEOREM TypeCorrect == Spec => []TypeOK
  BY InitTyped, TypeStep, PTL DEF Spec

---------------------------------------------------------------------------
(* What a step leaves alone.                                                *)

LEMMA Frame ==
  ASSUME TypeOK, NEW q \in Runs, Acts(q)
  PROVE  /\ \A r \in Runs \ {q} :
               /\ pc'[r] = pc[r] /\ cvo'[r] = cvo[r] /\ files'[r] = files[r]
               /\ want'[r] = want[r] /\ made'[r] = made[r]
               /\ r \in dirs' <=> r \in dirs
         /\ request' = request
         /\ pc'[q] \in Steps \cup Ended
         /\ pc[q] \in {"idle"} \cup Steps
         /\ pc[q] = "idle" => UNCHANGED machine
         /\ disturbed \subseteq disturbed'
  <1> USE DEF Steps, DirSteps, Ended
  <1>0. /\ pc \in [Runs -> {"idle"} \cup Steps \cup Ended]
        /\ cvo \in [Runs -> Pullspecs \cup {"none"}] /\ files \in [Runs -> FileSets]
        /\ want \in [Runs -> Releases] /\ made \in [Runs -> Releases]
    BY DEF TypeOK
  <1>1. ASSUME NEW step \in Steps \cup Ended, Goes(q, step)
        PROVE  pc'[q] \in Steps \cup Ended /\ \A r \in Runs \ {q} : pc'[r] = pc[r]
    BY <1>0, <1>1 DEF Goes
  <1>2. ASSUME Fails(q)
        PROVE  pc'[q] \in Steps \cup Ended /\ \A r \in Runs \ {q} : pc'[r] = pc[r]
    BY <1>0, <1>2 DEF Fails, Goes
  <1>4. CASE Start(q)
    BY <1>0, <1>1, <1>4 DEF Start, local
  <1>5. CASE GetReleaseInfo(q)
    BY <1>0, <1>1, <1>2, <1>5 DEF GetReleaseInfo, history
  <1>6. CASE MkdirTemp(q)
    BY <1>0, <1>1, <1>6 DEF MkdirTemp, history
  <1>7. CASE PullImage(q)
    BY <1>0, <1>1, <1>7 DEF PullImage, local, history
  <1>8. CASE CreateContainer(q)
    BY <1>0, <1>1, <1>2, <1>8 DEF CreateContainer, local, history
  <1>9. CASE CopyFiles(q)
    BY <1>0, <1>1, <1>2, <1>9 DEF CopyFiles, history
  <1>10. CASE DeleteContainer(q)
    BY <1>0, <1>1, <1>2, <1>10 DEF DeleteContainer, local, history
  <1>11. CASE GetTagRefs(q)
    BY <1>0, <1>1, <1>11 DEF GetTagRefs, history
  <1>12. CASE AddTagRefs(q)
    <2>1. \A r \in Runs \ {q} : files'[r] = files[r] /\ pc'[r] = pc[r]
      BY <1>0, <1>12, TagsAdded
    <2>2. pc'[q] \in Steps \cup Ended
      BY <1>0, <1>12, TagsAdded
    <2> QED
      BY <1>0, <1>12, <2>1, <2>2 DEF AddTagRefs, history
  <1>13. CASE ReplaceInRefs(q)
    <2>1. \A r \in Runs \ {q} : files'[r] = files[r]
      BY <1>0, <1>13, RefsReplaced
    <2> QED
      BY <1>0, <1>1, <1>13, <2>1 DEF ReplaceInRefs, history
  <1>14. CASE ReplaceInMeta(q)
    <2>1. \A r \in Runs \ {q} : files'[r] = files[r]
      BY <1>0, <1>14, MetaReplaced
    <2> QED
      BY <1>0, <1>1, <1>14, <2>1 DEF ReplaceInMeta, history
  <1>15. CASE Build(q)
    BY <1>0, <1>1, <1>15 DEF Build, local, history
  <1>16. CASE Push(q)
    BY <1>0, <1>1, <1>16 DEF Push, Pushed, local
  <1>17. CASE RemoveDir(q)
    BY <1>0, <1>1, <1>17 DEF RemoveDir
  <1>18. CASE CommandFails(q) \/ Killed(q)
    <2>1. \A r \in Runs \ {q} : made'[r] = made[r]
      BY <1>0, <1>18 DEF CommandFails, Killed, Cut, Pushed
    <2>2. pc'[q] \in Steps \cup Ended /\ \A r \in Runs \ {q} : pc'[r] = pc[r]
      BY <1>1, <1>2, <1>18 DEF CommandFails, Killed
    <2>3. pc[q] \in Steps
      BY <1>18 DEF CommandFails, Killed
    <2> QED
      BY <1>0, <1>18, <2>1, <2>2, <2>3 DEF CommandFails, Killed, Cut, local
  <1> QED
    BY <1>4, <1>5, <1>6, <1>7, <1>8, <1>9, <1>10, <1>11, <1>12, <1>13, <1>14, <1>15, <1>16,
       <1>17, <1>18 DEF Acts, Step

---------------------------------------------------------------------------
(* The container.                                                           *)

\* A run is at copy after it created the container, and at rm after it copied from one.
LEMMA Entered ==
  ASSUME TypeOK, NEW q \in Runs, Acts(q)
  PROVE  /\ pc'[q] = "copy" => pc[q] = "create" /\ ~NameInUse /\ containers' = {NewContainer(q)}
         /\ pc'[q] = "rm" => pc[q] = "copy" /\ UNCHANGED containers
  <1> USE DEF Goes, Fails, DirSteps, Steps, TypeOK
  <1>1. CASE CreateContainer(q)
    <2>1. CASE NameInUse
      BY <1>1, <2>1 DEF CreateContainer
    <2>2. CASE ~NameInUse
      BY <1>1, <2>2 DEF CreateContainer
    <2> QED
      BY <2>1, <2>2
  <1>2. CASE CopyFiles(q)
    BY <1>2 DEF CopyFiles, machine
  <1>3. CASE AddTagRefs(q)
    <2>1. pc'[q] \in {"removeFailed", "refs"}
      BY <1>3, TagsAdded
    <2> QED
      BY <2>1
  <1>4. CASE Start(q) \/ GetReleaseInfo(q) \/ MkdirTemp(q) \/ PullImage(q) \/ DeleteContainer(q)
             \/ GetTagRefs(q)
    BY <1>4 DEF Start, GetReleaseInfo, MkdirTemp, PullImage, DeleteContainer, GetTagRefs
  <1>5. CASE ReplaceInRefs(q) \/ ReplaceInMeta(q) \/ Build(q) \/ Push(q) \/ RemoveDir(q)
    BY <1>5 DEF ReplaceInRefs, ReplaceInMeta, Build, Push, RemoveDir
  <1>6. CASE CommandFails(q) \/ Killed(q)
    BY <1>6 DEF CommandFails, Killed
  <1> QED
    BY <1>1, <1>2, <1>3, <1>4, <1>5, <1>6 DEF Acts, Step

\* Another run does not touch the container of a run at copy or rm.
LEMMA ContainerKept ==
  ASSUME TypeOK, ContainerIsOwn, NEW q \in Runs, Acts(q), NEW r \in Runs \ {q},
         pc[r] \in {"copy", "rm"}
  PROVE  UNCHANGED containers
  <1>1. containers # {} /\ \A c \in containers : c.by = r
    BY DEF ContainerIsOwn
  <1>2. pc[q] \notin {"copy", "rm"}
    BY <1>1 DEF ContainerIsOwn
  <1> QED
    BY <1>1, <1>2, Effects DEF Effect, machine, NameInUse

LEMMA ContainerStep ==
  ASSUME TypeOK, ContainerIsOwn, NEW q \in Runs, Acts(q)
  PROVE  ContainerIsOwn'
  <1> SUFFICES ASSUME NEW r \in Runs, pc'[r] \in {"copy", "rm"}
               PROVE  containers' # {} /\ \A c \in containers' : c.by = r
    BY DEF ContainerIsOwn
  <1>1. CASE r = q
    <2>1. CASE pc'[q] = "copy"
      <3>1. containers' = {NewContainer(q)}
        BY <2>1, Entered
      <3>2. NewContainer(q).by = q
        BY DEF NewContainer
      <3> QED
        BY <1>1, <3>1, <3>2
    <2>2. CASE pc'[q] = "rm"
      BY <1>1, <2>2, Entered DEF ContainerIsOwn
    <2> QED
      BY <1>1, <2>1, <2>2
  <1>2. CASE r # q
    <2>1. pc[r] \in {"copy", "rm"}
      BY <1>2, Frame
    <2>2. UNCHANGED containers
      BY <1>2, <2>1, ContainerKept
    <2> QED
      BY <2>1, <2>2 DEF ContainerIsOwn
  <1> QED
    BY <1>1, <1>2

\* A run that copies or removes a container does so with the one it created: no other
\* run can have taken the name in between, however commands of others fail.
THEOREM ContainersAreOwn == Spec => []ContainerIsOwn
  <1>1. Init => ContainerIsOwn
    BY DEF Init, ContainerIsOwn
  <1>2. TypeOK /\ ContainerIsOwn /\ [Next]_vars => ContainerIsOwn'
    <2>1. ASSUME TypeOK, ContainerIsOwn, Next PROVE ContainerIsOwn'
      <3>1. PICK q \in Runs : Acts(q)
        BY <2>1 DEF Next, Acts
      <3> QED
        BY <2>1, <3>1, ContainerStep
    <2>2. ASSUME ContainerIsOwn, UNCHANGED vars PROVE ContainerIsOwn'
      BY <2>2 DEF ContainerIsOwn, vars, machine
    <2> QED
      BY <2>1, <2>2
  <1> QED
    BY <1>1, <1>2, TypeCorrect, PTL DEF Spec

---------------------------------------------------------------------------
(* The files of the images and of the working copies.                       *)

LEMMA CountIsNat == ASSUME NEW tags \in Seq(Tags), NEW name PROVE Count(tags, name) \in Nat
  BY FiniteIndexes DEF Count, Indexes

LEMMA OriginalsWhole ==
  ASSUME NEW p \in Pullspecs
  PROVE  WholeImage(Original[p])
  <1> DEFINE f == Original[p].files
  <1> SUFFICES ASSUME Original[p] # NoRelease PROVE WholeFiles(f)
    BY DEF WholeImage
  <1>1. /\ f.origin = p /\ f.refs = 0 /\ f.meta = 0 /\ f.tags \in Seq(Tags)
        /\ \A i, j \in 1..Len(f.tags) :
            f.tags[i].name = f.tags[j].name /\ f.tags[i].name # "other" => i = j
    BY BuilderAssumption DEF Releases, FileSets
  <1>2. Original[f.origin].files = f
    BY <1>1
  <1> HIDE DEF f
  <1>3. OneOs(f.tags)
    BY <1>1 DEF OneOs
  <1>4. ASSUME NEW name
        PROVE  Count(f.tags, name) = Count(Original[f.origin].files.tags, name)
                                     + (IF name \in {"os10", "ext10"} THEN f.meta + 0 ELSE 0)
    <2>1. Count(f.tags, name) \in Nat
      BY <1>1, CountIsNat
    <2>2. (IF name \in {"os10", "ext10"} THEN f.meta + 0 ELSE 0) = 0
      BY <1>1
    <2> QED
      BY <1>2, <2>1, <2>2
  <1> QED
    BY <1>1, <1>3, <1>4 DEF WholeFiles, PairsOf

\* The tags of the original a file set comes from, where it comes from one.
OriginTags(f) == Original[f.origin].files.tags

LEMMA PairAdded ==
  ASSUME NEW f \in FileSets, f = NoFiles \/ WholeFiles(f), f.tags # <<>>,
         NEW a \in Tags, NEW b \in Tags, a.name = "os10", b.name = "ext10",
         NEW new \in Seq(Tags), new = Insert(Marked(f.tags), <<a, b>>), NEW g,
         g = [f EXCEPT !.tags = new]
  PROVE  g.refs = g.meta /\ PairsOf(g, 1)
  <1>1. f.tags \in Seq(Tags) /\ f.meta \in Nat /\ f.refs = f.meta /\ PairsOf(f, 0)
    BY DEF NoFiles, WholeFiles, FileSets
  <1>2. g.tags = new /\ g.origin = f.origin /\ g.refs = f.refs /\ g.meta = f.meta
    BY DEF FileSets
  <1>3. OneOs(g.tags)
    BY <1>1, <1>2, StillOneOs DEF PairsOf
  <1>4. ASSUME NEW name \in CoreOS \cup {"cvo", "other"}
        PROVE  Count(g.tags, name) = Count(OriginTags(g), name)
                                     + (IF name \in {"os10", "ext10"} THEN g.meta + 1 ELSE 0)
    <2>1. Count(new, name) = Count(f.tags, name) + IF name \in {"os10", "ext10"} THEN 1 ELSE 0
      BY <1>1, InsertCounts
    <2>2. Count(f.tags, name) = Count(OriginTags(f), name)
                                + (IF name \in {"os10", "ext10"} THEN f.meta + 0 ELSE 0)
      BY <1>1 DEF PairsOf, OriginTags
    <2>3. OriginTags(g) = OriginTags(f)
      BY <1>2 DEF OriginTags
    <2>4. Count(f.tags, name) \in Nat
      BY <1>1, CountIsNat
    <2> DEFINE o == Count(OriginTags(f), name)
    <2>5. CASE name \in {"os10", "ext10"}
      <3>1. Count(new, name) = Count(f.tags, name) + 1 /\ Count(f.tags, name) = o + f.meta
        BY <1>1, <2>1, <2>2, <2>5
      <3>2. o \in Nat
        <4>1. OriginTags(f) \in Seq(Tags)
          BY <1>1, BuilderAssumption DEF PairsOf, OriginTags, Releases, FileSets
        <4> QED
          BY <4>1, CountIsNat
      <3> HIDE DEF o
      <3>3. Count(new, name) = o + (f.meta + 1)
        BY <1>1, <3>1, <3>2
      <3> QED
        BY <1>2, <2>3, <2>5, <3>3 DEF o
    <2>6. CASE name \notin {"os10", "ext10"}
      <3>1. Count(new, name) = Count(f.tags, name) /\ Count(f.tags, name) = o + 0
        BY <2>1, <2>2, <2>4, <2>6
      <3> QED
        BY <1>2, <2>3, <2>6, <3>1
    <2> QED
      BY <2>5, <2>6
  <1> QED
    BY <1>1, <1>2, <1>3, <1>4 DEF PairsOf, OriginTags

LEMMA VersionFollows ==
  ASSUME NEW f \in FileSets, PairsOf(f, 1), NEW g, g = [f EXCEPT !.meta = f.meta + 1]
  PROVE  PairsOf(g, 0)
  <1> DEFINE n == f.meta + 1
  <1>1. f.meta \in Nat
    BY DEF FileSets
  <1>2. g.tags = f.tags /\ g.origin = f.origin /\ g.meta = n
    BY DEF FileSets
  <1>3. n + 0 = f.meta + 1
    BY <1>1
  <1> QED
    BY <1>2, <1>3 DEF PairsOf

LEMMA ImagesStep ==
  ASSUME TypeOK, ImagesInv, FilesInv, NEW q \in Runs, Acts(q)
  PROVE  ImagesInv'
  <1>0. /\ \A p \in Pullspecs : WholeImage(registry[p]) /\ WholeImage(store[p])
        /\ \A c \in containers : WholeImage(c.image)
        /\ registry \in [Pullspecs -> Releases] /\ store \in [Pullspecs -> Releases]
    BY DEF ImagesInv, TypeOK
  <1>1. request[q].base \in Pullspecs /\ request[q].final \in Pullspecs
    BY RequestOK
  <1>2. Effect(q)
    BY Effects
  <1>3. CASE UNCHANGED machine
    BY <1>0, <1>3 DEF ImagesInv, machine
  <1>4. CASE Pulled(q) /\ UNCHANGED <<registry, containers>>
    BY <1>0, <1>1, <1>4 DEF ImagesInv, Pulled
  <1>5. CASE containers' = {NewContainer(q)} /\ UNCHANGED <<registry, store>>
    <2>1. WholeImage(NewContainer(q).image)
      BY <1>0, <1>1 DEF NewContainer
    <2> QED
      BY <1>0, <1>5, <2>1 DEF ImagesInv
  <1>6. CASE containers' = {} /\ UNCHANGED <<registry, store>>
    BY <1>0, <1>6 DEF ImagesInv
  <1>7. CASE pc[q] = "build" /\ Built(q) /\ UNCHANGED <<registry, containers>>
    <2> DEFINE image == [files |-> files[q], cvo |-> cvo[q]]
    <2>1. WholeImage(image)
      BY <1>7 DEF FilesInv, WholeImage
    <2>2. store' = [store EXCEPT ![request[q].final] = image]
      BY <1>7 DEF Built
    <2> HIDE DEF image
    <2> QED
      BY <1>0, <1>1, <1>7, <2>1, <2>2 DEF ImagesInv
  <1>8. CASE /\ registry' = [registry EXCEPT ![request[q].final] = store[request[q].final]]
             /\ UNCHANGED <<store, containers>>
    BY <1>0, <1>1, <1>8 DEF ImagesInv
  <1> QED
    BY <1>2, <1>3, <1>4, <1>5, <1>6, <1>7, <1>8 DEF Effect

\* The step a run comes to, from the step it was at, and what it did on the way.
LEMMA Progress ==
  ASSUME TypeOK, NEW q \in Runs, Acts(q)
  PROVE  /\ pc'[q] = "rm" => CopyFiles(q)
         /\ pc'[q] = "labels" => DeleteContainer(q)
         /\ pc'[q] = "tags" => GetTagRefs(q)
         /\ pc'[q] = "refs" => AddTagRefs(q)
         /\ pc'[q] = "meta" => ReplaceInRefs(q)
         /\ pc'[q] = "build" => ReplaceInMeta(q)
         /\ pc'[q] = "push" => Build(q)
         /\ pc'[q] = "removeOk" => Push(q)
         /\ pc'[q] = "info" => Start(q)
         /\ pc'[q] = "mkdir" => GetReleaseInfo(q)
         /\ pc'[q] = "pull" => MkdirTemp(q)
         /\ pc'[q] = "create" => PullImage(q)
         /\ pc'[q] = "copy" => CreateContainer(q)
         /\ pc'[q] = "ok" => RemoveDir(q) /\ pc[q] = "removeOk"
  <1> USE DEF Goes, Fails, DirSteps, Steps, TypeOK
  <1>1. CASE AddTagRefs(q)
    <2>1. pc'[q] \in {"removeFailed", "refs"}
      BY <1>1, TagsAdded
    <2> QED
      BY <1>1, <2>1
  <1>2. CASE Start(q) \/ GetReleaseInfo(q) \/ MkdirTemp(q)
    BY <1>2 DEF Start, GetReleaseInfo, MkdirTemp
  <1>3. CASE PullImage(q) \/ CreateContainer(q) \/ CopyFiles(q) \/ DeleteContainer(q)
    BY <1>3 DEF PullImage, CreateContainer, CopyFiles, DeleteContainer
  <1>4. CASE GetTagRefs(q) \/ ReplaceInRefs(q) \/ ReplaceInMeta(q)
    BY <1>4 DEF GetTagRefs, ReplaceInRefs, ReplaceInMeta
  <1>5. CASE Build(q) \/ Push(q) \/ RemoveDir(q)
    BY <1>5 DEF Build, Push, RemoveDir
  <1>6. CASE CommandFails(q) \/ Killed(q)
    BY <1>6 DEF CommandFails, Killed
  <1> QED
    BY <1>1, <1>2, <1>3, <1>4, <1>5, <1>6 DEF Acts, Step

LEMMA FilesStep ==
  ASSUME TypeOK, ImagesInv, FilesInv, NEW q \in Runs, Acts(q)
  PROVE  FilesInv'
  <1> DEFINE Inv(r) ==
        /\ pc[r] \in {"rm", "labels", "tags"} => files[r] = NoFiles \/ WholeFiles(files[r])
        /\ pc[r] = "refs" => files[r].refs = files[r].meta /\ PairsOf(files[r], 1)
        /\ pc[r] = "meta" => files[r].refs = files[r].meta + 1 /\ PairsOf(files[r], 1)
        /\ pc[r] = "build" => WholeFiles(files[r])
  <1>0. files \in [Runs -> FileSets] /\ files[q] \in FileSets
    BY DEF TypeOK
  <1>1. \A r \in Runs : Inv(r)
    BY DEF FilesInv
  <1>2. ASSUME NEW r \in Runs \ {q} PROVE Inv(r)'
    <2>1. pc'[r] = pc[r] /\ files'[r] = files[r]
      BY Frame
    <2> QED
      BY <1>1, <2>1
  <1>3. ASSUME pc'[q] = "rm" PROVE files'[q] = NoFiles \/ WholeFiles(files'[q])
    <2>1. CopyFiles(q) /\ pc[q] = "copy"
      BY <1>3, Progress DEF CopyFiles
    <2>2. containers # {}
      BY <1>0, <1>3, <2>1 DEF CopyFiles, Fails, Goes, DirSteps, TypeOK
    <2>3. PICK c \in containers : files' = [files EXCEPT ![q] = c.image.files]
      BY <2>1, <2>2 DEF CopyFiles
    <2>4. files'[q] = c.image.files
      BY <1>0, <2>3
    <2>5. WholeImage(c.image)
      BY DEF ImagesInv
    <2> QED
      BY <2>4, <2>5 DEF WholeImage, NoRelease
  <1>4. ASSUME pc'[q] = "labels" \/ pc'[q] = "tags"
        PROVE  files'[q] = NoFiles \/ WholeFiles(files'[q])
    <2>1. pc[q] \in {"rm", "labels"} /\ files' = files
      BY <1>4, Progress DEF DeleteContainer, GetTagRefs, local
    <2> QED
      BY <1>1, <2>1
  <1>5. ASSUME pc'[q] = "refs" PROVE files'[q].refs = files'[q].meta /\ PairsOf(files'[q], 1)
    <2>1. AddTagRefs(q)
      BY <1>5, Progress
    <2>2. files[q] = NoFiles \/ WholeFiles(files[q])
      BY <1>1, <2>1 DEF AddTagRefs
    <2>3. PICK new \in Seq(Tags) :
             /\ new = Insert(Marked(files[q].tags), <<Tag10(q), TagExt10>>)
             /\ files' = [files EXCEPT ![q] = [files[q] EXCEPT !.tags = new]]
      BY <1>5, <2>1, TagsAdded DEF TypeOK
    <2>4. Extendable(files[q].tags)
      BY <1>5, <2>1, TagsAdded DEF TypeOK
    <2>5. Tag10(q) \in Tags /\ TagExt10 \in Tags
      BY NewTagsOK
    <2>6. Tag10(q).name = "os10" /\ TagExt10.name = "ext10"
      BY DEF Tag10, TagExt10
    <2>7. files'[q] = [files[q] EXCEPT !.tags = new]
      BY <1>0, <2>3
    <2> QED
      BY <1>0, <2>2, <2>3, <2>4, <2>5, <2>6, <2>7, PairAdded DEF Extendable
  <1>6. ASSUME pc'[q] = "meta" PROVE files'[q].refs = files'[q].meta + 1 /\ PairsOf(files'[q], 1)
    <2>1. ReplaceInRefs(q)
      BY <1>6, Progress
    <2>2. files[q].refs = files[q].meta /\ PairsOf(files[q], 1)
      BY <1>1, <2>1 DEF ReplaceInRefs
    <2>3. PICK n \in Nat :
             /\ n = IF files[q].refs >= files[q].meta THEN files[q].refs + 1 ELSE files[q].refs
             /\ files' = [files EXCEPT ![q] = [files[q] EXCEPT !.refs = n]]
      BY <2>1, RefsReplaced
    <2>4. n = files[q].meta + 1
      BY <1>0, <2>2, <2>3 DEF FileSets
    <2>5. files'[q].refs = n /\ files'[q].meta = files[q].meta
          /\ files'[q].tags = files[q].tags /\ files'[q].origin = files[q].origin
      BY <1>0, <2>3 DEF FileSets
    <2> QED
      BY <2>2, <2>4, <2>5 DEF PairsOf
  <1>7. ASSUME pc'[q] = "build" PROVE WholeFiles(files'[q])
    <2>1. ReplaceInMeta(q)
      BY <1>7, Progress
    <2>2. files[q].refs = files[q].meta + 1 /\ PairsOf(files[q], 1)
      BY <1>1, <2>1 DEF ReplaceInMeta
    <2>3. PICK n \in Nat : /\ n = files[q].meta + 1
                           /\ files' = [files EXCEPT ![q] = [files[q] EXCEPT !.meta = n]]
      BY <2>1, MetaReplaced
    <2>4. files'[q] = [files[q] EXCEPT !.meta = n]
      BY <1>0, <2>3
    <2>5. PairsOf(files'[q], 0)
      BY <1>0, <2>2, <2>3, <2>4, VersionFollows
    <2>6. files'[q].refs = files[q].refs /\ files'[q].meta = n
      BY <1>0, <2>4 DEF FileSets
    <2> QED
      BY <2>2, <2>3, <2>5, <2>6 DEF WholeFiles
  <1>8. Inv(q)'
    BY <1>3, <1>4, <1>5, <1>6, <1>7
  <1>9. \A r \in Runs : Inv(r)'
    BY <1>2, <1>8
  <1> QED
    BY <1>9 DEF FilesInv

\* No failure, kill or overlap leaves an image half rewritten, in the registry, in the
\* image store or in a container: its two versions agree, and it has one pair of RHEL 10
\* tags for each suffix next to all the tags of the original it was made from.
THEOREM ImagesAreWhole == Spec => []EveryImageIsWhole
  <1>1. Init => ImagesInv /\ FilesInv
    <2> SUFFICES ASSUME Init PROVE ImagesInv /\ FilesInv
      OBVIOUS
    <2>1. FilesInv
      BY DEF Init, FilesInv
    <2>2. ImagesInv
      BY OriginalsWhole DEF Init, ImagesInv, WholeImage
    <2> QED
      BY <2>1, <2>2
  <1>2. TypeOK /\ ImagesInv /\ FilesInv /\ [Next]_vars => ImagesInv' /\ FilesInv'
    <2>1. ASSUME TypeOK, ImagesInv, FilesInv, Next PROVE ImagesInv' /\ FilesInv'
      <3>1. PICK q \in Runs : Acts(q)
        BY <2>1 DEF Next, Acts
      <3> QED
        BY <2>1, <3>1, ImagesStep, FilesStep
    <2>2. ASSUME ImagesInv, FilesInv, UNCHANGED vars PROVE ImagesInv' /\ FilesInv'
      BY <2>2 DEF ImagesInv, FilesInv, vars, machine, local
    <2> QED
      BY <2>1, <2>2
  <1>3. TypeOK /\ ImagesInv => EveryImageIsWhole
    <2> SUFFICES ASSUME TypeOK, ImagesInv,
                        NEW rel \in {registry[p] : p \in Pullspecs} \cup {store[p] : p \in Pullspecs}
                                    \cup {c.image : c \in containers},
                        rel # NoRelease
                 PROVE  LET f == rel.files
                            new(name) == IF name \in {"os10", "ext10"} THEN f.meta ELSE 0
                        IN  /\ f.refs = f.meta
                            /\ \A name \in CoreOS \cup {"cvo", "other"} :
                                Count(f.tags, name) =
                                    Count(Original[f.origin].files.tags, name) + new(name)
      BY DEF EveryImageIsWhole
    <2>1. WholeImage(rel) /\ rel \in Releases
      BY DEF ImagesInv, TypeOK
    <2>2. WholeFiles(rel.files) /\ rel.files.meta + 0 = rel.files.meta
      BY <2>1 DEF WholeImage, Releases, FileSets
    <2> QED
      BY <2>2 DEF WholeFiles, PairsOf
  <1> QED
    BY <1>1, <1>2, <1>3, TypeCorrect, PTL DEF Spec

---------------------------------------------------------------------------
(* What a run has in its hands.                                             *)

Clear(r) == Apart(r) \/ r \notin disturbed

LEMMA ClearBefore ==
  ASSUME TypeOK, NEW q \in Runs, Acts(q), NEW r \in Runs, Clear(r)'
  PROVE  Clear(r)
  <1>1. /\ request' = request /\ disturbed \subseteq disturbed' /\ pc'[q] \in Steps \cup Ended
        /\ \A p \in Runs \ {q} : pc'[p] = pc[p]
    BY Frame
  <1>2. pc'[q] # "idle"
    BY <1>1 DEF Steps, DirSteps, Ended
  <1>3. ASSUME Apart(r)' PROVE Apart(r)
    BY <1>1, <1>2, <1>3 DEF Apart
  <1>4. CASE Apart(r)'
    BY <1>3, <1>4 DEF Clear
  <1>5. CASE r \notin disturbed'
    BY <1>1, <1>5 DEF Clear
  <1> QED
    BY <1>4, <1>5 DEF Clear

\* A run that writes apart from another one leaves it what it reads: its base, and the
\* image it built.  It may pull the same base.
LEMMA ApartMachine ==
  ASSUME TypeOK, NEW q \in Runs, Acts(q), pc[q] # "idle", NEW r \in Runs \ {q}, Apart(r)
  PROVE  /\ registry'[request[r].base] = registry[request[r].base]
         /\ store'[request[r].base] \in {store[request[r].base], registry[request[r].base]}
         /\ store'[request[r].final] = store[request[r].final]
  <1> DEFINE base == request[r].base
             final == request[r].final
  <1>0. registry \in [Pullspecs -> Releases] /\ store \in [Pullspecs -> Releases]
    BY DEF TypeOK
  <1>1. /\ request[q].base \in Pullspecs /\ request[q].final \in Pullspecs
        /\ base \in Pullspecs /\ final \in Pullspecs
    BY RequestOK
  <1>2. request[q].final # base /\ request[q].final # final /\ request[q].base # final
    BY DEF Apart
  <1> HIDE DEF base, final
  <1>3. Effect(q)
    BY Effects
  <1>4. CASE UNCHANGED machine
    BY <1>4 DEF machine, base, final
  <1>5. CASE Pulled(q) /\ UNCHANGED <<registry, containers>>
    <2>1. store' = [store EXCEPT ![request[q].base] = registry[request[q].base]]
      BY <1>5 DEF Pulled
    <2> QED
      BY <1>0, <1>1, <1>2, <1>5, <2>1 DEF base, final
  <1>6. CASE UNCHANGED <<registry, store>>
    BY <1>6 DEF base, final
  <1>7. CASE Built(q) /\ UNCHANGED <<registry, containers>>
    BY <1>0, <1>1, <1>2, <1>7 DEF Built, base, final
  <1>8. CASE /\ registry' = [registry EXCEPT ![request[q].final] = store[request[q].final]]
             /\ UNCHANGED <<store, containers>>
    BY <1>0, <1>1, <1>2, <1>8 DEF base, final
  <1> QED
    BY <1>3, <1>4, <1>5, <1>6, <1>7, <1>8 DEF Effect

LEMMA ChainOfOther ==
  ASSUME TypeOK, ContainerIsOwn, ChainInv, TidyInv, NEW q \in Runs, Acts(q),
         NEW r \in Runs \ {q}, Clear(r)'
  PROVE  Chain(r)'
  <1>1. Clear(r) /\ Chain(r)
    BY ClearBefore DEF ChainInv, Clear
  <1>2. /\ pc'[r] = pc[r] /\ cvo'[r] = cvo[r] /\ files'[r] = files[r]
        /\ want'[r] = want[r] /\ made'[r] = made[r] /\ request' = request
        /\ pc[q] \in {"idle"} \cup Steps /\ (pc[q] = "idle" => UNCHANGED machine)
    BY Frame
  <1>3. CASE pc[q] = "idle"
    BY <1>1, <1>2, <1>3 DEF Chain, machine
  <1>4. CASE pc[q] \in Steps /\ r \notin disturbed
    <2>1. pc[r] \notin Steps
      <3>1. Tidy(r) /\ q \in Alive
        BY <1>4 DEF TidyInv, Alive
      <3> QED
        BY <3>1 DEF Tidy
    <2>2. pc[r] \notin AfterInfo \cup {"info", "mkdir", "pull", "create", "copy", "rm", "labels",
                                       "tags", "refs", "meta", "build", "push", "removeOk"}
      BY <2>1 DEF Steps, DirSteps, AfterInfo
    <2> QED
      BY <1>1, <1>2, <2>2 DEF Chain
  <1>5. CASE pc[q] # "idle" /\ Apart(r)
    <2>1. /\ registry'[request[r].base] = registry[request[r].base]
          /\ store'[request[r].base] \in {store[request[r].base], registry[request[r].base]}
          /\ store'[request[r].final] = store[request[r].final]
      BY <1>5, ApartMachine
    <2>2. pc[r] = "copy" => UNCHANGED containers
      BY ContainerKept
    <2> QED
      BY <1>1, <1>2, <2>1, <2>2 DEF Chain
  <1> QED
    BY <1>1, <1>2, <1>3, <1>4, <1>5 DEF Clear, Steps, DirSteps

LEMMA ChainOfOwn ==
  ASSUME TypeOK, FilesInv, ChainInv, NEW q \in Runs, Acts(q), Clear(q)'
  PROVE  Chain(q)'
  <1> DEFINE base == request[q].base
             final == request[q].final
             old == want[q].files
  <1>0. /\ registry \in [Pullspecs -> Releases] /\ store \in [Pullspecs -> Releases]
        /\ cvo \in [Runs -> Pullspecs \cup {"none"}] /\ files \in [Runs -> FileSets]
        /\ files[q] \in FileSets
        /\ want \in [Runs -> Releases] /\ made \in [Runs -> Releases]
        /\ pc \in [Runs -> {"idle"} \cup Steps \cup Ended]
    BY DEF TypeOK
  <1>1. base \in Pullspecs /\ final \in Pullspecs /\ request' = request
    BY RequestOK, Frame
  <1>2. Chain(q)
    BY ClearBefore DEF ChainInv, Clear
  <1>3. pc[q] # "idle" => want' = want
    <2>1. ASSUME ~Start(q) PROVE want' = want
      BY <2>1 DEF Acts, Step, GetReleaseInfo, MkdirTemp, PullImage, CreateContainer, CopyFiles,
         DeleteContainer, GetTagRefs, AddTagRefs, ReplaceInRefs, ReplaceInMeta, Build, Push,
         RemoveDir, CommandFails, Killed, Cut, history
    <2> QED
      BY <2>1 DEF Start
  <1>4. ASSUME pc'[q] = "info" PROVE registry'[base] = want'[q]
    BY <1>0, <1>4, Progress DEF Start, machine
  <1>5. ASSUME pc'[q] = "mkdir"
        PROVE  /\ registry'[base] = want'[q]
               /\ cvo'[q] = want'[q].files.origin /\ "cvo" \in Names(want'[q].files.tags)
    <2>1. GetReleaseInfo(q) /\ pc[q] = "info"
      BY <1>5, Progress DEF GetReleaseInfo
    <2>2. "cvo" \in Names(registry[base].files.tags)
      BY <1>0, <1>5, <2>1 DEF GetReleaseInfo, Fails, Goes, DirSteps
    <2>3. cvo'[q] = registry[base].files.origin /\ registry' = registry
      BY <1>0, <2>1, <2>2 DEF GetReleaseInfo, machine
    <2>4. registry[base] = want[q]
      BY <1>2, <2>1 DEF Chain
    <2> QED
      BY <1>3, <2>1, <2>2, <2>3, <2>4
  <1>6. ASSUME pc'[q] = "pull" PROVE registry'[base] = want'[q] /\ pc[q] = "mkdir" /\ cvo' = cvo
    <2>1. MkdirTemp(q) /\ pc[q] = "mkdir" /\ cvo' = cvo
      BY <1>6, Progress DEF MkdirTemp
    <2> QED
      BY <1>2, <1>3, <2>1 DEF MkdirTemp, machine, Chain
  <1>7. ASSUME pc'[q] = "create"
        PROVE  /\ registry'[base] = want'[q] /\ store'[base] = want'[q]
               /\ pc[q] = "pull" /\ cvo' = cvo
    <2>1. PullImage(q) /\ pc[q] = "pull" /\ cvo' = cvo
      BY <1>7, Progress DEF PullImage, local
    <2> QED
      BY <1>0, <1>1, <1>2, <1>3, <2>1 DEF PullImage, Pulled, Chain
  <1>8. ASSUME pc'[q] = "copy"
        PROVE  (\A c \in containers' : c.image = want'[q]) /\ pc[q] = "create" /\ cvo' = cvo
    <2>1. CreateContainer(q) /\ pc[q] = "create" /\ cvo' = cvo
      BY <1>8, Progress DEF CreateContainer, local
    <2>2. containers' = {NewContainer(q)}
      BY <1>8, Entered
    <2>3. NewContainer(q).image = want[q]
      BY <1>2, <2>1 DEF NewContainer, Chain
    <2> QED
      BY <1>3, <2>1, <2>2, <2>3
  <1>9. ASSUME pc'[q] = "rm" PROVE files'[q] = want'[q].files /\ pc[q] = "copy" /\ cvo' = cvo
    <2>1. CopyFiles(q) /\ pc[q] = "copy" /\ cvo' = cvo
      BY <1>9, Progress DEF CopyFiles
    <2>2. containers # {}
      BY <1>0, <1>9, <2>1 DEF CopyFiles, Fails, Goes, DirSteps
    <2>3. PICK c \in containers : files' = [files EXCEPT ![q] = c.image.files]
      BY <2>1, <2>2 DEF CopyFiles
    <2>4. c.image = want[q]
      BY <1>2, <2>1 DEF Chain
    <2> QED
      BY <1>0, <1>3, <2>1, <2>3, <2>4
  <1>10. ASSUME pc'[q] \in {"labels", "tags"}
         PROVE  files'[q] = want'[q].files /\ pc[q] \in {"rm", "labels"} /\ cvo' = cvo
    <2>1. pc[q] \in {"rm", "labels"} /\ files' = files /\ cvo' = cvo
      BY <1>10, Progress DEF DeleteContainer, GetTagRefs, local
    <2> QED
      BY <1>2, <1>3, <2>1 DEF Chain
  <1>11. ASSUME pc'[q] = "refs"
         PROVE  /\ files'[q].origin = want'[q].files.origin
                /\ Extends(files'[q].tags, want'[q].files.tags)
                /\ files'[q].refs = want'[q].files.refs /\ files'[q].meta = want'[q].files.meta
                /\ pc[q] = "tags" /\ cvo' = cvo
    <2>1. AddTagRefs(q) /\ pc[q] = "tags" /\ cvo' = cvo
      BY <1>11, Progress DEF AddTagRefs
    <2>2. PICK new \in Seq(Tags) :
             /\ new = Insert(Marked(files[q].tags), <<Tag10(q), TagExt10>>)
             /\ files' = [files EXCEPT ![q] = [files[q] EXCEPT !.tags = new]]
      BY <1>0, <1>11, <2>1, TagsAdded
    <2>3. Extendable(files[q].tags)
      BY <1>0, <1>11, <2>1, TagsAdded
    <2>4. files[q].tags \in Seq(Tags) /\ files[q].tags # <<>> /\ OneOs(files[q].tags)
      <3>1. files[q].tags \in Seq(Tags) /\ files[q].tags # <<>>
        BY <1>0, <2>3 DEF Extendable, FileSets
      <3>2. files[q] = NoFiles \/ WholeFiles(files[q])
        BY <2>1 DEF FilesInv
      <3> QED
        BY <3>1, <3>2 DEF NoFiles, WholeFiles, PairsOf
    <2>5. Tag10(q) \in Tags /\ TagExt10 \in Tags /\ Tag10(q).name = "os10" /\ TagExt10.name = "ext10"
      BY NewTagsOK DEF Tag10, TagExt10
    <2>6. Extends(new, files[q].tags)
      BY <2>2, <2>4, <2>5, InsertExtends
    <2>7. files[q] = old
      BY <1>2, <2>1 DEF Chain
    <2>8. /\ files'[q].tags = new /\ files'[q].origin = files[q].origin
          /\ files'[q].refs = files[q].refs /\ files'[q].meta = files[q].meta
      BY <1>0, <2>2 DEF FileSets
    <2> QED
      BY <1>3, <2>1, <2>6, <2>7, <2>8
  <1>12. ASSUME pc'[q] = "meta"
         PROVE  /\ files'[q].origin = want'[q].files.origin
                /\ Extends(files'[q].tags, want'[q].files.tags)
                /\ files'[q].refs = want'[q].files.refs + 1 /\ files'[q].meta = want'[q].files.meta
                /\ pc[q] = "refs" /\ cvo' = cvo
    <2>1. ReplaceInRefs(q) /\ pc[q] = "refs" /\ cvo' = cvo
      BY <1>12, Progress DEF ReplaceInRefs
    <2>2. PICK n \in Nat :
             /\ n = IF files[q].refs >= files[q].meta THEN files[q].refs + 1 ELSE files[q].refs
             /\ files' = [files EXCEPT ![q] = [files[q] EXCEPT !.refs = n]]
      BY <2>1, RefsReplaced
    <2>3. files[q].refs = files[q].meta
      BY <2>1 DEF FilesInv
    <2>4. n = files[q].refs + 1
      BY <1>0, <2>2, <2>3 DEF FileSets
    <2>5. /\ files'[q].tags = files[q].tags /\ files'[q].origin = files[q].origin
          /\ files'[q].refs = n /\ files'[q].meta = files[q].meta
      BY <1>0, <2>2 DEF FileSets
    <2> QED
      BY <1>2, <1>3, <2>1, <2>4, <2>5 DEF Chain
  <1>13. ASSUME pc'[q] = "build"
         PROVE  /\ files'[q].origin = want'[q].files.origin
                /\ Extends(files'[q].tags, want'[q].files.tags)
                /\ files'[q].refs = want'[q].files.refs + 1
                /\ files'[q].meta = want'[q].files.meta + 1
                /\ pc[q] = "meta" /\ cvo' = cvo
    <2>1. ReplaceInMeta(q) /\ pc[q] = "meta" /\ cvo' = cvo
      BY <1>13, Progress DEF ReplaceInMeta
    <2>2. PICK n \in Nat : /\ n = files[q].meta + 1
                           /\ files' = [files EXCEPT ![q] = [files[q] EXCEPT !.meta = n]]
      BY <2>1, MetaReplaced
    <2>3. /\ files'[q].tags = files[q].tags /\ files'[q].origin = files[q].origin
          /\ files'[q].refs = files[q].refs /\ files'[q].meta = n
      BY <1>0, <2>2 DEF FileSets
    <2> QED
      BY <1>2, <1>3, <2>1, <2>2, <2>3 DEF Chain
  <1>14. ASSUME pc'[q] = "push"
         PROVE  IsDualstreamOf(store'[final], want'[q]) /\ pc[q] = "build" /\ cvo' = cvo
    <2> DEFINE image == [files |-> files[q], cvo |-> cvo[q]]
    <2>1. Build(q) /\ pc[q] = "build" /\ cvo' = cvo
      BY <1>14, Progress DEF Build, local
    <2>2. cvo[q] = old.origin
      BY <1>2, <2>1 DEF Chain, AfterInfo, DirSteps
    <2>3. IsDualstreamOf(image, want[q])
      BY <1>2, <2>1, <2>2 DEF Chain, IsDualstreamOf
    <2>4. store' = [store EXCEPT ![final] = image]
      BY <2>1 DEF Build, Built
    <2> HIDE DEF image
    <2> QED
      BY <1>0, <1>1, <1>3, <2>1, <2>3, <2>4
  <1>15. ASSUME pc'[q] = "removeOk" PROVE IsDualstreamOf(made'[q], want'[q])
    <2>1. Push(q) /\ pc[q] = "push"
      BY <1>15, Progress DEF Push
    <2>2. made'[q] = store[final]
      BY <1>0, <2>1 DEF Push, Pushed
    <2> QED
      BY <1>2, <1>3, <2>1, <2>2 DEF Chain
  <1>16. ASSUME pc'[q] = "ok" PROVE IsDualstreamOf(made'[q], want'[q])
    <2>1. RemoveDir(q) /\ pc[q] = "removeOk" /\ made' = made
      BY <1>16, Progress DEF RemoveDir
    <2> QED
      BY <1>2, <1>3, <2>1 DEF Chain
  <1>17. ASSUME pc'[q] \in AfterInfo
         PROVE  cvo'[q] = want'[q].files.origin /\ "cvo" \in Names(want'[q].files.tags)
    <2>1. CASE pc'[q] = "mkdir"
      BY <1>5, <2>1
    <2>2. CASE pc'[q] # "mkdir"
      <3>1. cvo' = cvo /\ pc[q] \in AfterInfo
        BY <1>6, <1>7, <1>8, <1>9, <1>10, <1>11, <1>12, <1>13, <1>14, <1>17, <2>2
           DEF AfterInfo, DirSteps
      <3>2. pc[q] # "idle"
        BY <3>1 DEF AfterInfo, DirSteps
      <3> QED
        BY <1>2, <1>3, <3>1, <3>2 DEF Chain
    <2> QED
      BY <2>1, <2>2
  <1> QED
    BY <1>1, <1>4, <1>5, <1>6, <1>7, <1>8, <1>9, <1>10, <1>11, <1>12, <1>13, <1>14, <1>15, <1>16,
       <1>17 DEF Chain

---------------------------------------------------------------------------
(* A run that nothing disturbs.                                             *)

LEMMA TidyOfOther ==
  ASSUME TypeOK, TidyInv, NEW q \in Runs, Acts(q), NEW r \in Runs \ {q}, r \notin disturbed'
  PROVE  Tidy(r)'
  <1>1. /\ pc'[r] = pc[r] /\ want'[r] = want[r] /\ made'[r] = made[r]
        /\ r \in dirs' <=> r \in dirs
        /\ disturbed \subseteq disturbed' /\ pc[q] \in {"idle"} \cup Steps
    BY Frame
  <1>2. Tidy(r)
    BY <1>1 DEF TidyInv
  <1>3. pc[r] \notin Steps
    <2>1. CASE pc[q] \in Steps
      BY <1>2, <2>1 DEF Tidy, Alive
    <2>2. CASE pc[q] = "idle"
      <3>1. Start(q)
        BY <2>2 DEF Acts, Step, GetReleaseInfo, MkdirTemp, PullImage, CreateContainer, CopyFiles,
           DeleteContainer, GetTagRefs, AddTagRefs, ReplaceInRefs, ReplaceInMeta, Build, Push,
           RemoveDir, CommandFails, Killed, Steps, DirSteps
      <3>2. Alive \subseteq disturbed'
        BY <3>1 DEF Start
      <3> QED
        BY <3>2 DEF Alive
    <2> QED
      BY <1>1, <2>1, <2>2
  <1>4. r \notin dirs /\ \A c \in containers : c.by # r
    BY <1>2, <1>3 DEF Tidy, Steps, DirSteps
  <1>5. \A c \in containers' : c.by # r
    <2>1. containers' \subseteq containers \cup {NewContainer(q)}
      BY Effects DEF Effect, machine
    <2>2. NewContainer(q).by = q
      BY DEF NewContainer
    <2> QED
      BY <1>4, <2>1, <2>2
  <1> QED
    BY <1>1, <1>2, <1>3, <1>4, <1>5 DEF Tidy

LEMMA TidyOfOwn ==
  ASSUME TypeOK, ContainerIsOwn, ChainInv, TidyInv, NEW q \in Runs, Acts(q), q \notin disturbed'
  PROVE  Tidy(q)'
  <1> DEFINE base == request[q].base
  <1>0. /\ pc \in [Runs -> {"idle"} \cup Steps \cup Ended] /\ registry \in [Pullspecs -> Releases]
        /\ want \in [Runs -> Releases] /\ made \in [Runs -> Releases]
    BY DEF TypeOK
  <1>1. /\ disturbed \subseteq disturbed' /\ pc'[q] \in Steps \cup Ended
        /\ \A r \in Runs \ {q} : pc'[r] = pc[r]
    BY Frame
  <1>2. q \notin disturbed /\ Tidy(q) /\ Chain(q)
    BY <1>1 DEF TidyInv, ChainInv
  <1>3. CASE Start(q)
    <2>1. Alive = {} /\ containers = {} /\ UNCHANGED <<machine, local, made>> /\ pc'[q] = "info"
      BY <1>0, <1>3 DEF Start, Goes
    <2>2. Alive' = {q}
      <3>1. \A r \in Runs : r \in Alive' <=> r = q
        BY <1>1, <2>1 DEF Alive, Steps
      <3> QED
        BY <3>1 DEF Alive
    <2>3. q \notin dirs /\ made[q] = NoRelease /\ pc[q] = "idle"
      BY <1>2, <1>3 DEF Tidy, Start, DirSteps
    <2> QED
      BY <2>1, <2>2, <2>3 DEF Tidy, machine, local
  <1>4. CASE CommandFails(q) \/ Killed(q)
    BY <1>4 DEF CommandFails, Killed, Cut
  <1> SUFFICES ASSUME Step(q) PROVE Tidy(q)'
    BY <1>3, <1>4 DEF Acts
  <1> USE DEF Goes, Fails, Steps, DirSteps
  <1>5. pc[q] \in Steps /\ want' = want
    BY DEF Step, GetReleaseInfo, MkdirTemp, PullImage, CreateContainer, CopyFiles,
       DeleteContainer, GetTagRefs, AddTagRefs, ReplaceInRefs, ReplaceInMeta, Build, Push,
       RemoveDir, history
  <1>6. pc'[q] \in Steps => Alive' = {q}
    <2>1. Alive = {q}
      BY <1>2, <1>5 DEF Tidy
    <2>2. ASSUME pc'[q] \in Steps PROVE \A r \in Runs : r \in Alive' <=> r = q
      BY <1>1, <2>1, <2>2 DEF Alive
    <2> QED
      BY <2>2 DEF Alive
  <1>7. /\ pc[q] \in Steps \ {"copy", "rm"} => containers = {}
        /\ q \in dirs => pc[q] \in DirSteps
        /\ pc[q] = "removeFailed" => ~Buildable(want[q])
        /\ pc[q] \in {"refs", "meta", "build", "push", "removeOk"} => Buildable(want[q])
        /\ pc[q] # "removeOk" => made[q] = NoRelease
    BY <1>2, <1>5 DEF Tidy
  <1>8. CASE GetReleaseInfo(q)
    <2>1. pc[q] = "info" /\ registry[base] = want[q]
      BY <1>2, <1>8 DEF GetReleaseInfo, Chain
    <2>2. UNCHANGED <<containers, dirs, made>>
      BY <1>8 DEF GetReleaseInfo, machine, history
    <2>3. CASE "cvo" \in Names(want[q].files.tags)
      <3>1. pc'[q] = "mkdir"
        BY <1>0, <1>8, <2>1, <2>3 DEF GetReleaseInfo
      <3> QED
        BY <1>6, <1>7, <2>1, <2>2, <3>1 DEF Tidy
    <2>4. CASE "cvo" \notin Names(want[q].files.tags)
      <3>1. pc'[q] = "failed"
        BY <1>0, <1>8, <2>1, <2>4 DEF GetReleaseInfo
      <3>2. ~Buildable(want'[q])
        BY <1>5, <2>4 DEF Buildable
      <3> QED
        BY <1>7, <2>1, <2>2, <3>1, <3>2 DEF Tidy
    <2> QED
      BY <2>3, <2>4
  <1>9. CASE MkdirTemp(q) \/ PullImage(q) \/ GetTagRefs(q)
    <2>1. /\ pc[q] \in {"mkdir", "pull", "labels"} /\ pc'[q] \in {"pull", "create", "tags"}
          /\ UNCHANGED <<containers, made>>
      BY <1>0, <1>9 DEF MkdirTemp, PullImage, GetTagRefs, machine, history
    <2> QED
      BY <1>6, <1>7, <2>1 DEF Tidy
  <1>10. CASE CreateContainer(q)
    <2>1. pc[q] = "create" /\ UNCHANGED made
      BY <1>10 DEF CreateContainer, history
    <2>2. ~NameInUse
      BY <1>7, <2>1 DEF NameInUse
    <2>3. pc'[q] = "copy"
      BY <1>0, <1>10, <2>1, <2>2 DEF CreateContainer
    <2> QED
      BY <1>6, <1>7, <2>1, <2>3 DEF Tidy
  <1>11. CASE CopyFiles(q)
    <2>1. pc[q] = "copy" /\ UNCHANGED made
      BY <1>11 DEF CopyFiles, history
    <2>2. containers # {}
      BY <2>1 DEF ContainerIsOwn
    <2>3. pc'[q] = "rm"
      BY <1>0, <1>11, <2>1, <2>2 DEF CopyFiles
    <2> QED
      BY <1>6, <1>7, <2>1, <2>3 DEF Tidy
  <1>12. CASE DeleteContainer(q)
    <2>1. pc[q] = "rm" /\ UNCHANGED made /\ containers' = {}
      BY <1>12 DEF DeleteContainer, history
    <2>2. containers # {}
      BY <2>1 DEF ContainerIsOwn
    <2>3. pc'[q] = "labels"
      BY <1>0, <1>12, <2>1, <2>2 DEF DeleteContainer
    <2> QED
      BY <1>6, <1>7, <2>1, <2>3 DEF Tidy
  <1>13. CASE AddTagRefs(q)
    <2>1. pc[q] = "tags" /\ UNCHANGED <<containers, dirs, made>>
      BY <1>13 DEF AddTagRefs, machine, history
    <2>2. files[q] = want[q].files /\ "cvo" \in Names(want[q].files.tags)
      BY <1>2, <2>1 DEF Chain, AfterInfo
    <2>3. Extendable(want[q].files.tags) <=> Buildable(want[q])
      <3>1. want[q].files.tags \in Seq(Tags)
        BY <1>0 DEF Releases, FileSets
      <3>2. want[q].files.tags # <<>>
        BY <2>2, <3>1 DEF Names
      <3> QED
        BY <2>2, <3>2 DEF Extendable, Buildable
    <2>4. CASE Extendable(files[q].tags)
      <3>1. pc'[q] = "refs"
        BY <1>0, <1>13, <2>4, TagsAdded
      <3> QED
        BY <1>5, <1>6, <1>7, <2>1, <2>2, <2>3, <2>4, <3>1 DEF Tidy
    <2>5. CASE ~Extendable(files[q].tags)
      <3>1. pc'[q] = "removeFailed"
        BY <1>0, <1>13, <2>5, TagsAdded
      <3> QED
        BY <1>5, <1>6, <1>7, <2>1, <2>2, <2>3, <2>5, <3>1 DEF Tidy
    <2> QED
      BY <2>4, <2>5
  <1>14. CASE ReplaceInRefs(q) \/ ReplaceInMeta(q) \/ Build(q)
    <2>1. /\ pc[q] \in {"refs", "meta", "build"} /\ pc'[q] \in {"meta", "build", "push"}
          /\ UNCHANGED <<containers, made>>
      BY <1>0, <1>14 DEF ReplaceInRefs, ReplaceInMeta, Build, machine, history
    <2> QED
      BY <1>5, <1>6, <1>7, <2>1 DEF Tidy
  <1>15. CASE Push(q)
    <2>1. pc[q] = "push" /\ pc'[q] = "removeOk" /\ UNCHANGED containers
      BY <1>0, <1>15 DEF Push
    <2> QED
      BY <1>5, <1>6, <1>7, <2>1 DEF Tidy
  <1>16. CASE RemoveDir(q)
    <2>1. dirs' = dirs \ {q} /\ UNCHANGED <<containers, made>>
      BY <1>16 DEF RemoveDir, machine
    <2>2. CASE pc[q] = "removeOk"
      <3>1. pc'[q] = "ok"
        BY <1>0, <1>16, <2>2 DEF RemoveDir
      <3> QED
        BY <1>5, <1>7, <2>1, <2>2, <3>1 DEF Tidy
    <2>3. CASE pc[q] = "removeFailed"
      <3>1. pc'[q] = "failed"
        BY <1>0, <1>16, <2>3 DEF RemoveDir
      <3> QED
        BY <1>5, <1>7, <2>1, <2>3, <3>1 DEF Tidy
    <2> QED
      BY <1>16, <2>2, <2>3 DEF RemoveDir
  <1> QED
    BY <1>8, <1>9, <1>10, <1>11, <1>12, <1>13, <1>14, <1>15, <1>16 DEF Step

---------------------------------------------------------------------------
(* The invariant, and what follows from it.                                 *)

LEMMA InitIInv == Init => IInv
  <1> SUFFICES ASSUME Init PROVE IInv
    OBVIOUS
  <1>1. \A r \in Runs : pc[r] = "idle" /\ made[r] = NoRelease
    BY DEF Init
  <1>2. TypeOK
    BY InitTyped
  <1>3. ContainerIsOwn /\ FilesInv
    BY <1>1 DEF ContainerIsOwn, FilesInv
  <1>4. ImagesInv
    BY OriginalsWhole DEF Init, ImagesInv, WholeImage
  <1>5. ChainInv
    BY <1>1 DEF ChainInv, Chain, AfterInfo, DirSteps
  <1>6. TidyInv
    BY <1>1 DEF TidyInv, Tidy, Init, Steps, DirSteps
  <1> QED
    BY <1>2, <1>3, <1>4, <1>5, <1>6 DEF IInv

LEMMA StepIInv == IInv /\ [Next]_vars => IInv'
  <1>1. ASSUME IInv, NEW q \in Runs, Acts(q) PROVE IInv'
    <2>0. TypeOK /\ ContainerIsOwn /\ ImagesInv /\ FilesInv /\ ChainInv /\ TidyInv
      BY <1>1 DEF IInv
    <2>1. TypeOK' /\ ContainerIsOwn' /\ ImagesInv' /\ FilesInv'
      <3>1. TypeOK'
        BY <1>1, <2>0, LocalTyped, MachineTyped DEF TypeOK, MachineOK
      <3> QED
        BY <1>1, <2>0, <3>1, ContainerStep, ImagesStep, FilesStep
    <2>2. ChainInv'
      <3>1. ASSUME NEW r \in Runs, Clear(r)' PROVE Chain(r)'
        BY <1>1, <2>0, <3>1, ChainOfOther, ChainOfOwn
      <3> QED
        BY <3>1 DEF ChainInv, Clear
    <2>3. TidyInv'
      <3>1. ASSUME NEW r \in Runs, r \notin disturbed' PROVE Tidy(r)'
        BY <1>1, <2>0, <3>1, TidyOfOther, TidyOfOwn
      <3> QED
        BY <3>1 DEF TidyInv
    <2> QED
      BY <2>1, <2>2, <2>3 DEF IInv
  <1>2. ASSUME IInv, UNCHANGED vars PROVE IInv'
    BY <1>2 DEF IInv, TypeOK, ContainerIsOwn, ImagesInv, FilesInv, ChainInv, Apart, Chain, TidyInv,
       Tidy, Alive, vars, machine, local, history
  <1> QED
    BY <1>1, <1>2 DEF Next, Acts

THEOREM Invariance == Spec => []IInv
  BY InitIInv, StepIInv, PTL DEF Spec

\* A run that nothing disturbed publishes the dualstream release of its base, or fails
\* because its base has no tags to extend, and leaves no directory and no container.
THEOREM UndisturbedRunsPublish == Spec => []UndisturbedRunPublishes
  <1>1. IInv => UndisturbedRunPublishes
    <2> SUFFICES ASSUME IInv, NEW r \in Runs, pc[r] \in Ended, r \notin disturbed
                 PROVE  /\ r \notin dirs /\ \A c \in containers : c.by # r
                        /\ IF Buildable(want[r])
                           THEN pc[r] = "ok" /\ IsDualstreamOf(made[r], want[r])
                           ELSE pc[r] = "failed" /\ made[r] = NoRelease
      BY DEF UndisturbedRunPublishes
    <2>1. Tidy(r) /\ Chain(r)
      BY DEF IInv, TidyInv, ChainInv
    <2>2. r \notin dirs /\ \A c \in containers : c.by # r
      BY <2>1 DEF Tidy, DirSteps, Ended
    <2>3. pc[r] \in {"ok", "failed"}
      BY <2>1 DEF Tidy, Ended
    <2>4. ASSUME pc[r] = "ok" PROVE Buildable(want[r]) /\ IsDualstreamOf(made[r], want[r])
      BY <2>1, <2>4 DEF Tidy, Chain
    <2>5. ASSUME pc[r] = "failed" PROVE ~Buildable(want[r]) /\ made[r] = NoRelease
      BY <2>1, <2>5 DEF Tidy
    <2> QED
      BY <2>2, <2>3, <2>4, <2>5
  <1> QED
    BY <1>1, Invariance, PTL

\* A run that reports success has pushed the dualstream release of its base, as it was
\* when the run started, whatever failed and however many runs shared the machine, as
\* long as no other run wrote its base or its final pullspec or pulled the latter.
THEOREM SuccessesAreOwnWork == Spec => []SuccessIsOwnWork
  <1>1. IInv => SuccessIsOwnWork
    <2> SUFFICES ASSUME IInv, NEW r \in Runs, pc[r] = "ok", Apart(r)
                 PROVE  IsDualstreamOf(made[r], want[r])
      BY DEF SuccessIsOwnWork, Apart
    <2> QED
      BY DEF IInv, ChainInv, Chain
  <1> QED
    BY <1>1, Invariance, PTL
=============================================================================
