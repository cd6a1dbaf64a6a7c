-------------------------- MODULE RaftClusterProofs --------------------------
(***************************************************************************)
(* Proofs about RaftCluster, for every number of members, of writes, of    *)
(* terms and of restarts: its types, and that every member's storage is    *)
(* always in good shape.                                                   *)
(*                                                                         *)
(* All that a member's loop does goes through one turn.  The lemma         *)
(* TurnIsSound says what a turn makes of a member whose raft-rs side hands *)
(* it a sound Ready; the proof about an action is then that the Ready it   *)
(* makes up is sound.                                                      *)
(***************************************************************************)
EXTENDS RaftCluster, MemRaftStorageProofs, FiniteSetTheorems, WellFoundedInduction

\* The indices a log holds, and the entry at one of them.
Held(c)  == c.offset .. last_index(c)
At(c, j) == c.entries[j - c.offset + 1]

\* A member between two turns.
Settled(nd) ==
    /\ nd \in NodeType
    /\ Good(Data, SnapData, nd.core)
    /\ nd.core.offset <= nd.commit /\ nd.commit <= last_index(nd.core)
    /\ nd.core.hs = HardState(nd.term, nd.vote, nd.commit)
    /\ nd.applied <= nd.commit

(***************************************************************************)
(* A Ready that keeps raft-rs's promises to a Storage: one entry that      *)
(* starts above what is committed and leaves no gap, or none, or a         *)
(* snapshot above what is committed; and a commit index that never goes    *)
(* back nor passes the end of the log.                                     *)
(***************************************************************************)
SoundReady(x) ==
    LET nd == x[1]  ents == x[2]  snap == x[3]  c == nd.core IN
    /\ nd \in NodeType
    /\ Good(Data, SnapData, c)
    /\ c.offset <= c.hs.commit /\ c.hs.commit <= last_index(c)
    /\ nd.applied <= c.hs.commit /\ c.hs.commit <= nd.commit
    /\ \/ /\ snap = NoSnapshot /\ ents = <<>>
          /\ nd.commit <= last_index(c)
       \/ /\ snap = NoSnapshot
          /\ \E e \in EntryType(Data) :
               /\ ents = <<e>>
               /\ c.hs.commit < e.index /\ e.index <= last_index(c) + 1
               /\ nd.commit <= e.index
       \/ /\ ents = <<>>
          /\ snap \in SnapType(SnapData)
          /\ snap.index = nd.commit /\ c.hs.commit < snap.index

\* What a turn makes of the log: it becomes the snapshot's, or it keeps its
\* entries, from some index on, up to the new one.
LogAfter(c, ents, snap, d) ==
    IF snap.index # 0
    THEN d.offset = snap.index /\ last_index(d) = snap.index /\ At(d, snap.index).term = snap.term
    ELSE /\ c.offset <= d.offset
         /\ last_index(d) = IF ents = <<>> THEN last_index(c) ELSE ents[1].index
         /\ \A j \in Held(d) : IF ents # <<>> /\ j = ents[1].index THEN At(d, j) = ents[1]
                               ELSE j \in Held(c) /\ At(d, j) = At(c, j)

\* A member after its turn.
After(x) == TriggerSnapshot(Turn(x[1], x[3], Persist(x[1], x[2], x[3])))

\* The entries it applied in its turn.
Applied(x) == AppliedNow(x[1], x[3], Persist(x[1], x[2], x[3]))
-----------------------------------------------------------------------------
\* A finite set of integers that is not empty has a greatest element.
LEMMA MaxExists ==
    ASSUME NEW S \in SUBSET Int, IsFiniteSet(S), S # {}
    PROVE  Max(S) \in S /\ \A j \in S : j <= Max(S)
<1> DEFINE Above(i) == {j \in S : j > i}
           T == {Above(i) : i \in S}
<1>1. T \subseteq FiniteSubsetsOf(S)
    BY FS_Subset DEF FiniteSubsetsOf
<1>2. PICK x \in T : \A y \in T : ~(<<y, x>> \in StrictSubsetOrdering(S))
    <2>1. T # {}
        OBVIOUS
    <2> HIDE DEF T
    <2>2. QED BY <1>1, <2>1, WFMin, FS_StrictSubsetOrderingWellFounded
<1>3. PICK i \in S : x = Above(i)
    BY <1>2
<1>4. \A j \in S : ~(j > i)
    <2> SUFFICES ASSUME NEW j \in S, j > i PROVE FALSE
        OBVIOUS
    <2>1. Above(j) \in T /\ j \in Above(i) /\ j \notin Above(j)
        OBVIOUS
    <2>2. Above(j) \subseteq Above(i) /\ Above(j) # Above(i)
        <3>1. \A k \in S : k > j => k > i
            BY S \subseteq Int
        <3>2. Above(j) \subseteq Above(i)
            BY <3>1
        <3>3. QED BY <2>1, <3>2
    <2>3. <<Above(j), Above(i)>> \in StrictSubsetOrdering(S)
        BY <2>2 DEF StrictSubsetOrdering
    <2>4. QED BY <1>2, <1>3, <2>1, <2>3
<1>5. \E k \in S : \A j \in S : k >= j
    BY <1>4
<1>6. QED BY <1>5 DEF Max

\* The fields of a member.
LEMMA NodeParts ==
    ASSUME NEW nd \in NodeType
    PROVE  /\ nd.role \in {"follower", "candidate", "leader"} /\ nd.term \in Nat
           /\ nd.vote \in 0..N /\ nd.commit \in Nat /\ nd.lead \in 0..N
           /\ nd.votes \subseteq Node /\ nd.asked \subseteq Node
           /\ nd.matched \in [Node -> Nat] /\ nd.transferring \in BOOLEAN
           /\ nd.core \in CoreType(Data, SnapData) /\ nd.applied \in Nat
           /\ nd.store \in Stores /\ nd.seen \in Nat /\ nd.vote \in Nat
BY MembersAssumption DEF NodeType

\* The numbers of a good log, as integers for the arithmetic.
LEMMA LogNumbers ==
    ASSUME NEW c, Good(Data, SnapData, c)
    PROVE  /\ c.offset \in Nat /\ last_index(c) \in Nat /\ c.hs.commit \in Nat
           /\ c.offset <= last_index(c)
           /\ Len(c.entries) = last_index(c) - c.offset + 1
           /\ Len(c.entries) \in Nat \ {0}
           /\ \A j \in Held(c) : /\ At(c, j) \in EntryType(Data) /\ At(c, j).index = j
                                 /\ term(c, j) = At(c, j).term
<1>1. /\ Len(c.entries) \in Nat \ {0} /\ c.offset \in Nat
      /\ last_index(c) = c.offset + Len(c.entries) - 1 /\ last_index(c) \in Nat
      /\ c.offset <= last_index(c) /\ c.hs.commit \in Nat
      /\ \A k \in 1..Len(c.entries) : c.entries[k] \in EntryType(Data)
    BY LastIndex, CoreParts DEF Good
<1>2. ASSUME NEW j \in Held(c)
      PROVE  /\ At(c, j) \in EntryType(Data) /\ At(c, j).index = j
             /\ term(c, j) = At(c, j).term
    <2>1. j - c.offset + 1 \in 1..Len(c.entries) /\ term(c, j) = At(c, j).term
        BY TermReadsLog DEF Held, At
    <2>2. c.entries[j - c.offset + 1].index = c.offset + (j - c.offset + 1) - 1
        BY <2>1 DEF Good, IsContiguous
    <2>3. j \in Int
        BY <1>1 DEF Held
    <2>4. QED BY <1>1, <2>1, <2>2, <2>3, SMTT(30) DEF At
<1>3. QED BY <1>1, <1>2

\* The n entries from index lo on, one by one.
LEMMA EntriesOneByOne ==
    ASSUME NEW c, Good(Data, SnapData, c), NEW lo \in Nat, NEW n \in Nat,
           c.offset <= lo, lo + n <= last_index(c) + 1
    PROVE  LET es == EntriesFrom(c, lo, lo + n) IN
           /\ es \in Seq(EntryType(Data)) /\ Len(es) = n /\ DOMAIN es = 1..n
           /\ \A k \in 1..n : es[k] = At(c, lo + k - 1)
<1>1. PICK o \in Nat, m \in Nat, l \in Nat :
         o = c.offset /\ m = Len(c.entries) /\ l = last_index(c)
    BY LogNumbers
<1>2. m = l - o + 1 /\ o <= lo /\ lo + n <= l + 1
    BY <1>1, LogNumbers
<1>3. \A k \in 1..m : c.entries[k] \in EntryType(Data)
    BY <1>1, CoreParts DEF Good
<1>4. PICK a \in Int, b \in Int : a = lo - o + 1 /\ b = lo + n - o
    OBVIOUS
<1>5. /\ \A k \in a..b : k \in 1..m
      /\ (IF a <= b THEN b - a + 1 ELSE 0) = n
      /\ b - a + 1 = n
    BY <1>2, <1>4
<1> DEFINE es == EntriesFrom(c, lo, lo + n)
           ss == SubSeq(c.entries, a, b)
<1>6. es = ss
    <2>1. Relative(c, lo) = a /\ Relative(c, lo + n) - 1 = b
        BY <1>1, <1>2, <1>4 DEF Relative
    <2>2. QED BY <2>1 DEF EntriesFrom
<1>7. \A k \in a..b : c.entries[k] \in EntryType(Data)
    BY <1>3, <1>5
<1>8. /\ ss \in Seq(EntryType(Data))
      /\ Len(ss) = IF a <= b THEN b - a + 1 ELSE 0
      /\ \A k \in 1..(b - a + 1) : ss[k] = c.entries[a + k - 1]
    BY <1>7, SubSeqProperties
<1> HIDE DEF ss, es
<1>9. /\ es \in Seq(EntryType(Data)) /\ Len(es) = n
      /\ \A k \in 1..n : es[k] = c.entries[a + k - 1]
    BY <1>5, <1>6, <1>8
<1>10. ASSUME NEW k \in 1..n PROVE es[k] = At(c, lo + k - 1)
    <2>1. a + k - 1 = lo + k - 1 - o + 1 /\ lo + k - 1 - o + 1 = (lo + k - 1) - c.offset + 1
        BY <1>1, <1>2, <1>4
    <2>2. es[k] = c.entries[(lo + k - 1) - c.offset + 1]
        BY <1>9, <2>1
    <2>3. QED BY <2>2 DEF At
<1>11. DOMAIN es = 1..n
    BY <1>9, LenProperties
<1>12. QED BY <1>9, <1>10, <1>11 DEF es

\* One entry of a log, as an append message carries it.
LEMMA OneEntry ==
    ASSUME NEW c, Good(Data, SnapData, c), NEW p \in Nat,
           c.offset <= p, p < last_index(c)
    PROVE  EntriesFrom(c, p + 1, p + 2) = <<At(c, p + 1)>> /\ p + 1 \in Held(c)
<1> DEFINE es == EntriesFrom(c, p + 1, (p + 1) + 1)
<1>1. /\ c.offset \in Nat /\ last_index(c) \in Nat
      /\ \A j \in Held(c) : At(c, j) \in EntryType(Data)
    BY LogNumbers
<1>2. p + 1 \in Nat /\ c.offset <= p + 1 /\ (p + 1) + 1 <= last_index(c) + 1
    BY <1>1
<1>3. /\ es \in Seq(EntryType(Data)) /\ Len(es) = 1
      /\ \A k \in 1..1 : es[k] = At(c, (p + 1) + k - 1)
    <2>1. PICK a \in Nat, n \in Nat : a = p + 1 /\ n = 1
        BY <1>2
    <2>2. /\ EntriesFrom(c, a, a + n) \in Seq(EntryType(Data))
          /\ Len(EntriesFrom(c, a, a + n)) = n
          /\ \A k \in 1..n : EntriesFrom(c, a, a + n)[k] = At(c, a + k - 1)
        <3>1. c.offset <= a /\ a + n <= last_index(c) + 1
            BY <2>1, <1>2
        <3>2. QED BY <3>1, EntriesOneByOne
    <2>3. QED BY <2>1, <2>2
<1> HIDE DEF es
<1>4. es[1] = At(c, p + 1)
    <2>1. (p + 1) + 1 - 1 = p + 1
        OBVIOUS
    <2>2. QED BY <1>3, <2>1
<1>5. es = <<At(c, p + 1)>>
    <2>1. <<es[1]>> \in Seq(EntryType(Data)) /\ Len(<<es[1]>>) = 1
        BY <1>3, <1>4, SMTT(30)
    <2>2. \A k \in 1..1 : es[k] = <<es[1]>>[k]
        OBVIOUS
    <2>3. es = <<es[1]>>
        BY <1>3, <2>1, <2>2, SeqEqual
    <2>4. QED BY <1>4, <2>3
<1>6. (p + 1) + 1 = p + 2
    OBVIOUS
<1>7. QED BY <1>1, <1>2, <1>5, <1>6 DEF es, Held

\* A Ready that is sound, field by field.
LEMMA SoundParts ==
    ASSUME NEW x, SoundReady(x)
    PROVE  /\ x[1] \in NodeType
           /\ Good(Data, SnapData, x[1].core)
           /\ x[1].core.offset <= x[1].core.hs.commit
           /\ x[1].core.hs.commit <= last_index(x[1].core)
           /\ x[1].applied <= x[1].core.hs.commit /\ x[1].core.hs.commit <= x[1].commit
BY DEF SoundReady

\* Persisting a sound Ready (node.rs, steps 1 and 2).
LEMMA PersistIsSound ==
    ASSUME NEW x, SoundReady(x), NEW d, d = Persist(x[1], x[2], x[3])
    PROVE  /\ Good(Data, SnapData, d)
           /\ d.hs = HardState(x[1].term, x[1].vote, x[1].commit)
           /\ d.offset <= (IF x[3].index = 0 THEN x[1].core.hs.commit ELSE x[3].index)
           /\ (IF x[3].index = 0 THEN x[1].core.hs.commit ELSE x[3].index) <= x[1].commit
           /\ x[1].commit <= last_index(d)
           /\ LogAfter(x[1].core, x[2], x[3], d)
<1> DEFINE nd == x[1]
           c == nd.core
           h == HardState(nd.term, nd.vote, nd.commit)
           b == set_hard_state(c, h)
<1>1. /\ nd \in NodeType /\ Good(Data, SnapData, c)
      /\ c.offset <= c.hs.commit /\ c.hs.commit <= last_index(c)
      /\ c.hs.commit <= nd.commit
    BY SoundParts
<1>2. /\ c.offset \in Nat /\ last_index(c) \in Nat /\ c.hs.commit \in Nat
      /\ nd.term \in Nat /\ nd.vote \in Nat /\ nd.commit \in Nat
    BY <1>1, LogNumbers, NodeParts
<1>3. h \in HsType
    BY <1>2 DEF HardState, HsType
<1>4. /\ Good(Data, SnapData, b) /\ b.offset = c.offset /\ b.entries = c.entries
      /\ b.hs = h /\ last_index(b) = last_index(c)
    BY <1>1, <1>3, SetHardStateKeepsLog
<1>5. d = IF x[3].index = 0 THEN AppendEntries(b, x[2])
          ELSE apply_snapshot(AppendEntries(b, x[2]), x[3])
    BY DEF Persist
<1> HIDE DEF b, h
<1>6. NoSnapshot.index = 0
    BY DEF NoSnapshot, Snapshot
<1>7. CASE x[3] = NoSnapshot /\ x[2] = <<>> /\ nd.commit <= last_index(c)
    <2>1. d = b
        BY <1>5, <1>6, <1>7 DEF AppendEntries
    <2>2. LogAfter(c, x[2], x[3], d)
        BY <2>1, <1>2, <1>4, <1>6, <1>7 DEF LogAfter, Held, At
    <2>3. QED BY <2>1, <2>2, <1>1, <1>4, <1>6, <1>7 DEF h
<1>8. ASSUME x[3] = NoSnapshot, NEW e \in EntryType(Data), x[2] = <<e>>,
             c.hs.commit < e.index, e.index <= last_index(c) + 1, nd.commit <= e.index
      PROVE  /\ Good(Data, SnapData, d) /\ d.hs = h
             /\ d.offset <= c.hs.commit /\ nd.commit <= last_index(d)
             /\ LogAfter(c, x[2], x[3], d)
    <2>1. /\ x[2] \in Seq(EntryType(Data)) /\ Len(x[2]) = 1 /\ x[2][1] = e
          /\ x[2] # <<>> /\ e.index \in Nat
        BY <1>8 DEF EntryType
    <2>2. d = AppendEntries(b, x[2])
        BY <1>5, <1>6, <1>8
    <2>3. /\ \A j \in 1..1 : x[2][j].index = e.index + j - 1
          /\ b.offset < e.index /\ e.index <= last_index(b) + 1
        BY <2>1, <1>1, <1>2, <1>4, <1>8
    <2>4. /\ Good(Data, SnapData, d) /\ d.offset = b.offset /\ d.hs = b.hs
          /\ last_index(d) = IF 1 = 0 THEN last_index(b) ELSE e.index + 1 - 1
          /\ \A i \in 1..(e.index - b.offset) : d.entries[i] = b.entries[i]
          /\ \A j \in 1..1 : d.entries[e.index - b.offset + j] = x[2][j]
        BY <2>1, <2>2, <2>3, <1>4, AppendReplacesTail, SMTT(30)
    <2>5. last_index(d) = e.index /\ d.offset = c.offset /\ d.hs = h
        BY <2>1, <2>4, <1>4
    <2>6. At(d, e.index) = e
        BY <2>1, <2>4, <2>5, <1>4 DEF At
    <2>7. ASSUME NEW j \in Held(d), j # e.index
          PROVE  j \in Held(c) /\ At(d, j) = At(c, j)
        <3>1. PICK o \in Nat, l \in Nat, k \in Nat :
                 o = c.offset /\ l = last_index(c) /\ k = e.index
            BY <1>2, <2>1
        <3>2. j \in o..k /\ j # k /\ k <= l + 1 /\ o < k
            BY <2>7, <2>5, <2>3, <1>4, <1>8, <3>1 DEF Held
        <3>3. j \in o..l /\ j - o + 1 \in 1..(k - o)
            BY <3>2
        <3>4. d.entries[j - o + 1] = c.entries[j - o + 1]
            BY <2>4, <1>4, <3>1, <3>3
        <3>5. QED BY <3>1, <3>3, <3>4, <2>5 DEF Held, At
    <2>8. LogAfter(c, x[2], x[3], d)
        BY <2>1, <2>5, <2>6, <2>7, <1>2, <1>6, <1>8 DEF LogAfter
    <2>9. QED BY <2>4, <2>5, <2>8, <1>1, <1>8
<1>9. CASE /\ x[2] = <<>> /\ x[3] \in SnapType(SnapData)
           /\ x[3].index = nd.commit /\ c.hs.commit < x[3].index
    <2>1. x[3].index # 0 /\ b.offset < x[3].index
        BY <1>9, <1>1, <1>2, <1>4
    <2>2. d = apply_snapshot(b, x[3])
        BY <2>1, <1>5, <1>9 DEF AppendEntries
    <2>3. /\ Good(Data, SnapData, d) /\ d.offset = x[3].index /\ last_index(d) = x[3].index
          /\ d.hs = h /\ term(d, x[3].index) = x[3].term
        BY <2>1, <2>2, <1>4, <1>9, ApplySnapshotReplacesLog
    <2>4. At(d, x[3].index).term = x[3].term
        BY <2>3, LogNumbers DEF Held
    <2>5. QED BY <2>1, <2>3, <2>4, <1>2, <1>9 DEF LogAfter, h
<1>10. QED BY <1>1, <1>6, <1>7, <1>8, <1>9 DEF SoundReady, h
-----------------------------------------------------------------------------
\* A set of positions of a sequence that is not empty has its greatest.
LEMMA MaxPosition ==
    ASSUME NEW S, NEW n \in Nat, S \subseteq 1..n, S # {}
    PROVE  Max(S) \in S
<1>1. IsFiniteSet(1..n)
    BY FS_Interval
<1>2. IsFiniteSet(S)
    BY <1>1, FS_Subset
<1>3. S \in SUBSET Int
    OBVIOUS
<1>4. QED BY <1>2, <1>3, MaxExists

\* restore and apply give a store for a store.
LEMMA RestoreType ==
    ASSUME NEW store \in Stores, NEW data \in SnapData
    PROVE  restore(store, data) \in Stores
BY DEF restore, SnapData

LEMMA ApplyType ==
    ASSUME NEW store \in Stores, NEW n \in Nat, NEW new,
           DOMAIN new = 1..n, \A k \in 1..n : new[k] \in EntryType(Data)
    PROVE  apply(store, new) \in Stores
<1> DEFINE Mine(ns) == {k \in CommandsIn(new) : NsOf[new[k].data] = ns}
<1>1. ASSUME NEW ns \in Namespace
      PROVE  (IF Mine(ns) = {} THEN store[ns] ELSE new[Max(Mine(ns))].data) \in Data
    <2>1. store[ns] \in Data
        BY DEF Stores
    <2>2. ASSUME Mine(ns) # {} PROVE new[Max(Mine(ns))].data \in Data
        <3>1. Mine(ns) \subseteq 1..n
            BY DEF CommandsIn
        <3>2. Max(Mine(ns)) \in 1..n
            BY <3>1, <2>2, MaxPosition
        <3>3. QED BY <3>2 DEF EntryType
    <2>3. QED BY <2>1, <2>2
<1>2. apply(store, new) = [ns \in Namespace |->
          IF Mine(ns) = {} THEN store[ns] ELSE new[Max(Mine(ns))].data]
    BY DEF apply
<1>3. QED BY <1>1, <1>2 DEF Stores

\* What is applied in a turn lies in the log, and ends at the commit index.
LEMMA AppliedNowIsHeld ==
    ASSUME NEW x, SoundReady(x), NEW d, d = Persist(x[1], x[2], x[3]),
           NEW new, new = AppliedNow(x[1], x[3], d),
           NEW commit, commit = LightCommit(x[1], d)
    PROVE  /\ commit \in Nat /\ x[1].commit <= commit /\ commit <= last_index(d)
           /\ \E n \in Nat : /\ DOMAIN new = 1..n
                             /\ \A k \in 1..n : /\ new[k] \in EntryType(Data)
                                                /\ new[k].index \in 1..commit
<1> DEFINE lo == (IF x[3].index = 0 THEN x[1].core.hs.commit ELSE x[3].index)
<1>1. /\ Good(Data, SnapData, d) /\ d.offset <= lo /\ lo <= x[1].commit
      /\ x[1].commit <= last_index(d)
    BY PersistIsSound
<1>2. /\ d.offset \in Nat /\ last_index(d) \in Nat /\ x[1].commit \in Nat
      /\ x[1].core.hs.commit \in Nat
    BY <1>1, SoundParts, LogNumbers, NodeParts
<1>3. lo \in Nat
    <2>1. CASE x[3].index = 0
        BY <2>1, <1>2
    <2>2. CASE x[3].index # 0
        <3>1. x[3] \in SnapType(SnapData)
            BY <2>2 DEF SoundReady, NoSnapshot, Snapshot
        <3>2. QED BY <3>1, <2>2 DEF SnapType
    <2>3. QED BY <2>1, <2>2
<1>4. commit \in Nat /\ x[1].commit <= commit /\ commit <= last_index(d)
    BY <1>1, <1>2 DEF LightCommit
<1>5. new = EntriesFrom(d, lo + 1, commit + 1)
    BY DEF AppliedNow
<1> HIDE DEF lo
<1>6. PICK n \in Nat : n = commit - lo /\ (lo + 1) + n = commit + 1
    BY <1>1, <1>2, <1>3, <1>4
<1>7. /\ d.offset <= lo + 1 /\ lo + 1 \in Nat
      /\ (lo + 1) + n <= last_index(d) + 1
    BY <1>1, <1>2, <1>3, <1>4, <1>6
<1>8. DOMAIN new = 1..n /\ \A k \in 1..n : new[k] = At(d, (lo + 1) + k - 1)
    BY <1>1, <1>5, <1>6, <1>7, EntriesOneByOne
<1>9. ASSUME NEW k \in 1..n
      PROVE  new[k] \in EntryType(Data) /\ new[k].index \in 1..commit
    <2>1. PICK j \in Nat : j = (lo + 1) + k - 1
        BY <1>3
    <2>2. j \in 1..commit /\ j \in Held(d)
        BY <2>1, <1>1, <1>2, <1>3, <1>4, <1>6 DEF Held
    <2>3. At(d, j) \in EntryType(Data) /\ At(d, j).index = j
        BY <2>2, <1>1, LogNumbers
    <2>4. new[k] = At(d, j)
        BY <2>1, <1>8
    <2>5. QED BY <2>2, <2>3, <2>4
<1>10. QED BY <1>4, <1>8, <1>9

(***************************************************************************)
(* Taking a snapshot at applied_index and compacting (node.rs, step 6):    *)
(* a settled member stays settled, its log keeps its entries from some     *)
(* index on.                                                               *)
(***************************************************************************)
LEMMA TriggerIsSound ==
    ASSUME NEW nd, Settled(nd), NEW m, m = TriggerSnapshot(nd)
    PROVE  /\ Settled(m) /\ \E c \in CoreType(Data, SnapData) : m = [nd EXCEPT !.core = c]
           /\ last_index(m.core) = last_index(nd.core)
           /\ m.core.offset = nd.core.offset \/ m.core.offset <= nd.applied
           /\ nd.core.offset <= m.core.offset
           /\ \A j \in Held(m.core) : j \in Held(nd.core) /\ At(m.core, j) = At(nd.core, j)
<1> DEFINE c == nd.core
           i == nd.applied
           d == compact(create_snapshot(c, i, nd.store), i)
<1>1. /\ nd \in NodeType /\ Good(Data, SnapData, c) /\ c \in CoreType(Data, SnapData)
      /\ c.offset <= nd.commit /\ nd.commit <= last_index(c)
      /\ c.hs = HardState(nd.term, nd.vote, nd.commit)
      /\ i <= nd.commit
    BY DEF Settled, Good
<1>2. /\ c.offset \in Nat /\ last_index(c) \in Nat /\ nd.commit \in Nat /\ i \in Nat
      /\ nd.store \in SnapData
    BY <1>1, LogNumbers, NodeParts DEF SnapData
<1>3. CASE m = nd
    <2>1. nd = [nd EXCEPT !.core = c]
        BY <1>1 DEF NodeType
    <2>2. QED BY <2>1, <1>1, <1>2, <1>3
<1>4. CASE m = [nd EXCEPT !.core = d] /\ i < c.offset
    <2>1. create_snapshot(c, i, nd.store) = c
        BY <1>4 DEF create_snapshot
    <2>2. d = c
        BY <2>1, <1>2, <1>4 DEF compact
    <2>3. m = nd
        BY <2>2, <1>1, <1>4 DEF NodeType
    <2>4. QED BY <2>3, <1>3
<1>5. CASE m = [nd EXCEPT !.core = d] /\ c.offset <= i /\ i # 0
    <2> HIDE DEF d
    <2>1. i \in c.offset..last_index(c)
        BY <1>1, <1>2, <1>5
    <2>2. /\ Good(Data, SnapData, d) /\ d.offset = i /\ d.hs = c.hs
          /\ last_index(d) = last_index(c)
          /\ \A j \in i..last_index(c) : d.entries[j - i + 1] = c.entries[j - c.offset + 1]
        BY <2>1, <1>1, <1>2, <1>5, SnapshotAndCompactCut DEF d
    <2>3. d \in CoreType(Data, SnapData)
        BY <2>2 DEF Good
    <2>4. m.core = d /\ m.commit = nd.commit /\ m.term = nd.term /\ m.vote = nd.vote
          /\ m.applied = i /\ m \in NodeType
        BY <2>3, <1>1, <1>5 DEF NodeType
    <2>5. \A j \in Held(d) : j \in Held(c) /\ At(d, j) = At(c, j)
        BY <2>2, <1>2, <1>5 DEF Held, At
    <2>6. Settled(m)
        BY <2>2, <2>4, <1>1, <1>2 DEF Settled
    <2>7. QED BY <2>2, <2>3, <2>4, <2>5, <2>6, <1>2, <1>5
<1>6. QED BY <1>2, <1>3, <1>4, <1>5 DEF TriggerSnapshot

(***************************************************************************)
(* A turn up to its snapshot trigger: the raft-rs side is the Ready's, the *)
(* log is what was persisted.                                              *)
(***************************************************************************)
LEMMA TurnSettles ==
    ASSUME NEW x, SoundReady(x), NEW d, d = Persist(x[1], x[2], x[3]),
           NEW new, new = AppliedNow(x[1], x[3], d),
           NEW t, t = Turn(x[1], x[3], d)
    PROVE  /\ Settled(t) /\ t \in NodeType
           /\ t.role = x[1].role /\ t.term = x[1].term /\ t.vote = x[1].vote
           /\ t.lead = x[1].lead /\ t.votes = x[1].votes /\ t.asked = x[1].asked
           /\ t.matched = x[1].matched
           /\ t.commit = LightCommit(x[1], d) /\ x[1].commit <= t.commit
           /\ t.store = apply(restore(x[1].store, x[3].data), new)
           /\ t.applied = IF CommandsIn(new) = {} THEN x[1].applied
                          ELSE new[Max(CommandsIn(new))].index
           /\ t.core.offset = d.offset /\ t.core.entries = d.entries
           /\ t.core.snap = d.snap /\ last_index(t.core) = last_index(d)
           /\ Good(Data, SnapData, d) /\ d.offset \in Nat /\ last_index(d) \in Nat
           /\ LogAfter(x[1].core, x[2], x[3], d)
<1> DEFINE nd == x[1]
           commit == LightCommit(nd, d)
           h == HardState(nd.term, nd.vote, commit)
           c == set_hard_state(d, h)
           top == IF CommandsIn(new) = {} THEN nd.applied
                  ELSE new[Max(CommandsIn(new))].index
           st == apply(restore(nd.store, x[3].data), new)
           sn == IF HardState(nd.term, nd.vote, nd.commit) # nd.core.hs THEN nd.commit
                 ELSE nd.seen
<1>1. /\ nd \in NodeType
      /\ nd.applied <= nd.core.hs.commit /\ nd.core.hs.commit <= nd.commit
      /\ nd.core.hs.commit \in Nat /\ nd.core.offset \in Nat
      /\ last_index(nd.core) \in Nat
    BY SoundParts, LogNumbers
<1>2. /\ nd.term \in Nat /\ nd.vote \in Nat /\ nd.commit \in Nat /\ nd.applied \in Nat
      /\ nd.store \in Stores /\ nd.seen \in Nat
    BY <1>1, NodeParts
<1>3. /\ Good(Data, SnapData, d) /\ d.offset <= nd.commit /\ nd.commit <= last_index(d)
      /\ d.offset \in Nat /\ last_index(d) \in Nat
      /\ LogAfter(nd.core, x[2], x[3], d)
    <2>1. /\ Good(Data, SnapData, d)
          /\ d.offset <= (IF x[3].index = 0 THEN nd.core.hs.commit ELSE x[3].index)
          /\ (IF x[3].index = 0 THEN nd.core.hs.commit ELSE x[3].index) <= nd.commit
          /\ nd.commit <= last_index(d) /\ LogAfter(nd.core, x[2], x[3], d)
        BY PersistIsSound
    <2>2. d.offset \in Nat /\ last_index(d) \in Nat
        BY <2>1, LogNumbers
    <2>3. x[3].index = 0 \/ x[3] \in SnapType(SnapData)
        BY DEF SoundReady, NoSnapshot, Snapshot
    <2>4. x[3].index \in Nat
        BY <2>3 DEF SnapType
    <2>5. QED BY <2>1, <2>2, <2>4, <1>1, <1>2
<1>4. PICK n \in Nat : /\ DOMAIN new = 1..n
                       /\ \A k \in 1..n : /\ new[k] \in EntryType(Data)
                                          /\ new[k].index \in 1..commit
    BY AppliedNowIsHeld
<1>5. commit \in Nat /\ nd.commit <= commit /\ commit <= last_index(d)
    BY AppliedNowIsHeld
<1>6. x[3].data \in SnapData
    BY DEF SoundReady, NoSnapshot, Snapshot, SnapType, SnapData
<1> HIDE DEF commit
<1>7. st \in Stores
    BY <1>2, <1>4, <1>6, RestoreType, ApplyType
<1>8. top \in Nat /\ top <= commit
    <2>1. CASE CommandsIn(new) = {}
        BY <2>1, <1>1, <1>2, <1>5
    <2>2. CASE CommandsIn(new) # {}
        <3>1. CommandsIn(new) \subseteq 1..n
            BY <1>4 DEF CommandsIn
        <3>2. Max(CommandsIn(new)) \in 1..n
            BY <3>1, <2>2, MaxPosition
        <3>3. QED BY <3>2, <2>2, <1>4, <1>5
    <2>3. QED BY <2>1, <2>2
<1>9. h \in HsType /\ sn \in Nat
    BY <1>2, <1>5 DEF HardState, HsType
<1>10. /\ Good(Data, SnapData, c) /\ c.offset = d.offset /\ c.entries = d.entries
       /\ c.hs = h /\ c.snap = d.snap /\ last_index(c) = last_index(d)
    <2>1. /\ Good(Data, SnapData, c) /\ c.offset = d.offset /\ c.entries = d.entries
          /\ c.hs = h /\ last_index(c) = last_index(d)
        BY <1>3, <1>9, SetHardStateKeepsLog
    <2>2. c = [d EXCEPT !.hs = h] /\ d \in CoreType(Data, SnapData)
        BY <1>3 DEF set_hard_state, Good
    <2>3. c.snap = d.snap
        BY <2>2 DEF CoreType
    <2>4. QED BY <2>1, <2>3
<1>11. t = [nd EXCEPT !.core = c, !.commit = commit, !.store = st, !.applied = top,
                      !.seen = sn]
    BY DEF Turn, commit
<1> HIDE DEF c, st, top, sn
<1>12. c \in CoreType(Data, SnapData)
    BY <1>10 DEF Good
<1>13. /\ t \in NodeType /\ t.core = c /\ t.commit = commit /\ t.applied = top
       /\ t.role = nd.role /\ t.term = nd.term /\ t.vote = nd.vote /\ t.lead = nd.lead
       /\ t.votes = nd.votes /\ t.asked = nd.asked /\ t.matched = nd.matched
       /\ t.store = st
    <2>1. t \in NodeType
        <3>1. /\ nd \in NodeType /\ c \in CoreType(Data, SnapData) /\ commit \in Nat
              /\ st \in Stores /\ top \in Nat /\ sn \in Nat
            BY <1>1, <1>5, <1>7, <1>8, <1>9, <1>12
        <3>2. PICK a : a = [nd EXCEPT !.core = c, !.commit = commit]
            OBVIOUS
        <3>3. a \in NodeType
            BY <3>1, <3>2 DEF NodeType
        <3>4. t = [a EXCEPT !.store = st, !.applied = top, !.seen = sn]
            BY <3>2, <1>11
        <3>5. QED BY <3>1, <3>3, <3>4 DEF NodeType
    <2>2. t.core = c /\ t.commit = commit /\ t.applied = top /\ t.store = st
        BY <1>1, <1>11 DEF NodeType
    <2>3. /\ t.role = nd.role /\ t.term = nd.term /\ t.vote = nd.vote /\ t.lead = nd.lead
          /\ t.votes = nd.votes /\ t.asked = nd.asked /\ t.matched = nd.matched
        BY <1>1, <1>11 DEF NodeType
    <2>4. QED BY <2>1, <2>2, <2>3
<1>14. Settled(t)
    BY <1>1, <1>2, <1>3, <1>5, <1>8, <1>10, <1>13 DEF Settled, h
<1>15. QED
    BY <1>3, <1>5, <1>10, <1>13, <1>14 DEF commit, st, top

(***************************************************************************)
(* A whole turn: a sound Ready leaves a settled member, whose raft-rs side *)
(* is the Ready's, whose log is LogAfter, and that applied entries of the  *)
(* log only.                                                               *)
(***************************************************************************)
LEMMA TurnIsSound ==
    ASSUME NEW x, SoundReady(x), NEW m, m = After(x)
    PROVE  /\ Settled(m)
           /\ m.role = x[1].role /\ m.term = x[1].term /\ m.vote = x[1].vote
           /\ m.lead = x[1].lead /\ m.votes = x[1].votes /\ m.asked = x[1].asked
           /\ m.matched = x[1].matched /\ x[1].commit <= m.commit
           /\ LogAfter(x[1].core, x[2], x[3], m.core)
<1> DEFINE nd == x[1]
<1>1. PICK d : d = Persist(x[1], x[2], x[3])
    OBVIOUS
<1>2. PICK t : t = Turn(nd, x[3], d)
    OBVIOUS
<1>3. /\ Settled(t) /\ t \in NodeType
      /\ t.role = nd.role /\ t.term = nd.term /\ t.vote = nd.vote /\ t.lead = nd.lead
      /\ t.votes = nd.votes /\ t.asked = nd.asked /\ t.matched = nd.matched
      /\ nd.commit <= t.commit
    BY <1>1, <1>2, TurnSettles
<1>4. /\ t.core.offset = d.offset /\ t.core.entries = d.entries
      /\ last_index(t.core) = last_index(d)
      /\ d.offset \in Nat /\ last_index(d) \in Nat
      /\ LogAfter(nd.core, x[2], x[3], d)
    BY <1>1, <1>2, TurnSettles
<1>5. nd.core.offset \in Nat
    BY SoundParts, LogNumbers
<1>6. m = TriggerSnapshot(t)
    BY <1>1, <1>2 DEF After
<1>7. /\ Settled(m) /\ \E b \in CoreType(Data, SnapData) : m = [t EXCEPT !.core = b]
      /\ last_index(m.core) = last_index(d)
      /\ d.offset <= m.core.offset
      /\ \A j \in Held(m.core) : j \in Held(t.core) /\ At(m.core, j) = At(t.core, j)
    BY <1>3, <1>4, <1>6, TriggerIsSound, SMTT(30)
<1>8. /\ m.role = t.role /\ m.term = t.term /\ m.vote = t.vote /\ m.lead = t.lead
      /\ m.votes = t.votes /\ m.asked = t.asked /\ m.matched = t.matched
      /\ m.commit = t.commit
    BY <1>7, <1>3 DEF NodeType
<1>9. LogAfter(nd.core, x[2], x[3], m.core)
    <2>1. m.core.offset \in Nat /\ last_index(m.core) \in Nat
          /\ m.core.offset <= last_index(m.core)
        BY <1>7, LogNumbers DEF Settled
    <2>2. \A j \in Held(m.core) : j \in Held(d) /\ At(m.core, j) = At(d, j)
        BY <1>4, <1>7 DEF Held, At
    <2>3. CASE x[3].index # 0
        <3>1. d.offset = x[3].index /\ last_index(d) = x[3].index
              /\ At(d, x[3].index).term = x[3].term
            BY <2>3, <1>4 DEF LogAfter
        <3>2. m.core.offset = x[3].index /\ last_index(m.core) = x[3].index
            BY <3>1, <2>1, <1>4, <1>7
        <3>3. At(m.core, x[3].index) = At(d, x[3].index)
            BY <3>2, <2>1, <2>2 DEF Held
        <3>4. QED BY <2>3, <3>1, <3>2, <3>3 DEF LogAfter
    <2>4. CASE x[3].index = 0
        <3>1. /\ nd.core.offset <= d.offset
              /\ last_index(d) = IF x[2] = <<>> THEN last_index(nd.core) ELSE x[2][1].index
              /\ \A j \in Held(d) :
                   IF x[2] # <<>> /\ j = x[2][1].index THEN At(d, j) = x[2][1]
                   ELSE j \in Held(nd.core) /\ At(d, j) = At(nd.core, j)
            BY <2>4, <1>4 DEF LogAfter
        <3>2. nd.core.offset <= m.core.offset
            BY <3>1, <2>1, <1>4, <1>5, <1>7
        <3>3. last_index(m.core) = last_index(d)
            BY <1>7
        <3>4. \A j \in Held(m.core) :
                   IF x[2] # <<>> /\ j = x[2][1].index THEN At(m.core, j) = x[2][1]
                   ELSE j \in Held(nd.core) /\ At(m.core, j) = At(nd.core, j)
            BY <3>1, <2>2
        <3>5. QED BY <2>4, <3>1, <3>2, <3>3, <3>4 DEF LogAfter
    <2>5. QED BY <2>3, <2>4
<1>10. QED BY <1>3, <1>7, <1>8, <1>9
-----------------------------------------------------------------------------
(***************************************************************************)
(* What the raft-rs side of a member may become between two turns.         *)
(***************************************************************************)
LEMMA FollowerEffect ==
    ASSUME NEW nd \in NodeType, NEW t \in Nat, NEW l \in 0..N,
           NEW m, m = become_follower(nd, t, l)
    PROVE  /\ m \in NodeType
           /\ m.core = nd.core /\ m.applied = nd.applied /\ m.commit = nd.commit
           /\ m.role = "follower" /\ m.term = t /\ m.lead = l
           /\ m.vote = (IF t = nd.term THEN nd.vote ELSE NoNode)
           /\ m.matched = [f \in Node |-> 0]
<1> DEFINE z == [f \in Node |-> 0]
           v == IF t = nd.term THEN nd.vote ELSE NoNode
<1>1. z \in [Node -> Nat] /\ v \in 0..N
    BY NodeParts, MembersAssumption DEF NoNode
<1>2. m = [nd EXCEPT !.role = "follower", !.lead = l, !.votes = {}, !.asked = {},
                     !.matched = z, !.transferring = FALSE, !.vote = v, !.term = t]
    BY DEF become_follower
<1> HIDE DEF z, v
<1>3. m \in NodeType
    <2> DEFINE x == [nd EXCEPT !.role = "follower", !.lead = l, !.term = t, !.vote = v]
    <2>1. x \in NodeType
        BY <1>1 DEF NodeType
    <2>2. m = [x EXCEPT !.votes = {}, !.asked = {}, !.matched = z, !.transferring = FALSE]
        BY <1>2 DEF NodeType
    <2> HIDE DEF x
    <2>3. QED BY <1>1, <2>1, <2>2 DEF NodeType
<1>4. /\ m.core = nd.core /\ m.applied = nd.applied /\ m.commit = nd.commit
      /\ m.role = "follower" /\ m.term = t /\ m.lead = l /\ m.vote = v /\ m.matched = z
    BY <1>2 DEF NodeType
<1>5. QED BY <1>3, <1>4 DEF v, z

LEMMA CandidateEffect ==
    ASSUME NEW nd \in NodeType, NEW n \in Node, NEW m, m = become_candidate(nd, n)
    PROVE  /\ m \in NodeType
           /\ m.core = nd.core /\ m.applied = nd.applied /\ m.commit = nd.commit
           /\ m.role = "candidate" /\ m.term = nd.term + 1 /\ m.vote = n
           /\ m.votes = {n} /\ m.asked = {n}
<1> DEFINE b == become_follower(nd, nd.term + 1, NoNode)
<1>1. NoNode \in 0..N /\ n \in 0..N
    BY MembersAssumption DEF Node, NoNode
<1>2. /\ b \in NodeType /\ b.term = nd.term + 1
      /\ b.core = nd.core /\ b.applied = nd.applied /\ b.commit = nd.commit
    <2>1. PICK t \in Nat : t = nd.term + 1
        BY NodeParts
    <2>2. b = become_follower(nd, t, NoNode)
        BY <2>1
    <2> HIDE DEF b
    <2>3. /\ b \in NodeType /\ b.term = t
          /\ b.core = nd.core /\ b.applied = nd.applied /\ b.commit = nd.commit
        <3>1. PICK l \in 0..N : l = NoNode
            BY <1>1
        <3>2. b = become_follower(nd, t, l)
            BY <2>2, <3>1
        <3>3. QED BY <3>2, FollowerEffect
    <2>4. QED BY <2>1, <2>3
<1> HIDE DEF b
<1>3. m = [b EXCEPT !.role = "candidate", !.vote = n, !.votes = {n}, !.asked = {n}]
    BY DEF become_candidate, b
<1>4. {n} \in SUBSET Node
    OBVIOUS
<1>5. m \in NodeType
    <2> DEFINE x == [b EXCEPT !.role = "candidate", !.vote = n]
    <2>1. x \in NodeType
        BY <1>1, <1>2 DEF NodeType
    <2>2. m = [x EXCEPT !.votes = {n}, !.asked = {n}]
        BY <1>2, <1>3 DEF NodeType
    <2> HIDE DEF x
    <2>3. QED BY <1>4, <2>1, <2>2 DEF NodeType
<1>6. QED BY <1>2, <1>3, <1>5 DEF NodeType

LEMMA LeaderEffect ==
    ASSUME NEW nd \in NodeType, NEW n \in Node, NEW m, m = become_leader(nd, n)
    PROVE  /\ m \in NodeType
           /\ m.core = nd.core /\ m.applied = nd.applied /\ m.commit = nd.commit
           /\ m.role = "leader" /\ m.term = nd.term /\ m.vote = nd.vote
           /\ m.matched = [f \in Node |-> 0]
<1> DEFINE b == become_follower(nd, nd.term, n)
<1>1. nd.term \in Nat /\ n \in 0..N
    BY NodeParts, MembersAssumption DEF Node
<1>2. /\ b \in NodeType /\ b.term = nd.term /\ b.vote = nd.vote
      /\ b.core = nd.core /\ b.applied = nd.applied /\ b.commit = nd.commit
    BY <1>1, FollowerEffect
<1>3. b.matched = [f \in Node |-> 0]
    BY DEF become_follower, NodeType
<1> HIDE DEF b
<1>4. m = [b EXCEPT !.role = "leader"]
    BY DEF become_leader, b
<1>5. QED BY <1>2, <1>3, <1>4 DEF NodeType

\* A member whose commit index moved, no other field touched.
AtCommit(x, i) == [x EXCEPT !.commit = i]

LEMMA CommitMoves ==
    ASSUME NEW x \in NodeType, NEW i \in Nat
    PROVE  LET m == AtCommit(x, i) IN
           /\ m \in NodeType /\ m.core = x.core /\ m.applied = x.applied /\ m.role = x.role
           /\ m.term = x.term /\ m.vote = x.vote /\ m.lead = x.lead /\ m.commit = i
           /\ m.votes = x.votes /\ m.asked = x.asked /\ m.matched = x.matched
<1> DEFINE m == AtCommit(x, i)
<1>1. m \in NodeType
    BY DEF NodeType, AtCommit
<1>2. m.core = x.core /\ m.applied = x.applied /\ m.role = x.role /\ m.commit = i
    BY DEF NodeType, AtCommit
<1>3. m.term = x.term /\ m.vote = x.vote /\ m.lead = x.lead
    BY DEF NodeType, AtCommit
<1>4. m.votes = x.votes /\ m.asked = x.asked /\ m.matched = x.matched
    BY DEF NodeType, AtCommit
<1>5. QED BY <1>1, <1>2, <1>3, <1>4

\* The commit index an acknowledgement allows is one of the log's.
LEMMA MaybeCommitEffect ==
    ASSUME NEW b \in NodeType, Good(Data, SnapData, b.core),
           b.commit <= last_index(b.core),
           NEW n \in Node, NEW m, m = MaybeCommit(b, n)
    PROVE  /\ m \in NodeType
           /\ m.core = b.core /\ m.applied = b.applied /\ m.role = b.role
           /\ m.term = b.term /\ m.vote = b.vote /\ m.lead = b.lead
           /\ m.votes = b.votes /\ m.asked = b.asked /\ m.matched = b.matched
           /\ b.commit <= m.commit /\ m.commit <= last_index(b.core)
<1> DEFINE held(i) == {n} \cup {g \in Node : b.matched[g] >= i}
           able == {i \in b.commit + 1 .. last_index(b.core) :
                      Majority(held(i)) /\ term(b.core, i) = b.term}
<1>1. b.commit \in Nat /\ last_index(b.core) \in Nat
    BY NodeParts, LogNumbers
<1>2. m = IF able = {} THEN b ELSE AtCommit(b, Max(able))
    BY DEF MaybeCommit, AtCommit
<1>3. able \subseteq b.commit + 1 .. last_index(b.core)
    OBVIOUS
<1> HIDE DEF able
<1>4. CASE able = {}
    <2>1. m = b
        BY <1>2, <1>4
    <2>2. b.commit <= b.commit
        BY <1>1
    <2>3. QED BY <2>1, <2>2, Zenon
<1>5. CASE able # {}
    <2>1. able \subseteq 1..last_index(b.core)
        BY <1>1, <1>3
    <2> DEFINE i == Max(able)
    <2>2. i \in able
        BY <2>1, <1>1, <1>5, MaxPosition
    <2>3. m = AtCommit(b, i)
        BY <1>2, <1>5, Zenon
    <2> HIDE DEF i, held
    <2>4. i \in Nat /\ b.commit <= i /\ i <= last_index(b.core)
        <3>1. i \in b.commit + 1 .. last_index(b.core)
            BY <2>2, <1>3
        <3>2. QED BY <3>1, <1>1
    <2>5. QED BY <2>3, <2>4, CommitMoves
<1>6. QED BY <1>4, <1>5

\* A leader whose record of member f's log moved, no other field touched.
Heard(nd, f, k) == [nd EXCEPT !.matched[f] = IF k > @ THEN k ELSE @]

LEMMA HeardEffect ==
    ASSUME NEW nd \in NodeType, NEW f \in Node, NEW k \in Nat
    PROVE  LET b == Heard(nd, f, k) IN
           /\ b \in NodeType /\ b.core = nd.core /\ b.applied = nd.applied /\ b.role = nd.role
           /\ b.term = nd.term /\ b.vote = nd.vote /\ b.lead = nd.lead
           /\ b.votes = nd.votes /\ b.asked = nd.asked /\ b.commit = nd.commit
           /\ b.matched = [nd.matched EXCEPT ![f] = IF k > @ THEN k ELSE @]
<1> DEFINE z == [nd.matched EXCEPT ![f] = IF k > @ THEN k ELSE @]
           x == [nd EXCEPT !.matched = z]
           b == Heard(nd, f, k)
<1>1. z \in [Node -> Nat]
    BY NodeParts
<1>2. b = x
    BY DEF Heard, NodeType
<1> HIDE DEF z, b
<1>3. x \in NodeType
    BY <1>1 DEF NodeType
<1>4. x.core = nd.core /\ x.applied = nd.applied /\ x.role = nd.role
    BY DEF NodeType
<1>5. x.term = nd.term /\ x.vote = nd.vote /\ x.lead = nd.lead
    BY DEF NodeType
<1>6. x.votes = nd.votes /\ x.asked = nd.asked /\ x.commit = nd.commit /\ x.matched = z
    BY DEF NodeType
<1> HIDE DEF x
<1>7. QED BY <1>2, <1>3, <1>4, <1>5, <1>6, Zenon DEF z, b

LEMMA AcknowledgedEffect ==
    ASSUME NEW nd \in NodeType, Good(Data, SnapData, nd.core),
           nd.commit <= last_index(nd.core),
           NEW n \in Node, NEW f \in Node, NEW k \in Nat,
           NEW m, m = MaybeCommit(Heard(nd, f, k), n)
    PROVE  /\ m \in NodeType
           /\ m.core = nd.core /\ m.applied = nd.applied /\ m.role = nd.role
           /\ m.term = nd.term /\ m.vote = nd.vote /\ m.lead = nd.lead
           /\ m.votes = nd.votes /\ m.asked = nd.asked
           /\ nd.commit <= m.commit /\ m.commit <= last_index(nd.core)
           /\ m.matched = [nd.matched EXCEPT ![f] = IF k > @ THEN k ELSE @]
<1> DEFINE b == Heard(nd, f, k)
<1>1. /\ b \in NodeType /\ b.core = nd.core /\ b.applied = nd.applied /\ b.role = nd.role
      /\ b.term = nd.term /\ b.vote = nd.vote /\ b.lead = nd.lead
      /\ b.votes = nd.votes /\ b.asked = nd.asked /\ b.commit = nd.commit
      /\ b.matched = [nd.matched EXCEPT ![f] = IF k > @ THEN k ELSE @]
    BY HeardEffect
<1> HIDE DEF b
<1>2. Good(Data, SnapData, b.core) /\ b.commit <= last_index(b.core)
    BY <1>1
<1>3. m = MaybeCommit(b, n)
    BY DEF b
<1>4. /\ m \in NodeType
      /\ m.core = b.core /\ m.applied = b.applied /\ m.role = b.role
      /\ m.term = b.term /\ m.vote = b.vote /\ m.lead = b.lead
      /\ m.votes = b.votes /\ m.asked = b.asked /\ m.matched = b.matched
      /\ b.commit <= m.commit /\ m.commit <= last_index(b.core)
    BY <1>1, <1>2, <1>3, MaybeCommitEffect
<1>5. QED BY <1>1, <1>4, Zenon

\* A Ready without a new entry or a snapshot, and one with the next entry.
LEMMA PlainReady ==
    ASSUME NEW nd, Settled(nd), NEW m \in NodeType,
           m.core = nd.core, m.applied = nd.applied,
           nd.commit <= m.commit, m.commit <= last_index(nd.core)
    PROVE  SoundReady(Plain(m))
<1>1. /\ Good(Data, SnapData, nd.core) /\ nd.core.offset <= nd.commit
      /\ nd.commit <= last_index(nd.core) /\ nd.core.hs.commit = nd.commit
      /\ nd.applied <= nd.commit
    BY DEF Settled, HardState
<1>2. QED BY <1>1 DEF SoundReady, Plain

LEMMA NextEntryReady ==
    ASSUME NEW nd, Settled(nd), NEW m \in NodeType, NEW data \in Data,
           m.core = nd.core, m.applied = nd.applied, m.commit = nd.commit
    PROVE  /\ SoundReady(<<m, NextEntry(m, data), NoSnapshot>>)
           /\ NextEntry(m, data) = <<Entry(last_index(nd.core) + 1, m.term, data)>>
           /\ Entry(last_index(nd.core) + 1, m.term, data) \in EntryType(Data)
<1> DEFINE e == Entry(last_index(nd.core) + 1, m.term, data)
<1>1. /\ Good(Data, SnapData, nd.core) /\ nd.core.offset <= nd.commit
      /\ nd.commit <= last_index(nd.core) /\ nd.core.hs.commit = nd.commit
      /\ nd.applied <= nd.commit
    BY DEF Settled, HardState
<1>2. last_index(nd.core) \in Nat /\ m.term \in Nat /\ m.commit \in Nat
    BY <1>1, LogNumbers, NodeParts
<1>3. e \in EntryType(Data) /\ e.index = last_index(nd.core) + 1
    BY <1>2 DEF Entry, EntryType
<1>4. NextEntry(m, data) = <<e>>
    BY DEF NextEntry
<1> HIDE DEF e
<1>5. nd.commit < e.index /\ e.index <= last_index(nd.core) + 1 /\ m.commit <= e.index
    BY <1>1, <1>2, <1>3
<1>6. SoundReady(<<m, NextEntry(m, data), NoSnapshot>>)
    <2> DEFINE x == <<m, NextEntry(m, data), NoSnapshot>>
    <2>1. x[1] = m /\ x[2] = <<e>> /\ x[3] = NoSnapshot
        BY <1>4
    <2> HIDE DEF x
    <2>2. /\ x[1].core = nd.core /\ x[1].applied = nd.applied /\ x[1].commit = nd.commit
          /\ x[1].commit <= e.index /\ nd.commit <= x[1].commit
        BY <2>1, <1>2, <1>5
    <2>3. SoundReady(x)
        BY <2>1, <2>2, <1>1, <1>3, <1>5 DEF SoundReady
    <2>4. QED BY <2>3 DEF x
<1>7. QED BY <1>3, <1>4, <1>6 DEF e
-----------------------------------------------------------------------------
(***************************************************************************)
(* The inductive invariant: types, every member settled, and that a member *)
(* without peers discovers nothing (it would start with a seed and still   *)
(* elect itself).                                                          *)
(***************************************************************************)
CInv == /\ TypeOK
        /\ \A n \in Node : Settled(node[n])
        /\ N = 1 => \A n \in Node : found[n] = NothingFound

\* A sound step of some members' loops.
SoundTurns(t) ==
    /\ DOMAIN t \subseteq Node
    /\ \A n \in DOMAIN t : SoundReady(t[n]) /\ t[n][1].term <= MaxTerm

\* What the turns of some members change.
LEMMA TurnsEffect ==
    ASSUME NEW t, NEW wr, Turns(t, wr)
    PROVE  /\ node' = [n \in Node |-> IF n \in DOMAIN t THEN After(t[n]) ELSE node[n]]
           /\ write' = [w \in Write |->
                  LET n == wr[w].at IN
                  IF /\ wr[w].st = "pending" /\ n \in DOMAIN t
                     /\ Drains(t[n][1], t[n][2], t[n][3])
                  THEN Put("ok", n) ELSE wr[w]]
           /\ history' = history \cup
                 UNION {Recorded(Applied(t[n])) : n \in DOMAIN t}
<1> DEFINE saved == [n \in DOMAIN t |-> Persist(t[n][1], t[n][2], t[n][3])]
           after == [n \in DOMAIN t |-> Turn(t[n][1], t[n][3], saved[n])]
           F(n) == Recorded(AppliedNow(t[n][1], t[n][3], saved[n]))
           G(n) == Recorded(Applied(t[n]))
<1>1. node' = [n \in Node |-> IF n \in DOMAIN t THEN TriggerSnapshot(after[n]) ELSE node[n]]
    BY DEF Turns
<1>2. write' = [w \in Write |->
                   LET n == wr[w].at IN
                   IF /\ wr[w].st = "pending" /\ n \in DOMAIN t
                      /\ Drains(t[n][1], t[n][2], t[n][3])
                   THEN Put("ok", n) ELSE wr[w]]
    BY DEF Turns
<1>3. history' = history \cup UNION {F(n) : n \in DOMAIN t}
    BY DEF Turns
<1>4. \A n \in DOMAIN t : TriggerSnapshot(after[n]) = After(t[n]) /\ F(n) = G(n)
    BY DEF After, Applied
<1>5. node' = [n \in Node |-> IF n \in DOMAIN t THEN After(t[n]) ELSE node[n]]
    BY <1>1, <1>4
<1> HIDE DEF F, G
<1>6. {F(n) : n \in DOMAIN t} = {G(n) : n \in DOMAIN t}
    BY <1>4
<1>7. history' = history \cup UNION {G(n) : n \in DOMAIN t}
    BY <1>3, <1>6
<1>8. QED BY <1>2, <1>5, <1>7 DEF G

\* Sound turns keep the invariant.
LEMMA TurnsAreSound ==
    ASSUME CInv, NEW t, SoundTurns(t), NEW wr \in [Write -> Progress], Turns(t, wr),
           UNCHANGED <<status, found, restarts>>
    PROVE  CInv'
<1>1. /\ node' = [n \in Node |-> IF n \in DOMAIN t THEN After(t[n]) ELSE node[n]]
      /\ write' = [w \in Write |->
             LET n == wr[w].at IN
             IF /\ wr[w].st = "pending" /\ n \in DOMAIN t
                /\ Drains(t[n][1], t[n][2], t[n][3])
             THEN Put("ok", n) ELSE wr[w]]
      /\ history' = history \cup
            UNION {Recorded(Applied(t[n])) : n \in DOMAIN t}
    BY TurnsEffect
<1>2. ASSUME NEW n \in Node PROVE Settled(node'[n]) /\ node'[n].term <= MaxTerm
    <2>1. CASE n \in DOMAIN t
        <3>1. SoundReady(t[n]) /\ t[n][1].term <= MaxTerm /\ node'[n] = After(t[n])
            BY <2>1, <1>1 DEF SoundTurns
        <3>2. QED BY <3>1, TurnIsSound
    <2>2. CASE n \notin DOMAIN t
        BY <2>2, <1>1 DEF CInv, TypeOK
    <2>3. QED BY <2>1, <2>2
<1>3. node' \in [Node -> NodeType]
    BY <1>1, <1>2 DEF Settled
<1>4. write' \in [Write -> Progress]
    BY <1>1 DEF Put, Progress
<1>5. history' \subseteq Nat \X Data
    <2>1. ASSUME NEW n \in DOMAIN t, NEW k \in DOMAIN Applied(t[n])
          PROVE  <<Applied(t[n])[k].index, Applied(t[n])[k].data>> \in Nat \X Data
        <3>1. SoundReady(t[n])
            BY DEF SoundTurns
        <3>2. Applied(t[n])[k] \in EntryType(Data)
            BY <3>1, AppliedNowIsHeld DEF Applied
        <3>3. QED BY <3>2 DEF EntryType
    <2>2. history \subseteq Nat \X Data
        BY DEF CInv, TypeOK
    <2>3. QED BY <1>1, <2>1, <2>2 DEF Recorded
<1>6. QED BY <1>2, <1>3, <1>4, <1>5 DEF CInv, TypeOK

\* The turns of one member, or of two, are sound when each Ready is.
LEMMA OneIsSound ==
    ASSUME NEW n \in Node, NEW x, SoundReady(x), x[1].term <= MaxTerm
    PROVE  SoundTurns(One(n, x))
BY DEF SoundTurns, One

LEMMA TwoAreSound ==
    ASSUME NEW f \in Node, NEW l \in Node,
           NEW x, SoundReady(x), x[1].term <= MaxTerm,
           NEW y, SoundReady(y), y[1].term <= MaxTerm
    PROVE  SoundTurns(Two(f, x, l, y))
BY DEF SoundTurns, Two

\* What the invariant says of one member.
LEMMA MemberParts ==
    ASSUME CInv, NEW n \in Node
    PROVE  LET nd == node[n] IN
           /\ Settled(nd) /\ nd \in NodeType /\ nd.term <= MaxTerm /\ nd.term \in Nat
           /\ nd.commit \in Nat /\ nd.commit <= last_index(nd.core)
           /\ Good(Data, SnapData, nd.core) /\ nd.core.hs.commit = nd.commit
           /\ nd.core.offset \in Nat /\ last_index(nd.core) \in Nat
           /\ nd.core.offset <= nd.commit /\ nd.commit <= nd.commit
           /\ NoData \in Data /\ nd.matched \in [Node -> Nat]
<1>1. Settled(node[n]) /\ node[n] \in NodeType /\ node[n].term <= MaxTerm
    BY DEF CInv, TypeOK
<1>2. Good(Data, SnapData, node[n].core) /\ node[n].core.hs.commit = node[n].commit
      /\ node[n].commit <= last_index(node[n].core) /\ node[n].core.offset <= node[n].commit
    BY <1>1 DEF Settled, HardState
<1>3. /\ node[n].term \in Nat /\ node[n].commit \in Nat /\ node[n].matched \in [Node -> Nat]
      /\ node[n].core.offset \in Nat /\ last_index(node[n].core) \in Nat
    BY <1>1, <1>2, NodeParts, LogNumbers
<1>4. node[n].commit <= node[n].commit
    BY <1>3
<1>5. QED BY <1>1, <1>2, <1>3, <1>4 DEF Data
-----------------------------------------------------------------------------
(***************************************************************************)
(* Each action that turns loops turns them with sound Readys.              *)
(***************************************************************************)
LEMMA CampaignSound ==
    ASSUME CInv, NEW n \in Node, Campaign(n)
    PROVE  SoundTurns(One(n, Plain(become_candidate(node[n], n))))
<1> DEFINE m == become_candidate(node[n], n)
<1>1. /\ Settled(node[n]) /\ node[n] \in NodeType /\ node[n].term \in Nat
      /\ node[n].commit \in Nat /\ node[n].commit <= last_index(node[n].core)
      /\ node[n].commit <= node[n].commit
    BY MemberParts
<1>2. /\ m \in NodeType /\ m.core = node[n].core /\ m.applied = node[n].applied
      /\ m.commit = node[n].commit /\ m.term = node[n].term + 1
    BY <1>1, CandidateEffect
<1>3. m.term <= MaxTerm
    BY <1>1, <1>2, BoundsAssumption DEF Campaign
<1> HIDE DEF m
<1>4. SoundReady(Plain(m))
    BY <1>1, <1>2, PlainReady
<1>5. Plain(m)[1] = m
    BY DEF Plain
<1>6. QED BY <1>3, <1>4, <1>5, OneIsSound DEF m

\* The members of an election as the request leaves them.
Requested(c, v) ==
    IF node[c].term > node[v].term THEN become_follower(node[v], node[c].term, NoNode)
    ELSE node[v]
Voter(c, v) == IF Free(Requested(c, v), c) /\ UpToDate(node[c], Requested(c, v))
               THEN [Requested(c, v) EXCEPT !.vote = c] ELSE Requested(c, v)
Votes(c, v, lost) ==
    IF Free(Requested(c, v), c) /\ UpToDate(node[c], Requested(c, v)) /\ ~lost
    THEN node[c].votes \cup {v} ELSE node[c].votes
Elected(c)        == <<become_leader(node[c], c),
                       NextEntry(become_leader(node[c], c), NoData), NoSnapshot>>
Asked(c, v, lost) == [node[c] EXCEPT !.asked = @ \cup {v}, !.votes = Votes(c, v, lost)]
Candidate(c, v, lost) ==
    IF Majority(Votes(c, v, lost)) THEN Elected(c) ELSE Plain(Asked(c, v, lost))

LEMMA RequestVoteParts ==
    ASSUME NEW c, NEW v, RequestVote(c, v)
    PROVE  /\ Up(c) /\ Up(v) /\ node[c].role = "candidate" /\ v \notin node[c].asked
           /\ node[c].term >= node[v].term
           /\ \E lost \in Lost :
                Turns(Two(v, Plain(Voter(c, v)), c, Candidate(c, v, lost)), write)
           /\ UNCHANGED <<status, found, restarts>>
BY DEF RequestVote, Requested, Voter, Votes, Elected, Asked, Candidate

LEMMA RequestedEffect ==
    ASSUME CInv, NEW c \in Node, NEW v \in Node, node[c].term >= node[v].term
    PROVE  LET m == Requested(c, v) IN
           /\ m \in NodeType /\ m.term = node[c].term
           /\ m.core = node[v].core /\ m.applied = node[v].applied
           /\ m.commit = node[v].commit
           /\ m.role = (IF node[c].term > node[v].term THEN "follower" ELSE node[v].role)
           /\ m.vote = (IF node[c].term > node[v].term THEN NoNode ELSE node[v].vote)
           /\ m.term > node[v].term \/ m = node[v]
<1>1. /\ node[c].term \in Nat /\ node[v].term \in Nat /\ node[v] \in NodeType
    BY MemberParts
<1>2. CASE node[c].term > node[v].term
    <2>1. PICK t \in Nat, l \in 0..N : t = node[c].term /\ l = NoNode
        BY <1>1, MembersAssumption DEF NoNode
    <2>2. Requested(c, v) = become_follower(node[v], t, l)
        BY <2>1, <1>2 DEF Requested
    <2>3. LET m == become_follower(node[v], t, l) IN
          /\ m \in NodeType /\ m.core = node[v].core /\ m.applied = node[v].applied
          /\ m.commit = node[v].commit /\ m.role = "follower" /\ m.term = t
          /\ m.vote = (IF t = node[v].term THEN node[v].vote ELSE NoNode)
        BY <1>1, FollowerEffect, SMTT(30)
    <2>4. t # node[v].term
        BY <2>1, <1>1, <1>2
    <2>5. QED BY <2>1, <2>2, <2>3, <2>4, <1>2
<1>3. CASE ~(node[c].term > node[v].term)
    <2>1. Requested(c, v) = node[v] /\ node[v].term = node[c].term
        BY <1>1, <1>3 DEF Requested
    <2>2. QED BY <2>1, <1>1, <1>3
<1>4. QED BY <1>2, <1>3

LEMMA RequestVoteSound ==
    ASSUME CInv, NEW c \in Node, NEW v \in Node, RequestVote(c, v), NEW lost
    PROVE  /\ SoundReady(Plain(Voter(c, v))) /\ SoundReady(Candidate(c, v, lost))
           /\ SoundTurns(Two(v, Plain(Voter(c, v)), c, Candidate(c, v, lost)))
<1>1. /\ Settled(node[v]) /\ node[v].commit <= last_index(node[v].core)
      /\ node[v].commit <= node[v].commit
    BY MemberParts
<1>2. /\ Settled(node[c]) /\ node[c] \in NodeType /\ node[c].term <= MaxTerm
      /\ node[c].commit <= last_index(node[c].core) /\ node[c].commit <= node[c].commit
      /\ NoData \in Data
    BY MemberParts
<1>3. /\ Requested(c, v) \in NodeType /\ Requested(c, v).term = node[c].term
      /\ Requested(c, v).core = node[v].core
      /\ Requested(c, v).applied = node[v].applied
      /\ Requested(c, v).commit = node[v].commit
    BY RequestVoteParts, RequestedEffect
<1>4. c \in 0..N
    BY MembersAssumption DEF Node
<1>5. /\ Voter(c, v) \in NodeType /\ Voter(c, v).term = node[c].term
      /\ Voter(c, v).core = node[v].core /\ Voter(c, v).applied = node[v].applied
      /\ Voter(c, v).commit = node[v].commit
    <2>1. CASE Voter(c, v) = Requested(c, v)
        BY <2>1, <1>3
    <2>2. CASE Voter(c, v) = [Requested(c, v) EXCEPT !.vote = c]
        BY <2>2, <1>3, <1>4 DEF NodeType
    <2>3. QED BY <2>1, <2>2 DEF Voter
<1>6. SoundReady(Plain(Voter(c, v))) /\ Plain(Voter(c, v))[1].term <= MaxTerm
    BY <1>1, <1>2, <1>5, PlainReady DEF Plain
<1>7. /\ Asked(c, v, lost) \in NodeType /\ Asked(c, v, lost).term = node[c].term
      /\ Asked(c, v, lost).core = node[c].core
      /\ Asked(c, v, lost).applied = node[c].applied
      /\ Asked(c, v, lost).commit = node[c].commit
    <2>1. node[c].votes \subseteq Node /\ node[c].asked \subseteq Node
        BY <1>2, NodeParts
    <2>2. Votes(c, v, lost) \in SUBSET Node /\ node[c].asked \cup {v} \in SUBSET Node
        BY <2>1 DEF Votes
    <2>3. QED BY <2>2, <1>2 DEF Asked, NodeType
<1>8. SoundReady(Plain(Asked(c, v, lost))) /\ Plain(Asked(c, v, lost))[1].term <= MaxTerm
    BY <1>2, <1>7, PlainReady DEF Plain
<1>9. SoundReady(Elected(c)) /\ Elected(c)[1].term <= MaxTerm
    <2> DEFINE ld == become_leader(node[c], c)
    <2>1. /\ ld \in NodeType /\ ld.core = node[c].core /\ ld.applied = node[c].applied
          /\ ld.commit = node[c].commit /\ ld.term = node[c].term
        BY <1>2, LeaderEffect
    <2>2. Elected(c)[1] = ld /\ Elected(c) = <<ld, NextEntry(ld, NoData), NoSnapshot>>
        BY DEF Elected
    <2> HIDE DEF ld
    <2>3. SoundReady(<<ld, NextEntry(ld, NoData), NoSnapshot>>)
        BY <2>1, <1>2, NextEntryReady
    <2>4. QED BY <2>1, <2>2, <2>3, <1>2
<1>10. /\ SoundReady(Candidate(c, v, lost)) /\ Candidate(c, v, lost)[1].term <= MaxTerm
    BY <1>8, <1>9 DEF Candidate
<1>11. QED BY <1>6, <1>10, TwoAreSound

\* Two turns that only change whether a transfer is under way.
LEMMA TransferSound ==
    ASSUME CInv, NEW n \in Node, NEW b \in BOOLEAN
    PROVE  SoundTurns(One(n, Plain([node[n] EXCEPT !.transferring = b])))
<1> DEFINE m == [node[n] EXCEPT !.transferring = b]
<1>1. /\ Settled(node[n]) /\ node[n] \in NodeType /\ node[n].term <= MaxTerm
      /\ node[n].commit <= last_index(node[n].core) /\ node[n].commit <= node[n].commit
    BY MemberParts
<1>2. /\ m \in NodeType /\ m.core = node[n].core /\ m.applied = node[n].applied
      /\ m.commit = node[n].commit /\ m.term = node[n].term
    BY <1>1 DEF NodeType
<1> HIDE DEF m
<1>3. SoundReady(Plain(m)) /\ Plain(m)[1].term <= MaxTerm
    BY <1>1, <1>2, PlainReady DEF Plain
<1>4. QED BY <1>3, OneIsSound DEF m

\* A follower that hears from a leader.
LEMMA FollowsEffect ==
    ASSUME CInv, NEW f \in Node, NEW l \in Node, node[l].term >= node[f].term,
           NEW m, m = Follower(f, l)
    PROVE  /\ m \in NodeType /\ m.core = node[f].core /\ m.applied = node[f].applied
           /\ m.commit = node[f].commit /\ m.role = "follower" /\ m.term = node[l].term
           /\ m.lead = l
           /\ m.vote = (IF node[l].term = node[f].term THEN node[f].vote ELSE NoNode)
<1>1. node[l].term \in Nat /\ node[f].term \in Nat /\ node[f] \in NodeType
    BY MemberParts
<1>2. l \in 0..N
    BY MembersAssumption DEF Node
<1>3. CASE node[f].term = node[l].term /\ node[f].role = "follower"
    <2>1. m = [node[f] EXCEPT !.lead = l]
        BY <1>3 DEF Follower
    <2>2. QED BY <2>1, <1>1, <1>2, <1>3 DEF NodeType
<1>4. CASE ~(node[f].term = node[l].term /\ node[f].role = "follower")
    <2>1. PICK t \in Nat : t = node[l].term
        BY <1>1
    <2>2. m = become_follower(node[f], t, l)
        BY <2>1, <1>4 DEF Follower
    <2>3. QED BY <2>1, <2>2, <1>1, <1>2, FollowerEffect
<1>5. QED BY <1>3, <1>4

\* The commit index moved forward to k.
LEMMA CommitToEffect ==
    ASSUME NEW nd \in NodeType, NEW k \in Nat, NEW m, m = CommitTo(nd, k)
    PROVE  /\ m \in NodeType /\ m.core = nd.core /\ m.applied = nd.applied
           /\ m.role = nd.role /\ m.term = nd.term /\ m.vote = nd.vote /\ m.lead = nd.lead
           /\ m.votes = nd.votes /\ m.asked = nd.asked
           /\ m.commit = (IF k > nd.commit THEN k ELSE nd.commit)
<1>1. nd.commit \in Nat
    BY NodeParts
<1>2. QED BY <1>1 DEF CommitTo, NodeType

\* The pieces of an append from l to f anchored at p, and of its reply.
Old(l, f, p)  == p < Follower(f, l).commit
Sent(l, f, p) == IF Old(l, f, p) \/ p = last_index(node[l].core) THEN <<>>
                 ELSE EntriesFrom(node[l].core, p + 1, p + 2)
Upto(l, f, p) == IF Old(l, f, p) THEN Follower(f, l).commit ELSE p + Len(Sent(l, f, p))
Appending(l, f, p) ==
    <<CommitTo(Follower(f, l), LesserOf(node[l].commit, Upto(l, f, p))),
      Sent(l, f, p), NoSnapshot>>
Answered(l, f, k, lost) == Plain(IF lost THEN node[l] ELSE Acknowledged(l, f, k))

LEMMA AppendEntryParts ==
    ASSUME NEW l, NEW f, AppendEntry(l, f)
    PROVE  /\ Hears(f, l) /\ UNCHANGED <<status, found, restarts>>
           /\ \E p \in Anchors(l, f), lost \in Lost :
                Turns(Two(f, Appending(l, f, p),
                          l, Answered(l, f, Upto(l, f, p), lost)), write)
BY DEF AppendEntry, Old, Sent, Upto, Appending, Answered

\* The reply of a follower to its leader.
LEMMA AnsweredEffect ==
    ASSUME CInv, NEW l \in Node, NEW f \in Node, NEW k \in Nat, NEW lost,
           NEW y, y = Answered(l, f, k, lost)
    PROVE  /\ SoundReady(y) /\ y[1].term <= MaxTerm /\ y[2] = <<>> /\ y[3] = NoSnapshot
           /\ y[1].core = node[l].core /\ y[1].role = node[l].role
           /\ y[1].term = node[l].term /\ y[1].vote = node[l].vote
           /\ y[1].votes = node[l].votes /\ y[1].asked = node[l].asked
           /\ \/ y[1].matched = node[l].matched
              \/ y[1].matched = [node[l].matched EXCEPT ![f] = IF k > @ THEN k ELSE @]
<1>1. /\ Settled(node[l]) /\ node[l] \in NodeType /\ node[l].term <= MaxTerm
      /\ Good(Data, SnapData, node[l].core)
      /\ node[l].commit <= last_index(node[l].core) /\ node[l].commit <= node[l].commit
    BY MemberParts
<1> DEFINE m == Acknowledged(l, f, k)
<1>2. /\ m \in NodeType /\ m.core = node[l].core /\ m.applied = node[l].applied
      /\ m.role = node[l].role /\ m.term = node[l].term /\ m.vote = node[l].vote
      /\ m.votes = node[l].votes /\ m.asked = node[l].asked
      /\ node[l].commit <= m.commit /\ m.commit <= last_index(node[l].core)
      /\ m.matched = [node[l].matched EXCEPT ![f] = IF k > @ THEN k ELSE @]
    <2>1. m = MaybeCommit(Heard(node[l], f, k), l)
        BY DEF Acknowledged, Heard
    <2> HIDE DEF m
    <2>2. QED BY <1>1, <2>1, AcknowledgedEffect
<1> HIDE DEF m
<1>3. SoundReady(Plain(m)) /\ SoundReady(Plain(node[l]))
    BY <1>1, <1>2, PlainReady
<1>4. y = Plain(node[l]) \/ y = Plain(m)
    BY DEF Answered, m
<1>5. CASE y = Plain(node[l])
    <2>1. y[1] = node[l] /\ y[2] = <<>> /\ y[3] = NoSnapshot
        BY <1>5 DEF Plain
    <2>2. QED BY <2>1, <1>1, <1>3, <1>5
<1>6. CASE y = Plain(m)
    <2>1. y[1] = m /\ y[2] = <<>> /\ y[3] = NoSnapshot
        BY <1>6 DEF Plain
    <2>2. QED BY <2>1, <1>1, <1>2, <1>3, <1>6
<1>7. QED BY <1>4, <1>5, <1>6

\* What a follower takes from an append: nothing, or the leader's entry after
\* one they both hold.
LEMMA AppendingSound ==
    ASSUME CInv, NEW l \in Node, NEW f \in Node, Hears(f, l), NEW p \in Anchors(l, f),
           NEW x, x = Appending(l, f, p)
    PROVE  /\ SoundReady(x) /\ x[3] = NoSnapshot
           /\ x[1].role = "follower" /\ x[1].term = node[l].term
           /\ x[1].core = node[f].core
           /\ x[1].vote = (IF node[l].term = node[f].term THEN node[f].vote ELSE NoNode)
           /\ p \in Nat /\ node[l].matched[f] <= p /\ Upto(l, f, p) \in Nat
           /\ \/ x[2] = <<>> /\ Upto(l, f, p) <= last_index(node[f].core)
              \/ /\ x[2] = <<At(node[l].core, p + 1)>> /\ Upto(l, f, p) <= p + 1
                 /\ p \in Held(node[l].core) /\ p + 1 \in Held(node[l].core)
                 /\ p \in Held(node[f].core)
                 /\ term(node[f].core, p) = term(node[l].core, p)
<1> DEFINE lc == node[l].core
           fc == node[f].core
           fl == Follower(f, l)
           u  == Upto(l, f, p)
           k  == LesserOf(node[l].commit, u)
           m  == CommitTo(fl, k)
<1>1. /\ Settled(node[f]) /\ node[f].commit \in Nat /\ Good(Data, SnapData, fc)
      /\ fc.offset \in Nat /\ last_index(fc) \in Nat /\ fc.offset <= node[f].commit
      /\ node[f].commit <= last_index(fc) /\ fc.hs.commit = node[f].commit
      /\ node[f].applied <= node[f].commit
    BY MemberParts DEF Settled
<1>2. /\ Good(Data, SnapData, lc) /\ node[l].commit \in Nat
      /\ lc.offset \in Nat /\ last_index(lc) \in Nat
    BY MemberParts
<1>3. /\ fl \in NodeType /\ fl.core = fc /\ fl.applied = node[f].applied
      /\ fl.commit = node[f].commit /\ fl.role = "follower" /\ fl.term = node[l].term
      /\ fl.vote = (IF node[l].term = node[f].term THEN node[f].vote ELSE NoNode)
    BY FollowsEffect DEF Hears
<1>4. /\ p \in Held(lc) /\ node[l].matched[f] <= p
      /\ p < node[f].commit \/ (p \in Held(fc) /\ term(fc, p) = term(lc, p))
    <2>1. node[l].matched[f] \in Nat
        BY MemberParts
    <2>2. p \in Int
        BY <1>2 DEF Anchors
    <2>3. QED BY <2>1, <2>2 DEF Anchors, Held
<1>5. p \in Nat /\ lc.offset <= p /\ p <= last_index(lc)
    BY <1>2, <1>4 DEF Held
<1>6. x[1] = m /\ x[2] = Sent(l, f, p) /\ x[3] = NoSnapshot
    BY DEF Appending
<1> HIDE DEF fl, m, k, u
<1>7. ASSUME u \in Nat
      PROVE  /\ k \in Nat /\ k <= u
             /\ m \in NodeType /\ m.core = fc /\ m.applied = node[f].applied
             /\ m.role = "follower" /\ m.term = node[l].term /\ m.vote = fl.vote
             /\ m.commit \in Nat /\ node[f].commit <= m.commit
             /\ m.commit = node[f].commit \/ m.commit <= u
    <2>1. PICK k0 \in Nat : k0 = k /\ k0 <= u
        BY <1>2, <1>7 DEF k, LesserOf
    <2>2. /\ m \in NodeType /\ m.core = fl.core /\ m.applied = fl.applied
          /\ m.role = fl.role /\ m.term = fl.term /\ m.vote = fl.vote
          /\ m.commit = (IF k0 > fl.commit THEN k0 ELSE fl.commit)
        BY <2>1, <1>3, CommitToEffect DEF m
    <2>3. QED BY <2>1, <2>2, <1>1, <1>3
<1>8. CASE Old(l, f, p)
    <2>1. Sent(l, f, p) = <<>> /\ u = node[f].commit
        BY <1>3, <1>8 DEF Sent, Upto, u, fl
    <2>2. m.commit = node[f].commit
        BY <2>1, <1>1, <1>7
    <2>3. SoundReady(Plain(m))
        BY <2>1, <2>2, <1>1, <1>7, PlainReady
    <2>4. x = Plain(m)
        BY <2>1 DEF Appending, Plain, m, k, u, fl
    <2>5. QED BY <2>1, <2>3, <2>4, <1>1, <1>3, <1>4, <1>5, <1>6, <1>7 DEF u
<1>9. CASE ~Old(l, f, p) /\ p = last_index(lc)
    <2>1. Sent(l, f, p) = <<>> /\ Len(<<>>) = 0
        BY <1>9 DEF Sent
    <2>2. u = p + 0
        BY <2>1, <1>9 DEF Upto, u
    <2>3. p \in Held(fc)
        BY <1>3, <1>4, <1>9 DEF Old, fl
    <2>4. u \in Nat /\ u <= last_index(fc)
        BY <2>2, <2>3, <1>1, <1>5 DEF Held
    <2>5. m.commit <= last_index(fc)
        BY <2>4, <1>1, <1>7
    <2>6. SoundReady(Plain(m))
        BY <2>4, <2>5, <1>1, <1>7, PlainReady
    <2>7. x = Plain(m)
        BY <2>1 DEF Appending, Plain, m, k, u, fl
    <2>8. QED BY <2>1, <2>4, <2>6, <2>7, <1>3, <1>4, <1>5, <1>6, <1>7 DEF u
<1>10. CASE ~Old(l, f, p) /\ p # last_index(lc)
    <2> DEFINE e == At(lc, p + 1)
    <2>1. p < last_index(lc)
        BY <1>2, <1>5, <1>10
    <2>2. Sent(l, f, p) = <<e>> /\ p + 1 \in Held(lc)
        BY <2>1, <1>2, <1>5, <1>10, OneEntry DEF Sent
    <2>3. e \in EntryType(Data) /\ e.index = p + 1
        BY <2>2, <1>2, LogNumbers
    <2> HIDE DEF e
    <2>4. Len(<<e>>) = 1
        OBVIOUS
    <2>5. u = p + 1 /\ u \in Nat
        BY <2>2, <2>4, <1>5, <1>10 DEF Upto, u
    <2>6. p \in Held(fc) /\ term(fc, p) = term(lc, p) /\ node[f].commit <= p
        BY <1>1, <1>3, <1>4, <1>5, <1>10 DEF Old, fl
    <2>7. p <= last_index(fc)
        BY <2>6, <1>1, <1>5 DEF Held
    <2>8. /\ fc.hs.commit < e.index /\ e.index <= last_index(fc) + 1
          /\ m.commit <= e.index
        BY <2>3, <2>5, <2>6, <2>7, <1>1, <1>5, <1>7
    <2>9. SoundReady(x)
        BY <2>2, <2>3, <2>5, <2>8, <1>1, <1>6, <1>7 DEF SoundReady
    <2>10. x[2] = <<At(lc, p + 1)>>
        BY <2>2, <1>6 DEF e
    <2>11. u <= p + 1
        BY <2>5, <1>5
    <2>12. QED BY <2>2, <2>5, <2>6, <2>9, <2>10, <2>11, <1>3, <1>4, <1>5, <1>6, <1>7 DEF u
<1>11. QED BY <1>8, <1>9, <1>10

LEMMA AppendEntrySound ==
    ASSUME CInv, NEW l \in Node, NEW f \in Node, Hears(f, l), NEW p \in Anchors(l, f),
           NEW lost
    PROVE  SoundTurns(Two(f, Appending(l, f, p), l, Answered(l, f, Upto(l, f, p), lost)))
<1>1. /\ SoundReady(Appending(l, f, p)) /\ Appending(l, f, p)[1].term = node[l].term
      /\ Upto(l, f, p) \in Nat
    BY AppendingSound
<1>2. PICK k \in Nat : k = Upto(l, f, p)
    BY <1>1
<1>3. /\ SoundReady(Answered(l, f, k, lost)) /\ Answered(l, f, k, lost)[1].term <= MaxTerm
    BY AnsweredEffect
<1>4. node[l].term <= MaxTerm
    BY MemberParts
<1>5. QED BY <1>1, <1>2, <1>3, <1>4, TwoAreSound

\* What a follower takes from a heartbeat: a commit index its log has.
Beaten(l, f) == CommitTo(Follower(f, l), HeartbeatCommit(l, f))

LEMMA HeartbeatSound ==
    ASSUME CInv, NEW l \in Node, NEW f \in Node, Heartbeat(l, f)
    PROVE  LET m == Beaten(l, f) IN
           /\ SoundReady(Plain(m)) /\ SoundTurns(One(f, Plain(m)))
           /\ m.role = "follower" /\ m.term = node[l].term /\ m.core = node[f].core
           /\ m.vote = (IF node[l].term = node[f].term THEN node[f].vote ELSE NoNode)
<1> DEFINE m == Beaten(l, f)
<1>1. /\ Settled(node[f]) /\ node[f].commit \in Nat
      /\ node[f].commit <= last_index(node[f].core) /\ last_index(node[f].core) \in Nat
    BY MemberParts
<1>2. /\ node[l].matched \in [Node -> Nat] /\ node[l].commit \in Nat
      /\ node[l].term <= MaxTerm
    BY MemberParts
<1>3. /\ Follower(f, l) \in NodeType /\ Follower(f, l).core = node[f].core
      /\ Follower(f, l).applied = node[f].applied
      /\ Follower(f, l).commit = node[f].commit
      /\ Follower(f, l).role = "follower" /\ Follower(f, l).term = node[l].term
      /\ Follower(f, l).vote = (IF node[l].term = node[f].term THEN node[f].vote ELSE NoNode)
    BY FollowsEffect DEF Hears, Heartbeat
<1>4. PICK k \in Nat : k = HeartbeatCommit(l, f) /\ k <= last_index(node[f].core)
    BY <1>2 DEF HeartbeatCommit, LesserOf, Heartbeat
<1>5. m = CommitTo(Follower(f, l), k)
    BY <1>4 DEF Beaten
<1> HIDE DEF m
<1>6. /\ m \in NodeType /\ m.core = node[f].core /\ m.applied = node[f].applied
      /\ m.role = "follower" /\ m.term = node[l].term /\ m.vote = Follower(f, l).vote
      /\ m.commit = (IF k > node[f].commit THEN k ELSE node[f].commit)
    BY <1>3, <1>5, CommitToEffect
<1>7. node[f].commit <= m.commit /\ m.commit <= last_index(node[f].core)
    BY <1>1, <1>4, <1>6
<1>8. SoundReady(Plain(m)) /\ Plain(m)[1] = m
    BY <1>1, <1>6, <1>7, PlainReady DEF Plain
<1>9. SoundTurns(One(f, Plain(m)))
    BY <1>2, <1>6, <1>8, OneIsSound
<1>10. QED BY <1>3, <1>6, <1>8, <1>9 DEF m

\* The pieces of a snapshot message from l to f.
Taken(l, f) == LET fl == Follower(f, l)  s == node[l].core.snap IN
               IF s.index <= fl.commit THEN fl ELSE [fl EXCEPT !.commit = s.index]
Has(l, f)   == LET fl == Follower(f, l)  s == node[l].core.snap IN
               s.index <= last_index(fl.core) /\ term(fl.core, s.index) = s.term
Skipped(l, f) == node[l].core.snap.index <= Follower(f, l).commit \/ Has(l, f)
Installing(l, f) == <<Taken(l, f), <<>>,
                      IF Skipped(l, f) THEN NoSnapshot ELSE node[l].core.snap>>

LEMMA SendSnapshotParts ==
    ASSUME NEW l, NEW f, SendSnapshot(l, f)
    PROVE  /\ Hears(f, l) /\ UNCHANGED <<status, found, restarts>>
           /\ node[l].matched[f] < node[l].core.offset
           /\ \E lost \in Lost :
                Turns(Two(f, Installing(l, f),
                          l, Answered(l, f, Taken(l, f).commit, lost)), write)
BY DEF SendSnapshot, Taken, Has, Skipped, Installing, Answered

LEMMA InstallingSound ==
    ASSUME CInv, NEW l \in Node, NEW f \in Node, Hears(f, l), NEW x, x = Installing(l, f)
    PROVE  /\ SoundReady(x) /\ x[2] = <<>>
           /\ x[1].role = "follower" /\ x[1].term = node[l].term
           /\ x[1].core = node[f].core
           /\ x[1].vote = (IF node[l].term = node[f].term THEN node[f].vote ELSE NoNode)
           /\ Taken(l, f).commit \in Nat
           /\ \/ x[3] = NoSnapshot /\ Taken(l, f).commit <= last_index(node[f].core)
              \/ /\ x[3] = node[l].core.snap /\ x[3].index # 0
                 /\ Taken(l, f).commit = x[3].index
<1> DEFINE s  == node[l].core.snap
           fc == node[f].core
           fl == Follower(f, l)
           m  == Taken(l, f)
<1>1. /\ Settled(node[f]) /\ node[f].commit \in Nat /\ Good(Data, SnapData, fc)
      /\ fc.offset \in Nat /\ last_index(fc) \in Nat /\ fc.offset <= node[f].commit
      /\ node[f].commit <= last_index(fc) /\ fc.hs.commit = node[f].commit
      /\ node[f].applied <= node[f].commit /\ node[f].commit <= node[f].commit
    BY MemberParts DEF Settled
<1>2. s \in SnapType(SnapData) /\ s.index \in Nat
    <2>1. node[l].core \in CoreType(Data, SnapData)
        BY MemberParts DEF Good
    <2>2. QED BY <2>1, CoreParts
<1>3. /\ fl \in NodeType /\ fl.core = fc /\ fl.applied = node[f].applied
      /\ fl.commit = node[f].commit /\ fl.role = "follower" /\ fl.term = node[l].term
      /\ fl.vote = (IF node[l].term = node[f].term THEN node[f].vote ELSE NoNode)
    BY FollowsEffect DEF Hears
<1> HIDE DEF fl, s
<1>4. /\ m \in NodeType /\ m.core = fc /\ m.applied = node[f].applied
      /\ m.role = "follower" /\ m.term = node[l].term /\ m.vote = fl.vote
      /\ m.commit = (IF s.index <= node[f].commit THEN node[f].commit ELSE s.index)
    BY <1>2, <1>3 DEF Taken, NodeType, fl, s
<1>5. /\ x[1] = m /\ x[2] = <<>>
      /\ x[3] = IF Skipped(l, f) THEN NoSnapshot ELSE s
    BY DEF Installing, s
<1>6. Skipped(l, f) <=> s.index <= node[f].commit \/ Has(l, f)
    BY <1>3 DEF Skipped, fl, s
<1> HIDE DEF m
<1>7. CASE Skipped(l, f)
    <2>1. node[f].commit <= m.commit /\ m.commit <= last_index(fc)
        <3>1. CASE s.index <= node[f].commit
            BY <3>1, <1>1, <1>4
        <3>2. CASE ~(s.index <= node[f].commit) /\ Has(l, f)
            <4>1. s.index <= last_index(fc)
                BY <3>2, <1>3 DEF Has, fl, s
            <4>2. QED BY <3>2, <4>1, <1>1, <1>2, <1>4
        <3>3. QED BY <3>1, <3>2, <1>6, <1>7
    <2>2. SoundReady(Plain(m))
        BY <2>1, <1>1, <1>4, PlainReady
    <2>3. x = Plain(m)
        BY <1>7 DEF Installing, Plain, m
    <2>4. m.commit \in Nat
        BY <1>1, <1>2, <1>4
    <2>5. QED BY <2>1, <2>2, <2>3, <2>4, <1>3, <1>4, <1>5, <1>7 DEF m
<1>8. CASE ~Skipped(l, f)
    <2>1. m.commit = s.index /\ node[f].commit < s.index /\ s.index # 0
        BY <1>1, <1>2, <1>4, <1>6, <1>8
    <2>2. node[f].commit <= m.commit /\ x[3] = s
        BY <2>1, <1>1, <1>2, <1>5, <1>8
    <2>3. SoundReady(x)
        BY <2>1, <2>2, <1>1, <1>2, <1>4, <1>5 DEF SoundReady
    <2>4. QED BY <2>1, <2>2, <2>3, <1>2, <1>3, <1>4, <1>5 DEF m, s
<1>9. QED BY <1>7, <1>8

LEMMA SendSnapshotSound ==
    ASSUME CInv, NEW l \in Node, NEW f \in Node, Hears(f, l), NEW lost
    PROVE  SoundTurns(Two(f, Installing(l, f),
                          l, Answered(l, f, Taken(l, f).commit, lost)))
<1>1. /\ SoundReady(Installing(l, f)) /\ Installing(l, f)[1].term = node[l].term
    BY InstallingSound
<1>2. PICK k \in Nat : k = Taken(l, f).commit
    BY InstallingSound
<1>3. /\ SoundReady(Answered(l, f, k, lost)) /\ Answered(l, f, k, lost)[1].term <= MaxTerm
    BY AnsweredEffect
<1>4. node[l].term <= MaxTerm
    BY MemberParts
<1>5. QED BY <1>1, <1>2, <1>3, <1>4, TwoAreSound

\* A leader appends a proposal.
LEMMA ProposeSound ==
    ASSUME CInv, NEW n \in Node, NEW w \in Write
    PROVE  /\ SoundReady(<<node[n], NextEntry(node[n], w), NoSnapshot>>)
           /\ SoundTurns(One(n, <<node[n], NextEntry(node[n], w), NoSnapshot>>))
<1>1. Settled(node[n]) /\ node[n] \in NodeType /\ node[n].term <= MaxTerm /\ w \in Data
    BY MemberParts DEF Data
<1>2. SoundReady(<<node[n], NextEntry(node[n], w), NoSnapshot>>)
    BY <1>1, NextEntryReady
<1>3. QED BY <1>1, <1>2, OneIsSound
-----------------------------------------------------------------------------
(***************************************************************************)
(* Starts.                                                                 *)
(***************************************************************************)

\* A member booted from a good storage that its hard state commits.
LEMMA BootEffect ==
    ASSUME NEW c, Good(Data, SnapData, c), c.offset <= c.hs.commit,
           c.hs.commit <= last_index(c), c.hs.vote = NoNode,
           NEW store \in Stores, NEW m, m = BootNode(c, store)
    PROVE  /\ Settled(m) /\ m \in NodeType /\ m.term = c.hs.term
           /\ m.core = c /\ m.role = "follower" /\ m.commit = c.hs.commit
<1>1. c.hs \in HsType /\ c \in CoreType(Data, SnapData)
    BY CoreParts DEF Good
<1>2. /\ c.hs.term \in Nat /\ c.hs.commit \in Nat
      /\ c.hs = HardState(c.hs.term, c.hs.vote, c.hs.commit)
    BY <1>1 DEF HsType, HardState
<1>3. NoNode \in 0..N /\ {} \in SUBSET Node /\ [f \in Node |-> 0] \in [Node -> Nat]
    BY MembersAssumption DEF NoNode
<1>4. /\ m.role = "follower" /\ m.term = c.hs.term /\ m.vote = NoNode
      /\ m.commit = c.hs.commit /\ m.core = c /\ m.applied = 0
    BY DEF BootNode
<1>5. m \in NodeType
    BY <1>1, <1>2, <1>3 DEF BootNode, NodeType
<1>6. Settled(m)
    BY <1>2, <1>4, <1>5 DEF Settled
<1>7. QED BY <1>4, <1>5, <1>6

\* The storage a start is given: new, or seeded.
LEMMA NewStorage ==
    /\ Good(Data, SnapData, New(0)) /\ New(0).offset = 0 /\ last_index(New(0)) = 0
    /\ New(0).hs.commit = 0 /\ New(0).hs.term = 0 /\ New(0).hs.vote = NoNode
<1>1. NoData \in Data /\ NoData \in SnapData
    BY DEF Data, SnapData
<1>2. QED BY <1>1, NewIsGood DEF New, HardState, NoNode

LEMMA SeededStorage ==
    ASSUME CInv, NEW n \in Node, NEW c, c = Seeded(n)
    PROVE  /\ Good(Data, SnapData, c) /\ c.hs.commit = c.offset
           /\ last_index(c) = c.offset /\ c.hs.vote = NoNode
           /\ c.hs.term \in Nat /\ c.hs.term <= MaxTerm
           /\ N = 1 => c = New(0)
<1> DEFINE i == found[n].committed
           t == found[n].term
           s == Snapshot(i, t, NoData)
           b == apply_snapshot(New(0), s)
           h == HardState(t, NoNode, i)
<1>1. i \in Nat /\ t \in Nat /\ t <= MaxTerm
    BY BoundsAssumption DEF CInv, TypeOK
<1>2. CASE i = 0
    <2>1. c = New(0)
        BY <1>2 DEF Seeded
    <2>2. 0 <= MaxTerm /\ 0 \in Nat
        BY BoundsAssumption
    <2>3. QED BY <2>1, <2>2, NewStorage
<1>3. CASE i # 0
    <2>1. /\ s \in SnapType(SnapData) /\ s.index = i /\ New(0).offset < s.index
          /\ Good(Data, SnapData, New(0))
        BY <1>1, <1>3, NewStorage DEF Snapshot, SnapType, SnapData
    <2>2. h \in HsType /\ h.commit = i /\ h.term = t /\ h.vote = NoNode
        BY <1>1 DEF HardState, HsType, NoNode
    <2>3. c = set_hard_state(b, h)
        BY <1>3 DEF Seeded
    <2> HIDE DEF s, b, h, i, t
    <2>4. Good(Data, SnapData, b) /\ b.offset = s.index /\ last_index(b) = s.index
        BY <2>1, ApplySnapshotReplacesLog DEF b
    <2>5. /\ Good(Data, SnapData, c) /\ c.offset = b.offset /\ c.hs = h
          /\ last_index(c) = last_index(b)
        BY <2>2, <2>3, <2>4, SetHardStateKeepsLog
    <2>6. N # 1
        BY <1>3 DEF CInv, NothingFound, i
    <2>7. QED BY <2>1, <2>2, <2>4, <2>5, <2>6, <1>1
<1>4. QED BY <1>2, <1>3

\* A member starts: on its own, it also elects itself.
LEMMA StartedIsSettled ==
    ASSUME NEW n \in Node, NEW c, Good(Data, SnapData, c), c.hs.commit = c.offset,
           last_index(c) = c.offset, c.hs.vote = NoNode, c.hs.term \in Nat,
           c.hs.term <= MaxTerm, N = 1 => c = New(0),
           NEW store \in Stores, NEW m, m = Started(n, c, store)
    PROVE  /\ Settled(m) /\ m \in NodeType /\ m.term <= MaxTerm
           /\ m.role = "leader" => N = 1
<1> DEFINE nd == BootNode(c, store)
           cd == become_candidate(nd, n)
           ld == become_leader(cd, n)
           x  == <<ld, NextEntry(ld, NoData), NoSnapshot>>
<1>1. c.offset <= c.hs.commit /\ c.hs.commit <= last_index(c)
    BY LogNumbers
<1>2. /\ Settled(nd) /\ nd \in NodeType /\ nd.term = c.hs.term
      /\ nd.role = "follower"
    BY <1>1, BootEffect
<1>3. CASE N # 1
    <2>1. m = nd
        BY <1>3 DEF Started
    <2>2. QED BY <2>1, <1>2, <1>3
<1>4. CASE N = 1
    <2>1. c.hs.term = 0 /\ nd.term = 0
        BY <1>2, <1>4, NewStorage
    <2> HIDE DEF nd
    <2>2. /\ cd \in NodeType /\ cd.term = 1 /\ cd.core = nd.core
          /\ cd.applied = nd.applied /\ cd.commit = nd.commit
        BY <2>1, <1>2, CandidateEffect
    <2> HIDE DEF cd
    <2>3. /\ ld \in NodeType /\ ld.term = 1 /\ ld.core = nd.core
          /\ ld.applied = nd.applied /\ ld.commit = nd.commit
        BY <2>2, LeaderEffect
    <2>4. m = After(x)
        BY <1>4 DEF Started, After, nd, cd
    <2>5. x[1] = ld
        OBVIOUS
    <2> HIDE DEF ld
    <2>6. NoData \in Data
        BY DEF Data
    <2>7. SoundReady(x)
        BY <2>3, <2>6, <1>2, NextEntryReady
    <2> HIDE DEF x
    <2>8. Settled(m) /\ m.term = ld.term
        BY <2>4, <2>5, <2>7, TurnIsSound
    <2>9. m.term <= MaxTerm
        BY <2>3, <2>8, BoundsAssumption
    <2>10. QED BY <2>8, <2>9, <1>4 DEF Settled
<1>5. QED BY <1>3, <1>4

LEMMA InitSound == ASSUME Init PROVE CInv
<1>1. EmptyStore \in Stores
    BY DEF EmptyStore, Stores, Data
<1>2. ASSUME NEW n \in Node
      PROVE  LET m == Started(n, New(0), EmptyStore) IN
             Settled(m) /\ m \in NodeType /\ m.term <= MaxTerm
    <2>1. /\ New(0).hs.commit = New(0).offset /\ last_index(New(0)) = New(0).offset
          /\ New(0).hs.term \in Nat /\ New(0).hs.term <= MaxTerm
        BY NewStorage, BoundsAssumption
    <2>2. QED BY <2>1, <1>1, NewStorage, StartedIsSettled
<1>3. /\ node \in [Node -> NodeType]
      /\ \A n \in Node : Settled(node[n]) /\ node[n].term <= MaxTerm
    BY <1>2 DEF Init
<1>4. /\ status \in [Node -> {"probing", "up", "panicked"}]
      /\ restarts \in 0..MaxRestarts /\ history \subseteq Nat \X Data
    BY BoundsAssumption DEF Init, Data
<1>5. found \in [Node -> [leader : 0..N, term : 0..MaxTerm, committed : Nat, peer : 1..N]]
    BY BoundsAssumption, MembersAssumption DEF Init, NothingFound, NoNode
<1>6. write \in [Write -> Progress]
    BY MembersAssumption DEF Init, Put, Progress, NoNode
<1>7. QED BY <1>3, <1>4, <1>5, <1>6 DEF CInv, TypeOK, Init
-----------------------------------------------------------------------------
\* Steps that move only the writes on keep the invariant.
LEMMA WritesMove ==
    ASSUME CInv, write' \in [Write -> Progress], UNCHANGED <<node, found, history, restarts>>,
           status' \in [Node -> {"probing", "up", "panicked"}]
    PROVE  CInv'
BY DEF CInv, TypeOK

LEMMA AnswerSound ==
    ASSUME CInv, NEW w \in Write, NEW n \in Node,
           NEW st \in {"forwarded", "queued", "pending", "ok", "error"},
           Answer(w, n, st)
    PROVE  write' \in [Write -> Progress]
BY DEF CInv, TypeOK, Answer, Put, Progress

\* A write that was sent is at some member.
LEMMA WriteIsSomewhere ==
    ASSUME CInv, NEW w \in Write, write[w].st # "new"
    PROVE  write[w].at \in Node
BY DEF CInv, TypeOK, Progress

LEMMA PutFlagfileSound ==
    ASSUME CInv, NEW w \in Write, NEW n \in Node, PutFlagfile(w, n)
    PROVE  CInv'
<1>1. PICK l \in 0..N : l = node[n].lead
    BY MemberParts, NodeParts
<1>2. write' \in [Write -> Progress]
    <2>1. CASE Answer(w, n, "queued") \/ Answer(w, n, "error")
        BY <2>1, AnswerSound
    <2>2. CASE l # NoNode /\ Answer(w, l, "forwarded")
        <3>1. l \in Node
            BY <2>2, MembersAssumption DEF Node, NoNode
        <3>2. QED BY <2>2, <3>1, AnswerSound
    <2>3. QED BY <1>1, <2>1, <2>2 DEF PutFlagfile, Enqueue
<1>3. QED BY <1>2, WritesMove DEF PutFlagfile, CInv, TypeOK

LEMMA ForwardWriteSound ==
    ASSUME CInv, NEW w \in Write, ForwardWrite(w)
    PROVE  CInv'
<1>1. PICK n \in Node : n = write[w].at
    BY WriteIsSomewhere DEF ForwardWrite
<1>2. write' \in [Write -> Progress]
    <2>1. Answer(w, n, "queued") \/ Answer(w, n, "error")
        BY <1>1 DEF ForwardWrite, Enqueue
    <2>2. QED BY <2>1, <1>1, AnswerSound
<1>3. QED BY <1>2, WritesMove DEF ForwardWrite, CInv, TypeOK

LEMMA ProposalDroppedSound ==
    ASSUME CInv, NEW w \in Write, ProposalDropped(w)
    PROVE  CInv'
<1>1. PICK n \in Node : n = write[w].at
    BY WriteIsSomewhere DEF ProposalDropped
<1>2. write' \in [Write -> Progress]
    BY <1>1, AnswerSound DEF ProposalDropped
<1>3. QED BY <1>2, WritesMove DEF ProposalDropped, CInv, TypeOK

LEMMA HeartbeatPanicsSound ==
    ASSUME CInv, NEW l \in Node, NEW f \in Node, HeartbeatPanics(l, f)
    PROVE  CInv'
<1>1. f \in 0..N
    BY MembersAssumption DEF Node
<1>2. write' \in [Write -> Progress]
    BY <1>1 DEF HeartbeatPanics, CInv, TypeOK, Put, Progress
<1>3. status' \in [Node -> {"probing", "up", "panicked"}]
    BY DEF HeartbeatPanics, CInv, TypeOK
<1>4. QED BY <1>2, <1>3, WritesMove DEF HeartbeatPanics

\* A restart leaves a member with an empty log, and with its store if it is durable.
LEMMA RestartSound ==
    ASSUME CInv, NEW n \in Node, Restart(n)
    PROVE  CInv'
<1> DEFINE store == IF Durable THEN node[n].store ELSE EmptyStore
           m == BootNode(New(0), store)
<1>1. store \in Stores
    <2>1. node[n].store \in Stores /\ EmptyStore \in Stores
        BY MemberParts, NodeParts DEF EmptyStore, Stores, Data
    <2>2. QED BY <2>1
<1>2. New(0).offset <= New(0).hs.commit /\ New(0).hs.commit <= last_index(New(0))
    BY NewStorage
<1> HIDE DEF store
<1>3. Settled(m) /\ m \in NodeType /\ m.term = 0
    BY <1>1, <1>2, NewStorage, BootEffect
<1> HIDE DEF m
<1>4. node' = [node EXCEPT ![n] = m]
    BY DEF Restart, m, store
<1>5. /\ node' \in [Node -> NodeType]
      /\ \A k \in Node : Settled(node'[k]) /\ node'[k].term <= MaxTerm
    BY <1>3, <1>4, BoundsAssumption DEF CInv, TypeOK
<1>6. NothingFound \in [leader : 0..N, term : 0..MaxTerm, committed : Nat, peer : 1..N]
    BY BoundsAssumption, MembersAssumption DEF NothingFound, NoNode
<1>7. /\ found' = [found EXCEPT ![n] = NothingFound]
      /\ found' \in [Node -> [leader : 0..N, term : 0..MaxTerm, committed : Nat, peer : 1..N]]
    BY <1>6 DEF Restart, CInv, TypeOK
<1>8. write' \in [Write -> Progress]
    <2>1. n \in 0..N
        BY MembersAssumption DEF Node
    <2>2. QED BY <2>1 DEF Restart, CInv, TypeOK, Put, Progress
<1>9. /\ restarts' \in 0..MaxRestarts /\ history' = history
      /\ status' \in [Node -> {"probing", "up", "panicked"}]
    BY BoundsAssumption DEF Restart, CInv, TypeOK
<1>10. N = 1 => \A k \in Node : found'[k] = NothingFound
    BY <1>7 DEF CInv, TypeOK
<1>11. QED BY <1>5, <1>7, <1>8, <1>9, <1>10 DEF CInv, TypeOK

LEMMA ProbePeerSound ==
    ASSUME CInv, NEW n \in Node, ProbePeer(n)
    PROVE  CInv'
<1> DEFINE F == [leader : 0..N, term : 0..MaxTerm, committed : Nat, peer : 1..N]
<1>1. found \in [Node -> F] /\ N \in Nat \ {0} /\ found[n].peer < N
    BY MembersAssumption DEF CInv, TypeOK, ProbePeer
<1>2. PICK k \in 1..N : k = found[n].peer
    BY <1>1
<1>3. k < N /\ k + 1 \in 1..N
    BY <1>1, <1>2
<1>4. Peer(n, k) \in Node
    BY <1>3, MembersAssumption DEF Peer, Node
<1>5. PICK p \in Node : p = Peer(n, k)
    BY <1>4
<1>6. node[p] \in NodeType /\ node[p].term \in Nat /\ node[p].term <= MaxTerm
    BY MemberParts
<1>7. /\ node[p].lead \in 0..N /\ node[p].seen \in Nat /\ node[p].term \in 0..MaxTerm
    BY <1>6, NodeParts, BoundsAssumption
<1> DEFINE known == [leader |-> node[p].lead, term |-> node[p].term,
                     committed |-> node[p].seen, peer |-> k]
           asked == [found[n] EXCEPT !.peer = k + 1]
<1>8. known \in F
    BY <1>7
<1>9. asked \in F
    <2>1. found[n] \in F
        BY <1>1
    <2>2. QED BY <2>1, <1>3
<1>10. found' = [found EXCEPT ![n] = known] \/ found' = [found EXCEPT ![n] = asked]
    BY <1>1, <1>2, <1>5 DEF ProbePeer
<1> HIDE DEF F, known, asked
<1>11. found' \in [Node -> F]
    BY <1>1, <1>8, <1>9, <1>10
<1>12. N # 1
    BY <1>1, <1>2, <1>3
<1>13. QED BY <1>11, <1>12 DEF F, ProbePeer, CInv, TypeOK

LEMMA BootstrapAndStartSound ==
    ASSUME CInv, NEW n \in Node, BootstrapAndStart(n)
    PROVE  CInv'
<1>1. PICK store \in Bootstrapped(n) :
        node' = [node EXCEPT ![n] = Started(n, Seeded(n), store)]
    BY DEF BootstrapAndStart
<1>2. store \in Stores
    <2> DEFINE source == IF found[n].leader # NoNode THEN found[n].leader ELSE Peer(n, 1)
    <2>1. found[n].leader \in 0..N
        BY DEF CInv, TypeOK
    <2>2. N # 1 => source \in Node
        <3>1. N # 1 => Peer(n, 1) \in Node
            BY MembersAssumption DEF Peer, Node
        <3>2. QED BY <2>1, <3>1, MembersAssumption DEF Node, NoNode
    <2>3. node[n].store \in Stores /\ (N # 1 => node[source].store \in Stores)
        BY <2>2, MemberParts, NodeParts
    <2> HIDE DEF source
    <2>4. store = node[n].store \/ (N # 1 /\ store = node[source].store)
        BY DEF Bootstrapped, source
    <2>5. QED BY <2>3, <2>4
<1> DEFINE c == Seeded(n)
           m == Started(n, c, store)
<1>3. /\ Good(Data, SnapData, c) /\ c.hs.commit = c.offset
      /\ last_index(c) = c.offset /\ c.hs.vote = NoNode
      /\ c.hs.term \in Nat /\ c.hs.term <= MaxTerm
      /\ N = 1 => c = New(0)
    BY SeededStorage
<1>4. node' = [node EXCEPT ![n] = m]
    BY <1>1
<1> HIDE DEF c
<1>5. Settled(m) /\ m \in NodeType /\ m.term <= MaxTerm
    BY <1>2, <1>3, StartedIsSettled
<1> HIDE DEF m
<1>6. /\ node' \in [Node -> NodeType]
      /\ \A k \in Node : Settled(node'[k]) /\ node'[k].term <= MaxTerm
    BY <1>4, <1>5 DEF CInv, TypeOK
<1>7. NothingFound \in [leader : 0..N, term : 0..MaxTerm, committed : Nat, peer : 1..N]
    BY BoundsAssumption, MembersAssumption DEF NothingFound, NoNode
<1>8. /\ found' \in [Node -> [leader : 0..N, term : 0..MaxTerm, committed : Nat, peer : 1..N]]
      /\ N = 1 => \A k \in Node : found'[k] = NothingFound
    BY <1>7 DEF BootstrapAndStart, CInv, TypeOK
<1>9. /\ history' \subseteq Nat \X Data /\ status' \in [Node -> {"probing", "up", "panicked"}]
      /\ UNCHANGED <<write, restarts>>
    BY DEF BootstrapAndStart, CInv, TypeOK, Data
<1>10. QED BY <1>6, <1>8, <1>9 DEF CInv, TypeOK

\* A proposal is appended by a leader, or by nobody.
Proposed(w) == [write EXCEPT ![w].st = "pending"]

LEMMA ProposalTurns ==
    ASSUME CInv, NEW w \in Write, ProposeAsLeader(w) \/ ProposeAsFollower(w)
    PROVE  /\ Proposed(w) \in [Write -> Progress] /\ UNCHANGED <<status, found, restarts>>
           /\ \/ \E n \in Node :
                    /\ Leads(n)
                    /\ Turns(One(n, <<node[n], NextEntry(node[n], w), NoSnapshot>>), Proposed(w))
              \/ Turns(<<>>, Proposed(w))
<1>1. write[w].st = "queued" /\ UNCHANGED <<status, found, restarts>>
    BY DEF ProposeAsLeader, ProposeAsFollower
<1>2. write \in [Write -> Progress]
    BY DEF CInv, TypeOK
<1>3. write[w].at \in Node /\ Proposed(w) \in [Write -> Progress]
    BY <1>1, <1>2 DEF Progress, Proposed
<1>4. CASE ProposeAsLeader(w)
    BY <1>1, <1>3, <1>4 DEF ProposeAsLeader, Proposed
<1>5. CASE ProposeAsFollower(w)
    <2>1. PICK n \in Node : n = write[w].at
        BY <1>3
    <2>2. node[n].lead \in 0..N
        BY MemberParts, NodeParts
    <2>3. node[n].lead # NoNode
        BY <1>5, <2>1 DEF ProposeAsFollower
    <2>4. node[n].lead \in Node
        BY <2>2, <2>3, MembersAssumption DEF NoNode, Node
    <2>5. QED BY <1>1, <1>3, <1>5, <2>1, <2>4 DEF ProposeAsFollower, Proposed
<1>6. QED BY <1>4, <1>5

LEMMA ProposalsSound ==
    ASSUME CInv, NEW w \in Write, ProposeAsLeader(w) \/ ProposeAsFollower(w)
    PROVE  CInv'
<1>1. /\ Proposed(w) \in [Write -> Progress] /\ UNCHANGED <<status, found, restarts>>
      /\ \/ \E n \in Node :
               Turns(One(n, <<node[n], NextEntry(node[n], w), NoSnapshot>>), Proposed(w))
         \/ Turns(<<>>, Proposed(w))
    BY ProposalTurns
<1>2. SoundTurns(<<>>)
    BY DEF SoundTurns
<1>3. QED BY <1>1, <1>2, ProposeSound, TurnsAreSound
-----------------------------------------------------------------------------
(***************************************************************************)
(* The theorems.                                                           *)
(***************************************************************************)
LEMMA NextSound ==
    ASSUME CInv, [Next]_vars
    PROVE  CInv'
<1>1. write \in [Write -> Progress]
    BY DEF CInv, TypeOK
<1>2. ASSUME NEW n \in Node, Campaign(n) PROVE CInv'
    BY <1>1, <1>2, CampaignSound, TurnsAreSound DEF Campaign
<1>3. ASSUME NEW c \in Node, NEW v \in Node, RequestVote(c, v) PROVE CInv'
    BY <1>1, <1>3, RequestVoteParts, RequestVoteSound, TurnsAreSound
<1>4. ASSUME NEW n \in Node, TransferLeader(n) \/ TransferTimesOut(n) PROVE CInv'
    BY <1>1, <1>4, TransferSound, TurnsAreSound DEF TransferLeader, TransferTimesOut
<1>5. ASSUME NEW l \in Node, NEW f \in Node, AppendEntry(l, f) PROVE CInv'
    BY <1>1, <1>5, AppendEntryParts, AppendEntrySound, TurnsAreSound
<1>6. ASSUME NEW l \in Node, NEW f \in Node, Heartbeat(l, f) PROVE CInv'
    BY <1>1, <1>6, HeartbeatSound, TurnsAreSound DEF Heartbeat, Beaten
<1>7. ASSUME NEW l \in Node, NEW f \in Node, SendSnapshot(l, f) PROVE CInv'
    BY <1>1, <1>7, SendSnapshotParts, SendSnapshotSound, TurnsAreSound
<1>8. CASE UNCHANGED vars
    <2>1. CInv' = CInv
        BY <1>8 DEF vars, CInv, TypeOK, Settled
    <2>2. QED BY <2>1
<1>9. QED
    BY <1>2, <1>3, <1>4, <1>5, <1>6, <1>7, <1>8, HeartbeatPanicsSound, PutFlagfileSound,
       ForwardWriteSound, ProposalsSound, ProposalDroppedSound, RestartSound,
       ProbePeerSound, BootstrapAndStartSound
    DEF Next

\* The types, and every member settled between two turns, whatever is restarted,
\* seeded, lost or transferred.
THEOREM MembersSettled == Spec => []CInv
<1>1. Init => CInv
    BY InitSound
<1>2. CInv /\ [Next]_vars => CInv'
    BY NextSound
<1>3. QED BY <1>1, <1>2, PTL DEF Spec

\* The variables keep their types: no term, restart or index leaves its range.
THEOREM TypesKept == Spec => []TypeOK
<1>1. CInv => TypeOK
    BY DEF CInv
<1>2. QED BY <1>1, MembersSettled, PTL

\* Every member's storage is always in good shape, across appends, their cuts,
\* compaction, snapshots installed or sent, restarts and seeds.
THEOREM StorageStaysSound == Spec => []StorageSound
<1>1. CInv => StorageSound
    <2>1. ASSUME CInv, NEW n \in Node
          PROVE  LET c == node[n].core IN
                 /\ IsContiguous(c)
                 /\ c.snap.index # 0 => c.snap.index = c.offset /\ c.snap.term = c.entries[1].term
                 /\ c.offset <= c.hs.commit /\ c.hs.commit <= last_index(c)
                 /\ c.hs = HardState(node[n].term, node[n].vote, node[n].commit)
        BY <2>1, MemberParts DEF Settled, Good
    <2>2. QED BY <2>1 DEF StorageSound
<1>2. QED BY <1>1, MembersSettled, PTL
=============================================================================
