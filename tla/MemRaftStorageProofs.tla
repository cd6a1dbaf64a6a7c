------------------------ MODULE MemRaftStorageProofs ------------------------
(***************************************************************************)
(* What the operators of MemRaftStorage return when they are given a core  *)
(* in good shape, for any data of entries (D) and of snapshots (S): the    *)
(* lemmas that the proofs about one storage (RaftLogProofs) and about a    *)
(* cluster of them (RaftClusterProofs) share.                              *)
(***************************************************************************)
EXTENDS MemRaftStorage, SequenceTheorems, TLAPS

\* The record sets of CoreType, named for the provers.
EntryType(D) == [index : Nat, term : Nat, data : D]
HsType       == [term : Nat, vote : Nat, commit : Nat]
SnapType(S)  == [index : Nat, term : Nat, data : S]

\* A storage core in good shape, whose snapshot agrees with its log.  (No data
\* is data: the storage itself writes it, in a dummy entry.)
Good(D, S, c) ==
    /\ NoData \in D /\ NoData \in S
    /\ c \in CoreType(D, S)
    /\ IsContiguous(c)
    /\ c.snap.index # 0 => /\ c.snap.index = c.offset
                           /\ c.snap.term = c.entries[1].term

-----------------------------------------------------------------------------
\* The parts of a well-typed core.
LEMMA CoreParts ==
    ASSUME NEW D, NEW S, NEW c \in CoreType(D, S)
    PROVE  /\ c.hs \in HsType /\ c.snap \in SnapType(S)
           /\ c.entries \in Seq(EntryType(D)) /\ c.offset \in Nat
           /\ c.hs.commit \in Nat /\ c.snap.index \in Nat /\ c.snap.term \in Nat
           /\ Len(c.entries) \in Nat
           /\ \A k \in 1..Len(c.entries) : c.entries[k] \in EntryType(D)
<1>1. /\ c.hs \in HsType /\ c.snap \in SnapType(S)
      /\ c.entries \in Seq(EntryType(D)) /\ c.offset \in Nat
    BY DEF CoreType, EntryType, HsType, SnapType
<1>2. /\ c.hs.commit \in Nat /\ c.snap.index \in Nat /\ c.snap.term \in Nat
    BY <1>1 DEF HsType, SnapType
<1>3. /\ Len(c.entries) \in Nat
      /\ \A k \in 1..Len(c.entries) : c.entries[k] \in EntryType(D)
    BY <1>1, LenProperties
<1>4. QED BY <1>1, <1>2, <1>3

\* The last index is the offset plus the length of the tail.
LEMMA LastIndex ==
    ASSUME NEW D, NEW S, NEW c \in CoreType(D, S), IsContiguous(c)
    PROVE  /\ Len(c.entries) \in Nat \ {0}
           /\ last_index(c) = c.offset + Len(c.entries) - 1
           /\ last_index(c) \in Nat
           /\ c.offset \in Nat
           /\ c.offset <= last_index(c)
<1>1. Len(c.entries) \in Nat \ {0}
    BY CoreParts, EmptySeq DEF IsContiguous
<1>2. c.entries[Len(c.entries)].index = c.offset + Len(c.entries) - 1
    BY <1>1 DEF IsContiguous
<1>3. QED BY <1>1, <1>2, CoreParts DEF last_index

\* On a good core, term() reads the log at every index the log still has.
LEMMA TermReadsLog ==
    ASSUME NEW D, NEW S, NEW c, Good(D, S, c), NEW i \in c.offset..last_index(c)
    PROVE  /\ term(c, i) = c.entries[i - c.offset + 1].term
           /\ term(c, i) \in Nat
           /\ i - c.offset + 1 \in 1..Len(c.entries)
<1>1. /\ Len(c.entries) \in Nat \ {0}
      /\ last_index(c) = c.offset + Len(c.entries) - 1
      /\ c.offset \in Nat
    BY LastIndex DEF Good
<1>2. i \in Int /\ i - c.offset + 1 \in 1..Len(c.entries)
    BY <1>1
<1>3. c.entries[i - c.offset + 1] \in EntryType(D)
    BY <1>2, CoreParts DEF Good
<1>4. c.entries[i - c.offset + 1].term \in Nat
    BY <1>3 DEF EntryType
<1>5. term(c, i) = c.entries[i - c.offset + 1].term
    <2>1. ~(i < c.offset) /\ ~(Relative(c, i) > Len(c.entries))
        BY <1>1, <1>2 DEF Relative
    <2>2. CASE c.snap.index # 0 /\ i = c.snap.index
        <3>1. i = c.offset /\ c.snap.term = c.entries[1].term
            BY <2>2 DEF Good
        <3>2. i - c.offset + 1 = 1
            BY <3>1, <1>1
        <3>3. term(c, i) = c.snap.term
            BY <2>1, <2>2 DEF term
        <3>4. QED BY <3>1, <3>2, <3>3
    <2>3. CASE ~(c.snap.index # 0 /\ i = c.snap.index)
        BY <2>1, <2>3 DEF term, Relative
    <2>4. QED BY <2>2, <2>3
<1>6. QED BY <1>2, <1>4, <1>5

\* MemRaftStorage::new gives a good core that ends at index 0.
LEMMA NewIsGood ==
    ASSUME NEW D, NEW S, NoData \in D, NoData \in S
    PROVE  /\ Good(D, S, New(0))
           /\ New(0).offset = 0 /\ last_index(New(0)) = 0 /\ New(0).hs.commit = 0
<1> DEFINE e == Entry(0, 0, NoData)
<1>1. e \in EntryType(D)
    BY DEF Entry, EntryType
<1>2. <<e>> \in Seq(EntryType(D)) /\ Len(<<e>>) = 1 /\ <<e>>[1] = e
    BY <1>1
<1>3. New(0) \in CoreType(D, S)
    <2>1. New(0).entries \in Seq(EntryType(D))
        BY <1>2 DEF New
    <2>2. New(0).snap \in SnapType(S) /\ New(0).hs \in HsType /\ New(0).offset \in Nat
        BY DEF New, SnapType, HsType, HardState, Snapshot
    <2>3. QED BY <2>1, <2>2 DEF New, CoreType, EntryType, SnapType, HsType
<1>4. IsContiguous(New(0))
    BY <1>2 DEF New, IsContiguous, Entry
<1>5. QED BY <1>2, <1>3, <1>4 DEF New, Good, Snapshot, HardState, last_index, Entry

\* set_hard_state touches nothing but the hard state.
LEMMA SetHardStateKeepsLog ==
    ASSUME NEW D, NEW S, NEW c, Good(D, S, c), NEW h \in HsType,
           NEW d, d = set_hard_state(c, h)
    PROVE  /\ Good(D, S, d)
           /\ d.offset = c.offset /\ d.entries = c.entries /\ d.snap = c.snap
           /\ d.hs = h /\ last_index(d) = last_index(c)
<1>1. /\ d.offset = c.offset /\ d.entries = c.entries /\ d.snap = c.snap
      /\ d.hs = h /\ d \in CoreType(D, S)
    BY DEF Good, CoreType, set_hard_state, HsType
<1>2. QED BY <1>1 DEF Good, IsContiguous, last_index

\* Replacing the tail of a sequence after its first r elements.
LEMMA SpliceTail ==
    ASSUME NEW S, NEW s \in Seq(S), NEW t \in Seq(S), NEW r \in 1..Len(s),
           NEW u, u = SubSeq(s, 1, r) \o t
    PROVE  /\ u \in Seq(S) /\ Len(u) = r + Len(t)
           /\ \A i \in 1..r : u[i] = s[i]
           /\ \A i \in (r + 1)..(r + Len(t)) : u[i] = t[i - r]
<1> DEFINE kept == SubSeq(s, 1, r)
<1>1. Len(s) \in Nat /\ r \in Nat /\ 1 <= r
    BY LenProperties
<1>2. \A i \in 1..r : s[i] \in S
    BY <1>1
<1>3. /\ kept \in Seq(S) /\ Len(kept) = IF 1 <= r THEN r - 1 + 1 ELSE 0
      /\ \A i \in 1 .. r - 1 + 1 : kept[i] = s[1 + i - 1]
    BY <1>1, <1>2, SubSeqProperties
<1>4. Len(kept) = r /\ \A i \in 1..r : kept[i] = s[i]
    BY <1>1, <1>3
<1> HIDE DEF kept
<1>5. /\ kept \o t \in Seq(S) /\ Len(kept \o t) = r + Len(t)
      /\ \A i \in 1..(r + Len(t)) :
           (kept \o t)[i] = IF i <= r THEN kept[i] ELSE t[i - r]
    BY <1>3, <1>4, ConcatProperties
<1>6. Len(t) \in Nat
    BY LenProperties
<1>7. QED BY <1>1, <1>4, <1>5, <1>6 DEF kept

(***************************************************************************)
(* append: a batch that starts just after an entry the log has, above the  *)
(* offset, replaces everything from there on and nothing before it.        *)
(***************************************************************************)
LEMMA AppendReplacesTail ==
    ASSUME NEW D, NEW S, NEW c, Good(D, S, c),
           NEW k \in Nat, c.offset < k, k <= last_index(c) + 1,
           NEW n \in Nat,
           NEW ents \in Seq(EntryType(D)), Len(ents) = n,
           \A j \in 1..n : ents[j].index = k + j - 1,
           NEW d, d = AppendEntries(c, ents)
    PROVE  /\ Good(D, S, d)
           /\ d.offset = c.offset /\ d.hs = c.hs
           /\ last_index(d) = IF n = 0 THEN last_index(c) ELSE k + n - 1
           /\ \A i \in 1..(k - c.offset) : d.entries[i] = c.entries[i]
           /\ \A j \in 1..n : d.entries[k - c.offset + j] = ents[j]
<1>1. /\ Len(c.entries) \in Nat \ {0} /\ c.offset \in Nat
      /\ last_index(c) = c.offset + Len(c.entries) - 1
      /\ c.entries \in Seq(EntryType(D))
    BY LastIndex, CoreParts DEF Good
<1>2. PICK rel \in 1..Len(c.entries) : rel = k - c.offset
    BY <1>1, SMTT(30)
<1>3. rel \in Nat /\ 1 <= rel
    BY <1>1
<1>4. CASE n = 0
    <2>1. ents = <<>>
        BY <1>4, EmptySeq
    <2>2. QED BY <2>1, <1>4 DEF AppendEntries
<1>5. CASE n # 0
    <2> DEFINE u == SubSeq(c.entries, 1, rel) \o ents
    <2>1. ents # <<>> /\ ents[1].index = k
        BY <1>5
    <2>2. d = [c EXCEPT !.entries = u]
        <3>1. rel < Len(c.entries) \/ SubSeq(c.entries, 1, rel) = c.entries
            BY <1>1, <1>3, SubSeqFull
        <3>2. ~(ents = <<>> \/ ents[1].index <= c.offset)
            BY <2>1, <1>1
        <3>3. ents[1].index - c.offset = rel
            BY <2>1, <1>2
        <3>4. QED BY <3>1, <3>2, <3>3 DEF AppendEntries
    <2>u. u = SubSeq(c.entries, 1, rel) \o ents
        OBVIOUS
    <2> HIDE DEF u
    <2>3. /\ u \in Seq(EntryType(D)) /\ Len(u) = rel + n
          /\ \A i \in 1..rel : u[i] = c.entries[i]
          /\ \A i \in (rel + 1)..(rel + n) : u[i] = ents[i - rel]
        BY <2>u, <1>1, SpliceTail, SMTT(30)
    <2>4. /\ d.entries = u /\ d.offset = c.offset
          /\ d.hs = c.hs /\ d.snap = c.snap /\ d \in CoreType(D, S)
        BY <2>2, <2>3 DEF Good, CoreType, EntryType
    <2>5. \A i \in 1..(rel + n) : u[i].index = c.offset + i - 1
        <3>1. ASSUME NEW i \in 1..rel PROVE u[i].index = c.offset + i - 1
            <4>1. i \in 1..Len(c.entries)
                BY <1>1, <1>3
            <4>2. c.entries[i].index = c.offset + i - 1
                BY <4>1 DEF Good, IsContiguous
            <4>3. u[i] = c.entries[i]
                BY <2>3
            <4>4. QED BY <4>2, <4>3
        <3>2. ASSUME NEW i \in (rel + 1)..(rel + n)
              PROVE  u[i].index = c.offset + i - 1
            <4>1. i - rel \in 1..n /\ i \in Nat
                BY <1>3
            <4>2. u[i].index = k + (i - rel) - 1
                BY <4>1, <2>3
            <4>3. k = c.offset + rel /\ c.offset \in Nat
                BY <1>1, <1>2, <1>3
            <4>4. k + (i - rel) - 1 = c.offset + i - 1
                BY <4>1, <4>3, <1>3
            <4>5. QED BY <4>2, <4>4
        <3>3. QED BY <3>1, <3>2, <1>3
    <2>6. u # <<>> /\ IsContiguous(d)
        BY <2>3, <2>4, <2>5, <1>3, EmptySeq DEF IsContiguous
    <2>7. Good(D, S, d)
        BY <2>3, <2>4, <2>6, <1>3 DEF Good
    <2>8. last_index(d) = k + n - 1
        <3>1. last_index(d) = d.offset + Len(d.entries) - 1
            BY <2>4, <2>6, LastIndex
        <3>2. PICK o \in Nat : o = c.offset
            BY <1>1
        <3>3. last_index(d) = o + (rel + n) - 1
            BY <3>1, <3>2, <2>3, <2>4
        <3>4. k = o + rel
            BY <3>2, <1>2, <1>3
        <3>5. QED BY <3>3, <3>4, <1>3
    <2>9. \A i \in 1..(k - c.offset) : d.entries[i] = c.entries[i]
        BY <2>3, <2>4, <1>2
    <2>10. ASSUME NEW j \in 1..n PROVE d.entries[k - c.offset + j] = ents[j]
        <3>1. rel + j \in (rel + 1)..(rel + n) /\ (rel + j) - rel = j
            BY <1>3
        <3>2. u[rel + j] = ents[(rel + j) - rel]
            BY <3>1, <2>3
        <3>3. u[rel + j] = ents[j]
            BY <3>1, <3>2
        <3>4. QED BY <3>3, <2>4, <1>2
    <2>11. QED BY <2>4, <2>7, <2>8, <2>9, <2>10, <1>5
<1>6. QED BY <1>4, <1>5

\* apply_snapshot above the offset: the log is the snapshot's index alone.
LEMMA ApplySnapshotReplacesLog ==
    ASSUME NEW D, NEW S, NEW c, Good(D, S, c),
           NEW s \in SnapType(S), c.offset < s.index,
           NEW d, d = apply_snapshot(c, s)
    PROVE  /\ Good(D, S, d)
           /\ d.offset = s.index /\ last_index(d) = s.index /\ d.hs = c.hs
           /\ d.snap = s /\ term(d, s.index) = s.term
<1> DEFINE e == Entry(s.index, s.term, NoData)
<1>1. /\ s.index \in Nat /\ s.term \in Nat /\ c.offset \in Nat
      /\ NoData \in D /\ NoData \in S
    BY CoreParts DEF Good, SnapType
<1>2. e \in EntryType(D) /\ e.index = s.index /\ e.term = s.term
    BY <1>1 DEF Entry, EntryType
<1> HIDE DEF e
<1>3. /\ <<e>> \in Seq(EntryType(D)) /\ Len(<<e>>) = 1 /\ <<e>>[1] = e
      /\ <<e>> # <<>>
    BY <1>2
<1>4. d = [c EXCEPT !.offset = s.index, !.entries = <<e>>, !.snap = s]
    BY <1>1 DEF apply_snapshot, e
<1>5. /\ d.offset = s.index /\ d.entries = <<e>> /\ d.snap = s /\ d.hs = c.hs
      /\ d \in CoreType(D, S)
    BY <1>1, <1>3, <1>4 DEF Good, CoreType, EntryType, SnapType
<1>6. IsContiguous(d) /\ last_index(d) = s.index
    BY <1>1, <1>2, <1>3, <1>5 DEF IsContiguous, last_index
<1>7. Good(D, S, d)
    BY <1>1, <1>2, <1>3, <1>5, <1>6 DEF Good
<1>8. term(d, s.index) = s.term
    BY <1>1, <1>2, <1>3, <1>5 DEF term, Relative
<1>9. QED BY <1>5, <1>6, <1>7, <1>8

(***************************************************************************)
(* create_snapshot and compact at one index of the log, as node.rs calls   *)
(* them: the log is cut at that index, and the rest of it is kept.         *)
(***************************************************************************)
LEMMA SnapshotAndCompactCut ==
    ASSUME NEW D, NEW S, NEW c, Good(D, S, c),
           NEW i \in c.offset..last_index(c), i # 0, NEW p \in S,
           NEW d, d = compact(create_snapshot(c, i, p), i)
    PROVE  /\ Good(D, S, d)
           /\ d.offset = i /\ d.hs = c.hs /\ last_index(d) = last_index(c)
           /\ \A j \in i..last_index(c) :
                d.entries[j - i + 1] = c.entries[j - c.offset + 1]
<1> DEFINE s == Snapshot(i, c.entries[i - c.offset + 1].term, p)
           b == create_snapshot(c, i, p)
           rel == i - c.offset + 1
           u == SubSeq(c.entries, rel, Len(c.entries))
<1>1. /\ Len(c.entries) \in Nat \ {0} /\ c.offset \in Nat
      /\ last_index(c) = c.offset + Len(c.entries) - 1 /\ last_index(c) \in Nat
      /\ c.entries \in Seq(EntryType(D))
      /\ \A k \in 1..Len(c.entries) : c.entries[k] \in EntryType(D)
    BY LastIndex, CoreParts DEF Good
<1>2. i \in Nat /\ i <= last_index(c) /\ c.offset <= i
    BY <1>1
<1>3. rel \in 1..Len(c.entries) /\ c.entries[rel].term \in Nat
    <2>1. rel \in 1..Len(c.entries)
        BY <1>1, <1>2
    <2>2. c.entries[rel] \in EntryType(D)
        BY <2>1, <1>1
    <2>3. QED BY <2>1, <2>2 DEF EntryType
<1>4. s \in SnapType(S) /\ s.index = i /\ s.term = c.entries[rel].term
    BY <1>2, <1>3 DEF Snapshot, SnapType
<1>5. b = [c EXCEPT !.snap = s]
    BY <1>1, <1>2 DEF create_snapshot, Relative
<1> HIDE DEF s, b
<1>6. /\ b \in CoreType(D, S) /\ b.snap = s /\ b.offset = c.offset
      /\ b.entries = c.entries /\ b.hs = c.hs /\ last_index(b) = last_index(c)
    BY <1>4, <1>5 DEF Good, CoreType, SnapType, last_index
<1>7. /\ u \in Seq(EntryType(D)) /\ Len(u) = Len(c.entries) - rel + 1
      /\ \A k \in 1..(Len(c.entries) - rel + 1) : u[k] = c.entries[rel + k - 1]
    <2> HIDE DEF rel
    <2>1. rel \in Int /\ Len(c.entries) \in Int /\ rel <= Len(c.entries)
        BY <1>1, <1>3
    <2>2. \A k \in rel..Len(c.entries) : c.entries[k] \in EntryType(D)
        BY <1>1, <1>3
    <2>3. QED BY <2>1, <2>2, SubSeqProperties, SMTT(30)
<1> HIDE DEF u
<1>8. CASE i = c.offset
    <2>1. d = b
        BY <1>6, <1>8, <1>2 DEF compact, b
    <2>2. IsContiguous(d)
        BY <2>1, <1>6 DEF Good, IsContiguous
    <2>3. rel = 1
        BY <1>1, <1>8
    <2>4. b.snap.index = b.offset /\ b.snap.term = b.entries[1].term
        BY <2>3, <1>4, <1>6, <1>8
    <2>5. Good(D, S, d)
        BY <2>1, <2>2, <2>4, <1>6 DEF Good
    <2>6. QED BY <2>1, <2>5, <1>6, <1>8
<1>9. CASE i > c.offset
    <2>1. d = [b EXCEPT !.entries = u, !.offset = i]
        BY <1>2, <1>6, <1>9, <1>1 DEF compact, Relative, u, b
    <2>2. /\ d \in CoreType(D, S) /\ d.entries = u /\ d.offset = i
          /\ d.snap = s /\ d.hs = c.hs
        BY <2>1, <1>2, <1>6, <1>7 DEF CoreType, EntryType
    <2>3. Len(u) = last_index(c) - i + 1 /\ Len(u) \in Nat \ {0}
        BY <1>1, <1>2, <1>7, SMTT(30)
    <2>4. \A j \in i..last_index(c) : u[j - i + 1] = c.entries[j - c.offset + 1]
        <3> TAKE j \in i..last_index(c)
        <3>1. j - i + 1 \in 1..(Len(c.entries) - rel + 1)
            <4>1. PICK z \in Nat, m \in Nat, l \in Nat :
                     z = c.offset /\ m = Len(c.entries) /\ l = last_index(c)
                BY <1>1
            <4>2. /\ l = z + m - 1 /\ rel = i - z + 1 /\ i \in Nat /\ j \in Nat
                  /\ i <= j /\ j <= l
                BY <4>1, <1>1, <1>2
            <4>3. j - i + 1 \in 1..(m - (i - z + 1) + 1)
                BY <4>1, <4>2, SMTT(30)
            <4>4. QED BY <4>1, <4>2, <4>3
        <3>2. u[j - i + 1] = c.entries[rel + (j - i + 1) - 1]
            BY <3>1, <1>7
        <3>3. rel + (j - i + 1) - 1 = j - c.offset + 1
            BY <1>1, <1>2
        <3>4. QED BY <3>2, <3>3
    <2>5. \A k \in 1..Len(u) : u[k].index = i + k - 1
        <3> TAKE k \in 1..Len(u)
        <3>1. rel + k - 1 \in 1..Len(c.entries) /\ k \in Nat
              /\ k \in 1..(Len(c.entries) - rel + 1)
            <4>1. k \in Nat /\ 1 <= k /\ k <= last_index(c) - i + 1
                BY <2>3
            <4>2. /\ Len(c.entries) \in Nat /\ c.offset \in Nat /\ i \in Nat
                  /\ c.offset <= i /\ last_index(c) = c.offset + Len(c.entries) - 1
                  /\ last_index(c) \in Nat
                BY <1>1, <1>2
            <4>3. PICK r \in Nat, m \in Nat : r = rel /\ m = Len(c.entries)
                BY <4>2, SMTT(30)
            <4>4. 1 <= r /\ k <= m - r + 1
                <5>1. PICK z \in Nat, l \in Nat : z = c.offset /\ l = last_index(c)
                    BY <4>2
                <5>2. /\ z <= i /\ l = z + m - 1 /\ r = i - z + 1
                      /\ k <= l - i + 1 /\ i \in Nat /\ k \in Nat
                    BY <4>1, <4>2, <4>3, <5>1
                <5>3. QED BY <5>2
            <4>5. r + k - 1 \in 1..m /\ k \in 1..(m - r + 1)
                BY <4>1, <4>3, <4>4, SMTT(30)
            <4>6. QED BY <4>1, <4>3, <4>5
        <3>2. u[k] = c.entries[rel + k - 1]
            BY <3>1, <1>7
        <3>3. u[k].index = c.offset + (rel + k - 1) - 1
            BY <3>1, <3>2 DEF Good, IsContiguous
        <3>4. PICK z \in Nat : z = c.offset /\ i \in Nat /\ k \in Nat
            BY <3>1, <1>1, <1>2
        <3>5. c.offset + (rel + k - 1) - 1 = i + k - 1
            BY <3>4
        <3>6. QED BY <3>3, <3>5
    <2>6. IsContiguous(d)
        BY <2>2, <2>3, <2>5, EmptySeq DEF IsContiguous
    <2>7. u[1] = c.entries[rel]
        BY <2>4, <1>1, <1>2
    <2>8. Good(D, S, d)
        BY <2>2, <2>6, <2>7, <1>4 DEF Good
    <2>9. last_index(d) = last_index(c)
        <3>1. last_index(d) = d.offset + Len(d.entries) - 1
            BY <2>2, <2>6, LastIndex
        <3>2. last_index(d) = i + Len(u) - 1
            BY <3>1, <2>2
        <3>3. QED BY <3>2, <2>3, <1>1, <1>2
    <2>10. QED BY <2>2, <2>4, <2>8, <2>9, <1>6
<1>10. QED BY <1>1, <1>2, <1>8, <1>9
=============================================================================
