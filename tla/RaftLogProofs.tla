---------------------------- MODULE RaftLogProofs ----------------------------
(***************************************************************************)
(* Proofs about RaftLog, for every bound: the invariants of the storage,   *)
(* the stability of its committed part, and that it implements AbstractLog.*)
(*                                                                         *)
(* MemRaftStorageProofs says what each operator of MemRaftStorage returns  *)
(* when it is given a core in good shape; the proof about a step of RaftLog*)
(* is one composition of them.                                             *)
(***************************************************************************)
EXTENDS RaftLog, MemRaftStorageProofs

(***************************************************************************)
(* The inductive invariant: TypeOK, Contiguous, SnapshotAgrees (through    *)
(* Good), CommitHeld, and that nothing uncommitted has been applied: a     *)
(* snapshot is taken at `applied`, and would compact past the commit index *)
(* otherwise.                                                              *)
(***************************************************************************)
IInv == /\ Good(Payload, Payload, core)
        /\ CommitHeld
        /\ applied \in Nat
        /\ applied <= core.hs.commit
-----------------------------------------------------------------------------
\* What persisting a Ready does to a good core (node.rs, step 1).
LEMMA PersistReadyEffect ==
    ASSUME IInv, NEW k \in Nat, NEW n \in Nat, NEW t \in Term, NEW commit \in Index,
           PersistReady(k, n, t, commit)
    PROVE  /\ Good(Payload, Payload, core') /\ CommitHeld' /\ core'.hs.commit >= core.hs.commit
           /\ core'.offset = core.offset /\ applied' = applied
           /\ k \in (core.hs.commit + 1)..(last_index(core) + 1)
           /\ last_index(core') >= k - 1
           /\ \A i \in 1..(k - core.offset) : core'.entries[i] = core.entries[i]
<1>1. /\ Good(Payload, Payload, core) /\ core.offset \in Nat /\ core.hs.commit \in Nat
      /\ last_index(core) \in Nat
      /\ core.offset <= core.hs.commit /\ core.hs.commit <= last_index(core)
    BY CoreParts, LastIndex DEF IInv, CommitHeld, Good
<1>2. t \in Nat /\ commit \in Nat /\ Term \subseteq Nat
    BY BoundsAssumption DEF Term, Index
<1>3. k > core.hs.commit /\ k <= last_index(core) + 1
    BY DEF PersistReady
<1>4. PICK ts \in [1..n -> Nat] :
        LET ents == [j \in 1..n |-> Entry(k + j - 1, ts[j], NoData)]
            next == AppendEntries(set_hard_state(core, HardState(t, 0, commit)), ents)
        IN  /\ commit >= core.hs.commit /\ commit <= last_index(next)
            /\ core' = next
    BY <1>2 DEF PersistReady, TermRuns
<1> DEFINE ents == [j \in 1..n |-> Entry(k + j - 1, ts[j], NoData)]
           c == set_hard_state(core, HardState(t, 0, commit))
<1>5. /\ core' = AppendEntries(c, ents)
      /\ commit >= core.hs.commit /\ commit <= last_index(core')
    BY <1>4
<1>e. ents = [j \in 1..n |-> Entry(k + j - 1, ts[j], NoData)]
    OBVIOUS
<1> HIDE DEF ents
<1>6. /\ HardState(t, 0, commit) \in HsType
      /\ HardState(t, 0, commit).commit = commit
      /\ ents \in Seq(EntryType(Payload)) /\ Len(ents) = n
      /\ \A j \in 1..n : ents[j].index = k + j - 1
    <2>1. k > 0
        BY <1>1, <1>3
    <2>2. HardState(t, 0, commit) \in HsType /\ HardState(t, 0, commit).commit = commit
        BY <1>2 DEF HardState, HsType
    <2>3. ents \in Seq(EntryType(Payload)) /\ Len(ents) = n
        <3>1. \A j \in 1..n : Entry(k + j - 1, ts[j], NoData) \in EntryType(Payload)
            BY <2>1 DEF Entry, EntryType, Payload
        <3>2. QED BY <3>1, <1>e
    <2>4. \A j \in 1..n : ents[j].index = k + j - 1
        BY <1>e DEF Entry
    <2>5. QED BY <2>2, <2>3, <2>4
<1>7. /\ Good(Payload, Payload, c) /\ c.offset = core.offset /\ c.entries = core.entries
      /\ c.hs.commit = commit /\ last_index(c) = last_index(core)
    BY <1>1, <1>6, SetHardStateKeepsLog
<1> HIDE DEF c
<1>8. /\ Good(Payload, Payload, core') /\ core'.offset = c.offset /\ core'.hs = c.hs
      /\ last_index(core') = IF n = 0 THEN last_index(c) ELSE k + n - 1
      /\ \A i \in 1..(k - c.offset) : core'.entries[i] = c.entries[i]
    <2>1. c.offset < k /\ k <= last_index(c) + 1
        BY <1>1, <1>3, <1>7
    <2>2. QED BY <2>1, <1>5, <1>6, <1>7, AppendReplacesTail
<1>9. last_index(core') >= k - 1
    BY <1>1, <1>3, <1>7, <1>8
<1>10. core'.offset <= core'.hs.commit
    BY <1>1, <1>2, <1>5, <1>7, <1>8
<1>11. CommitHeld'
    BY <1>5, <1>7, <1>8, <1>10 DEF CommitHeld
<1>12. QED
    BY <1>1, <1>3, <1>5, <1>7, <1>8, <1>9, <1>11 DEF PersistReady

\* What installing a snapshot does to a good core (node.rs, steps 1 and 2).
LEMMA InstallSnapshotEffect ==
    ASSUME IInv, NEW i \in Index, NEW st \in Term, NEW t \in Term,
           InstallSnapshot(i, st, t)
    PROVE  /\ Good(Payload, Payload, core') /\ CommitHeld' /\ applied' = applied
           /\ i > core.hs.commit /\ core'.hs.commit = i
           /\ core'.offset = i /\ last_index(core') = i
<1>1. /\ Good(Payload, Payload, core) /\ core.offset \in Nat /\ core.hs.commit \in Nat
      /\ core.offset <= core.hs.commit
    BY CoreParts DEF IInv, CommitHeld, Good
<1>2. i \in Nat /\ st \in Nat /\ t \in Nat /\ i \in Payload
    BY BoundsAssumption DEF Index, Term, Payload
<1> DEFINE h == HardState(t, 0, i)
           c == set_hard_state(core, h)
<1>3. h \in HsType /\ h.commit = i
    BY <1>2 DEF HardState, HsType
<1> HIDE DEF h
<1>4. Good(Payload, Payload, c) /\ c.offset = core.offset /\ c.hs = h
    BY <1>1, <1>3, SetHardStateKeepsLog
<1>5. core' = apply_snapshot(c, Snapshot(i, st, i)) /\ i > core.hs.commit
    BY DEF InstallSnapshot, h
<1> HIDE DEF c
<1>6. Good(Payload, Payload, core') /\ core'.offset = i /\ last_index(core') = i /\ core'.hs = h
    <2>1. c.offset < i
        BY <1>1, <1>2, <1>4, <1>5
    <2>2. /\ Snapshot(i, st, i) \in SnapType(Payload)
          /\ Snapshot(i, st, i).index = i
        BY <1>2 DEF Snapshot, SnapType
    <2>3. QED BY <2>1, <2>2, <1>2, <1>4, <1>5, ApplySnapshotReplacesLog
<1>7. QED BY <1>2, <1>3, <1>5, <1>6 DEF CommitHeld, InstallSnapshot

(***************************************************************************)
(* What taking a snapshot at `applied` does to a good core (node.rs, step  *)
(* 6): the log is cut there, or, below the offset, nothing happens.        *)
(***************************************************************************)
LEMMA TriggerSnapshotEffect ==
    ASSUME IInv, TriggerSnapshot
    PROVE  /\ Good(Payload, Payload, core') /\ CommitHeld' /\ applied' = applied
           /\ core'.hs = core.hs /\ last_index(core') = last_index(core)
           /\ core'.offset \in core.offset..core.hs.commit
           /\ \A j \in core'.offset..last_index(core) :
                core'.entries[j - core'.offset + 1] = core.entries[j - core.offset + 1]
<1>1. /\ Good(Payload, Payload, core) /\ core.offset \in Nat /\ core.hs.commit \in Nat
      /\ last_index(core) \in Nat
      /\ core.offset <= core.hs.commit /\ core.hs.commit <= last_index(core)
      /\ applied \in Nat /\ applied <= core.hs.commit /\ applied > 0
    BY CoreParts, LastIndex DEF IInv, CommitHeld, Good, TriggerSnapshot
<1>2. core' = compact(create_snapshot(core, applied, applied), applied)
      /\ applied' = applied
    BY DEF TriggerSnapshot
<1>3. CASE applied < core.offset
    <2>1. create_snapshot(core, applied, applied) = core
        BY <1>1, <1>3 DEF create_snapshot
    <2>2. core' = core
        BY <2>1, <1>1, <1>2, <1>3 DEF compact
    <2>3. CommitHeld'
        BY <2>2 DEF IInv, CommitHeld
    <2>4. QED BY <1>1, <1>2, <2>2, <2>3
<1>4. CASE applied >= core.offset
    <2>1. applied \in core.offset..last_index(core) /\ applied \in Payload
        BY <1>1, <1>4 DEF Payload
    <2>2. /\ Good(Payload, Payload, core') /\ core'.offset = applied /\ core'.hs = core.hs
          /\ last_index(core') = last_index(core)
          /\ \A j \in applied..last_index(core) :
               core'.entries[j - applied + 1] = core.entries[j - core.offset + 1]
        BY <2>1, <1>1, <1>2, SnapshotAndCompactCut
    <2>3. CommitHeld'
        BY <2>2, <1>1 DEF CommitHeld
    <2>4. QED BY <1>1, <1>2, <1>4, <2>2, <2>3
<1>5. QED BY <1>1, <1>3, <1>4
-----------------------------------------------------------------------------
\* The initial storage, fresh or seeded, is good.
LEMMA InitEstablishes ==
    ASSUME Init
    PROVE  IInv /\ last_index(core) = core.offset /\ core.hs.commit = core.offset
<1>1. applied = 0
    BY DEF Init
<1>2. CASE core = New(0)
    <2>1. NoData \in Payload
        BY DEF Payload
    <2>2. /\ Good(Payload, Payload, core)
          /\ core.offset = 0 /\ last_index(core) = 0 /\ core.hs.commit = 0
        BY <2>1, <1>2, NewIsGood
    <2>3. QED BY <2>2, <1>1 DEF IInv, CommitHeld
<1>3. ASSUME NEW i \in Index \ {0}, NEW t \in Term \ {0},
             core = set_hard_state(apply_snapshot(New(0), Snapshot(i, t, NoData)),
                                   HardState(t, 0, i))
      PROVE  IInv /\ last_index(core) = core.offset /\ core.hs.commit = core.offset
    <2> DEFINE c == apply_snapshot(New(0), Snapshot(i, t, NoData))
    <2>1. i \in Nat /\ t \in Nat /\ 0 < i /\ NoData \in Payload
        BY BoundsAssumption DEF Index, Term, Payload
    <2>2. Good(Payload, Payload, c) /\ c.offset = i /\ last_index(c) = i
        <3>1. Good(Payload, Payload, New(0)) /\ New(0).offset = 0
            BY <2>1, NewIsGood
        <3>2. /\ Snapshot(i, t, NoData) \in SnapType(Payload)
              /\ Snapshot(i, t, NoData).index = i
            BY <2>1 DEF Snapshot, SnapType
        <3>3. QED BY <3>1, <3>2, <2>1, ApplySnapshotReplacesLog
    <2>3. HardState(t, 0, i) \in HsType /\ HardState(t, 0, i).commit = i
        BY <2>1 DEF HardState, HsType
    <2> HIDE DEF c
    <2>4. /\ Good(Payload, Payload, core) /\ core.offset = i /\ last_index(core) = i
          /\ core.hs.commit = i
        BY <2>2, <2>3, <1>3, SetHardStateKeepsLog DEF c
    <2>5. QED BY <2>1, <2>4, <1>1 DEF IInv, CommitHeld
<1>4. QED BY <1>2, <1>3 DEF Init

\* Every step keeps the inductive invariant.
LEMMA NextPreserves == ASSUME IInv, [Next]_vars PROVE IInv'
<1>1. applied \in Nat /\ core.hs.commit \in Nat /\ applied <= core.hs.commit
    BY CoreParts DEF IInv, Good
<1>2. ASSUME NEW k \in Nat, NEW n \in Nat, NEW t \in Term, NEW commit \in Index,
             PersistReady(k, n, t, commit)
      PROVE  IInv'
    <2>1. /\ Good(Payload, Payload, core') /\ CommitHeld' /\ applied' = applied
          /\ core'.hs.commit >= core.hs.commit
        BY <1>2, PersistReadyEffect
    <2>2. core'.hs.commit \in Nat
        BY <2>1, CoreParts DEF Good
    <2>3. QED BY <1>1, <2>1, <2>2 DEF IInv
<1>3. ASSUME NEW i \in Index, NEW st \in Term, NEW t \in Term, InstallSnapshot(i, st, t)
      PROVE  IInv'
    <2>1. /\ Good(Payload, Payload, core') /\ CommitHeld' /\ applied' = applied
          /\ core'.hs.commit = i /\ i > core.hs.commit
        BY <1>3, InstallSnapshotEffect
    <2>2. i \in Nat
        BY BoundsAssumption DEF Index
    <2>3. QED BY <1>1, <2>1, <2>2 DEF IInv
<1>4. ASSUME NEW i \in Index, ApplyUpTo(i) PROVE IInv'
    <2>1. i \in Nat
        BY BoundsAssumption DEF Index
    <2>2. QED BY <1>4, <2>1 DEF ApplyUpTo, IInv, CommitHeld
<1>5. ASSUME TriggerSnapshot PROVE IInv'
    <2>1. Good(Payload, Payload, core') /\ CommitHeld' /\ applied' = applied /\ core'.hs = core.hs
        BY <1>5, TriggerSnapshotEffect
    <2>2. QED BY <1>1, <2>1 DEF IInv
<1>6. ASSUME UNCHANGED vars PROVE IInv'
    BY <1>6 DEF IInv, CommitHeld, vars
<1>7. Index \subseteq Nat /\ 0..MaxBatch \subseteq Nat /\ MaxIndex + 1 \in Nat
    BY BoundsAssumption DEF Index
<1>8. QED BY <1>2, <1>3, <1>4, <1>5, <1>6, <1>7 DEF Next

(***************************************************************************)
(* The storage is always in good shape: for every bound on indices, terms  *)
(* and batches, the Vec of entries is contiguous from the offset, the last *)
(* snapshot is the one at the offset, and the committed entries that are   *)
(* not yet applied are in the log (storage.rs append, compact,             *)
(* create_snapshot, apply_snapshot under the calls of node.rs).            *)
(***************************************************************************)
THEOREM StorageInvariant == Spec => []IInv
<1>1. Init => IInv
    BY InitEstablishes
<1>2. IInv /\ [Next]_vars => IInv'
    BY NextPreserves
<1>3. QED BY <1>1, <1>2, PTL DEF Spec

\* The four invariants the run checks, each for every value of the bounds.
LEMMA IInvImplies == IInv => TypeOK /\ Contiguous /\ SnapshotAgrees /\ CommitHeld
BY DEF IInv, Good, TypeOK, Contiguous, SnapshotAgrees

\* The core keeps its type: indices and terms never go below zero, which is
\* where the u64 subtractions of storage.rs would wrap.
THEOREM TypeCorrect == Spec => []TypeOK
BY StorageInvariant, IInvImplies, PTL

\* entries[k].index = offset + k - 1, always (what append, compact, term and
\* entries compute their Vec positions from).
THEOREM EntriesContiguous == Spec => []Contiguous
BY StorageInvariant, IInvImplies, PTL

\* term() cannot give two answers for the snapshot's index.
THEOREM SnapshotMatchesLog == Spec => []SnapshotAgrees
BY StorageInvariant, IInvImplies, PTL

\* compact never passes the commit index, and no hard state commits an entry
\* the log does not hold.
THEOREM CommittedHeld == Spec => []CommitHeld
BY StorageInvariant, IInvImplies, PTL
-----------------------------------------------------------------------------
\* Two good cores whose Vecs agree at index i answer term(i) alike.
LEMMA SameEntrySameTerm ==
    ASSUME NEW c, NEW d, Good(Payload, Payload, c), Good(Payload, Payload, d),
           NEW i \in c.offset..last_index(c), i \in d.offset..last_index(d),
           d.entries[i - d.offset + 1] = c.entries[i - c.offset + 1]
    PROVE  term(d, i) = term(c, i)
BY TermReadsLog

(***************************************************************************)
(* A step of RaftLog is a step of AbstractLog, or leaves it unchanged; and *)
(* the terms of committed entries stay.                                    *)
(***************************************************************************)
LEMMA StepRefines ==
    ASSUME IInv, IInv', Next
    PROVE  /\ Log!AbsNext \/ UNCHANGED Log!absVars
           /\ \A i \in core'.offset..core.hs.commit :
                i >= core.offset => term(core', i) = term(core, i)
<1> DEFINE lt == [i \in core.offset..last_index(core) |-> term(core, i)]
<1>1. /\ Good(Payload, Payload, core) /\ core.offset \in Nat /\ core.hs.commit \in Nat
      /\ last_index(core) \in Nat
      /\ core.offset <= core.hs.commit /\ core.hs.commit <= last_index(core)
    BY CoreParts, LastIndex DEF IInv, CommitHeld, Good
<1>2. /\ Good(Payload, Payload, core') /\ core'.offset \in Nat /\ core'.hs.commit \in Nat
      /\ last_index(core') \in Nat
      /\ core'.offset <= core'.hs.commit /\ core'.hs.commit <= last_index(core')
    <2>1. core' \in CoreType(Payload, Payload) /\ IsContiguous(core') /\ CommitHeld'
        BY DEF IInv, Good
    <2>2. QED BY <2>1, CoreParts, LastIndex DEF IInv, CommitHeld
<1>3. ASSUME NEW k \in Nat, NEW n \in Nat, NEW t \in Term, NEW commit \in Index,
             PersistReady(k, n, t, commit)
      PROVE  /\ Log!Persist
             /\ \A i \in core'.offset..core.hs.commit : term(core', i) = term(core, i)
    <2>1. /\ core'.offset = core.offset /\ core'.hs.commit >= core.hs.commit
          /\ k \in (core.hs.commit + 1)..(last_index(core) + 1)
          /\ last_index(core') >= k - 1
          /\ \A i \in 1..(k - core.offset) : core'.entries[i] = core.entries[i]
        BY <1>3, PersistReadyEffect
    <2>2. \A i \in core.offset..(k - 1) :
             /\ i \in core.offset..last_index(core)
             /\ i \in core'.offset..last_index(core')
             /\ term(core', i) = term(core, i)
        <3> TAKE i \in core.offset..(k - 1)
        <3>1. i \in core.offset..last_index(core) /\ i \in core'.offset..last_index(core')
            BY <1>1, <1>2, <2>1
        <3>2. i - core.offset + 1 \in 1..(k - core.offset)
            BY <1>1
        <3>3. core'.entries[i - core'.offset + 1] = core.entries[i - core.offset + 1]
            BY <2>1, <3>2
        <3>4. term(core', i) = term(core, i)
            BY <1>1, <1>2, <3>1, <3>3, SameEntrySameTerm
        <3>5. QED BY <3>1, <3>4
    <2>3. \A i \in core.offset..(k - 1) : lt'[i] = lt[i]
        BY <2>2
    <2>4. Log!Persist
        BY <1>2, <2>1, <2>3 DEF Log!Persist
    <2>5. \A i \in core'.offset..core.hs.commit : i \in core.offset..(k - 1)
        BY <1>1, <2>1
    <2>6. QED BY <2>2, <2>4, <2>5
<1>4. ASSUME NEW i \in Index, NEW st \in Term, NEW t \in Term, InstallSnapshot(i, st, t)
      PROVE  /\ Log!Install
             /\ \A j \in core'.offset..core.hs.commit : term(core', j) = term(core, j)
    <2>1. /\ i > core.hs.commit /\ core'.hs.commit = i
          /\ core'.offset = i /\ last_index(core') = i
        BY <1>4, InstallSnapshotEffect
    <2>2. Log!Install
        BY <2>1 DEF Log!Install
    <2>3. \A j \in core'.offset..core.hs.commit : FALSE
        BY <1>1, <1>2, <2>1
    <2>4. QED BY <2>2, <2>3
<1>5. ASSUME NEW i \in Index, ApplyUpTo(i)
      PROVE  core' = core
    BY <1>5 DEF ApplyUpTo
<1>6. ASSUME TriggerSnapshot
      PROVE  /\ Log!Discard \/ UNCHANGED Log!absVars
             /\ \A i \in core'.offset..core.hs.commit : term(core', i) = term(core, i)
    <2>1. /\ core'.hs = core.hs /\ last_index(core') = last_index(core)
          /\ core'.offset \in core.offset..core.hs.commit
          /\ \A j \in core'.offset..last_index(core) :
               core'.entries[j - core'.offset + 1] = core.entries[j - core.offset + 1]
        BY <1>6, TriggerSnapshotEffect
    <2>2. \A i \in core'.offset..last_index(core) :
             /\ i \in core.offset..last_index(core)
             /\ term(core', i) = term(core, i)
        <3> TAKE i \in core'.offset..last_index(core)
        <3>1. /\ i \in core.offset..last_index(core)
              /\ i \in core'.offset..last_index(core')
            BY <1>1, <1>2, <2>1
        <3>2. term(core', i) = term(core, i)
            BY <1>1, <1>2, <2>1, <3>1, SameEntrySameTerm
        <3>3. QED BY <3>1, <3>2
    <2>3. lt' = [i \in core'.offset..last_index(core) |-> lt[i]]
        BY <2>1, <2>2
    <2>4. ASSUME core'.offset = core.offset PROVE UNCHANGED Log!absVars
        <3>1. lt' = lt
            BY <2>1, <2>2, <2>4
        <3>2. QED BY <2>1, <2>4, <3>1 DEF Log!absVars
    <2>5. ASSUME core'.offset > core.offset PROVE Log!Discard
        BY <1>1, <1>2, <2>1, <2>3, <2>5 DEF Log!Discard
    <2>6. \A i \in core'.offset..core.hs.commit : i \in core'.offset..last_index(core)
        BY <1>1, <1>2
    <2>7. (Log!Discard \/ UNCHANGED Log!absVars)
        BY <1>1, <1>2, <2>1, <2>4, <2>5
    <2>8. QED BY <2>2, <2>6, <2>7
<1>7. ASSUME core' = core
      PROVE  /\ UNCHANGED Log!absVars
             /\ \A i \in core'.offset..core.hs.commit : term(core', i) = term(core, i)
    BY <1>7 DEF Log!absVars
<1>8. Index \subseteq Nat /\ 0..MaxBatch \subseteq Nat /\ MaxIndex + 1 \in Nat
    BY BoundsAssumption DEF Index
<1>9. CASE \E k \in Nat, n \in Nat, t \in Term, commit \in Index :
              PersistReady(k, n, t, commit)
    BY <1>3, <1>9 DEF Log!AbsNext
<1>10. CASE \E i \in Index, st \in Term, t \in Term : InstallSnapshot(i, st, t)
    BY <1>4, <1>10 DEF Log!AbsNext
<1>11. CASE \E i \in Index : ApplyUpTo(i)
    BY <1>5, <1>7, <1>11
<1>12. CASE TriggerSnapshot
    BY <1>6, <1>12 DEF Log!AbsNext
<1>13. QED BY <1>8, <1>9, <1>10, <1>11, <1>12 DEF Next

\* No step rewrites the term of a committed entry the log still holds: append
\* truncates above the commit index only, compact cuts whole entries.
THEOREM CommittedNeverRewritten == Spec => CommittedStable
<1>1. IInv /\ IInv' /\ [Next]_vars =>
         [\A i \in core'.offset..core.hs.commit :
             i >= core.offset => term(core', i) = term(core, i)]_vars
    BY StepRefines
<1>2. QED BY <1>1, StorageInvariant, PTL DEF Spec, CommittedStable

\* MemRaftStorage implements the log raft-rs expects of a Storage.
THEOREM StorageRefinesLog == Spec => ImplementsLog
<1>1. Init => Log!AbsInit
    <2>1. ASSUME Init PROVE Log!AbsInit
        <3>1. /\ IInv /\ last_index(core) = core.offset
              /\ core.hs.commit = core.offset
            BY <2>1, InitEstablishes
        <3>2. core.offset \in Nat
            BY <3>1, CoreParts DEF IInv, Good
        <3>3. QED BY <3>1, <3>2 DEF Log!AbsInit
    <2>2. QED BY <2>1
<1>2. IInv /\ IInv' /\ [Next]_vars => [Log!AbsNext]_(Log!absVars)
    <2>1. ASSUME IInv, IInv', Next PROVE Log!AbsNext \/ UNCHANGED Log!absVars
        BY <2>1, StepRefines
    <2>2. ASSUME UNCHANGED vars PROVE UNCHANGED Log!absVars
        BY <2>2 DEF vars, Log!absVars
    <2>3. QED BY <2>1, <2>2
<1>3. QED BY <1>1, <1>2, StorageInvariant, PTL DEF Spec, ImplementsLog, Log!AbsSpec
=============================================================================
