------------------------------- MODULE RaftLog -------------------------------
(***************************************************************************)
(* The life of one MemRaftStorage under the calls its owners make:         *)
(* server/mod.rs creates it (and seeds it when a leader was discovered),   *)
(* the loop of raft/node.rs persists, installs, snapshots and compacts.    *)
(*                                                                         *)
(* raft-rs decides the arguments.  It is outside src/, and what is assumed *)
(* of it is what its documentation promises a Storage: new entries start   *)
(* above the commit index and leave no gap, terms grow along the log, the  *)
(* commit index never falls and never passes the last entry, a snapshot    *)
(* that must be installed is above the commit index.                       *)
(***************************************************************************)
EXTENDS MemRaftStorage

CONSTANTS MaxIndex,     \* bound on log indices
          MaxTerm,      \* bound on terms
          MaxBatch      \* bound on the entries of one Ready

ASSUME BoundsAssumption == /\ MaxIndex \in Nat /\ MaxTerm \in Nat
                           /\ MaxBatch \in Nat

VARIABLES core,         \* the MemRaftStorageCore
          applied       \* node.rs: applied_index, the last applied command

vars == <<core, applied>>

Index == 0..MaxIndex
Term  == 0..MaxTerm

LastTerm(c) == c.entries[Len(c.entries)].term

\* server/mod.rs, multi-tenant start: a fresh storage, or one seeded with the
\* committed index and the term a peer reported.
Init ==
    /\ applied = 0
    /\ \/ core = New(0)
       \/ \E i \in Index \ {0}, t \in Term \ {0} :
            core = set_hard_state(apply_snapshot(New(0), Snapshot(i, t, NoData)),
                                  HardState(t, 0, i))

\* The terms a batch of n entries that follows one of term t can have.
TermRuns(t, n) == {ts \in [1..n -> Term] :
                     \A j \in 1..n : /\ ts[j] >= t
                                     /\ \A k \in 1..j : ts[k] <= ts[j]}

\* A Ready with entries from index k on, and its hard state (node.rs 1.).
\* The entry before the first new one is committed, or it is in the log.
PersistReady(k, n, t, commit) ==
    /\ k > core.hs.commit /\ k <= last_index(core) + 1
    /\ k + n - 1 <= MaxIndex
    /\ t >= core.hs.term
    /\ \E ts \in TermRuns(core.entries[Relative(core, k - 1)].term, n) :
        LET ents == [j \in 1..n |-> Entry(k + j - 1, ts[j], NoData)]
            next == AppendEntries(set_hard_state(core, HardState(t, 0, commit)), ents)
        IN  /\ n > 0 => ts[n] <= t
            /\ commit >= core.hs.commit /\ commit <= last_index(next)
            /\ core' = next
    /\ UNCHANGED applied

\* A Ready that carries a snapshot (node.rs 1. and 2.): the hard state commits
\* the snapshot's index, the storage becomes the snapshot.  applied_index is not
\* moved to the snapshot's index.
InstallSnapshot(i, st, t) ==
    /\ i > core.hs.commit
    /\ t >= core.hs.term /\ st <= t
    /\ core' = apply_snapshot(set_hard_state(core, HardState(t, 0, i)),
                              Snapshot(i, st, i))
    /\ UNCHANGED applied

\* A command is applied (node.rs 4. and 5.); empty entries do not count.
ApplyUpTo(i) ==
    /\ i > applied /\ i <= core.hs.commit /\ i > core.offset
    /\ applied' = i
    /\ UNCHANGED core

\* node.rs 6.: snapshot the store at applied_index, then drop the log below it.
TriggerSnapshot ==
    /\ applied > 0
    /\ core' = compact(create_snapshot(core, applied, applied), applied)
    /\ UNCHANGED applied

Next ==
    \/ \E k \in Index, n \in 0..MaxBatch, t \in Term, commit \in Index :
         PersistReady(k, n, t, commit)
    \/ \E k \in {MaxIndex + 1}, t \in Term, commit \in Index :
         PersistReady(k, 0, t, commit)
    \/ \E i \in Index, st, t \in Term : InstallSnapshot(i, st, t)
    \/ \E i \in Index : ApplyUpTo(i)
    \/ TriggerSnapshot

Spec == Init /\ [][Next]_vars
-----------------------------------------------------------------------------
\* What an entry and a snapshot carry is opaque to the log: no data, or the
\* applied index the data of a snapshot stands for.
Payload == Nat \cup {NoData}

TypeOK == core \in CoreType(Payload, Payload) /\ applied \in Nat

(***************************************************************************)
(* An entry's place in the Vec is its index minus the offset: the          *)
(* arithmetic of append, compact, entries and term all rest on it, and     *)
(* every one of them could break it by one.                                *)
(***************************************************************************)
Contiguous == IsContiguous(core)

(***************************************************************************)
(* term() answers the snapshot's index from the snapshot and every other   *)
(* index from the log; the two must not disagree, or the log-matching test *)
(* of raft-rs would accept or refuse the wrong entry.  It takes the pair   *)
(* create_snapshot + compact to keep both at the same index.               *)
(***************************************************************************)
SnapshotAgrees ==
    core.snap.index # 0 =>
        /\ core.snap.index = core.offset
        /\ core.snap.term = core.entries[1].term

(***************************************************************************)
(* The committed part of the log is never compacted past, nor is the       *)
(* commit index past the end: committed entries not yet applied are always *)
(* readable.                                                               *)
(***************************************************************************)
CommitHeld == core.offset <= core.hs.commit /\ core.hs.commit <= last_index(core)

\* The term of a committed entry never changes while the log still holds it.
CommittedStable ==
    [][\A i \in core'.offset..core.hs.commit :
          i >= core.offset => term(core', i) = term(core, i)]_vars

\* The map the storage shows raft-rs, read through first_index, last_index, term.
Log == INSTANCE AbstractLog WITH
          first     <- core.offset,
          last      <- last_index(core),
          logTerm   <- [i \in core.offset..last_index(core) |-> term(core, i)],
          committed <- core.hs.commit

\* MemRaftStorage keeps the promise of a Storage.
ImplementsLog == Log!AbsSpec
=============================================================================
