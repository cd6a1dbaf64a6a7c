--------------------------- MODULE MemRaftStorage ---------------------------
(***************************************************************************)
(* The in-memory Raft log of flagfile-cli/src/server/raft/storage.rs, as   *)
(* operators on one MemRaftStorageCore record:                             *)
(*                                                                         *)
(*   hs       the hard state: term, vote, commit                           *)
(*   snap     the last snapshot: index, term, data (index 0: none)         *)
(*   entries  the Vec<Entry>; entries[1] is the dummy at `offset`          *)
(*   offset   the index of entries[1]                                      *)
(*                                                                         *)
(* A Rust method that returns Err leaves the core alone; every caller in   *)
(* node.rs prints the error and goes on, so an operator that "fails" here  *)
(* returns its argument.  The membership (conf_state) never changes and is *)
(* left out.  The module has no variables: RaftLog makes a state machine   *)
(* of it, RaftCluster keeps one core per node.                             *)
(***************************************************************************)
EXTENDS Integers, Sequences

CONSTANT NoData     \* the data of a dummy entry, and of a leader's empty entry

\* The two errors Storage::term returns, as values no term has.
Compacted   == -1
Unavailable == -2

Entry(i, t, d) == [index |-> i, term |-> t, data |-> d]
Snapshot(i, t, d) == [index |-> i, term |-> t, data |-> d]
HardState(t, v, k) == [term |-> t, vote |-> v, commit |-> k]

\* MemRaftStorage::new: the seed entry at index 0 makes first_index() = 1.
New(v) == [hs      |-> HardState(0, v, 0),
           snap    |-> Snapshot(0, 0, NoData),
           entries |-> <<Entry(0, 0, NoData)>>,
           offset  |-> 0]

first_index(c) == c.offset + 1
last_index(c)  == c.entries[Len(c.entries)].index

\* The position in `entries` of log index i (Rust counts from 0).
Relative(c, i) == i - c.offset + 1

\* Storage::term: the snapshot's own index is answered from the snapshot.
term(c, i) ==
    IF i < c.offset THEN Compacted
    ELSE IF c.snap.index # 0 /\ i = c.snap.index THEN c.snap.term
    ELSE IF Relative(c, i) > Len(c.entries) THEN Unavailable
    ELSE c.entries[Relative(c, i)].term

\* Storage::entries for lo <= i < hi, without the size limit.
EntriesFrom(c, lo, hi) == SubSeq(c.entries, Relative(c, lo), Relative(c, hi) - 1)

\* Mutants of AppendEntries: the old tail stays; one entry too many is cut.
AppendKeepingTail(c, ents) ==
    IF ents = <<>> \/ ents[1].index <= c.offset THEN c
    ELSE [c EXCEPT !.entries = @ \o ents]

AppendCuttingOneMore(c, ents) ==
    IF ents = <<>> \/ ents[1].index <= c.offset THEN c
    ELSE [c EXCEPT !.entries = SubSeq(@, 1, ents[1].index - c.offset - 1) \o ents]

\* MemRaftStorage::append: cut the tail from the first new index on, extend.
\* (`append` in the source; Append is the operator of Sequences.)
AppendEntries(c, ents) ==
    IF ents = <<>> \/ ents[1].index <= c.offset
    THEN c
    ELSE LET relative == ents[1].index - c.offset
             kept == IF relative < Len(c.entries)
                     THEN SubSeq(c.entries, 1, relative)
                     ELSE c.entries
         IN  [c EXCEPT !.entries = kept \o ents]

set_hard_state(c, hs) == [c EXCEPT !.hs = hs]

\* MemRaftStorage::apply_snapshot: the log becomes the one dummy entry.
apply_snapshot(c, s) ==
    IF s.index <= c.offset
    THEN c
    ELSE [c EXCEPT !.offset  = s.index,
                   !.entries = <<Entry(s.index, s.term, NoData)>>,
                   !.snap    = s]

\* Mutant of compact: the entry before i becomes the dummy.
CompactOneShort(c, i) ==
    IF i <= c.offset \/ i > last_index(c) THEN c
    ELSE [c EXCEPT !.entries = SubSeq(@, Relative(c, i) - 1, Len(@)), !.offset = i]

\* MemRaftStorage::compact: entries below i go, the one at i is the new dummy.
compact(c, i) ==
    IF i <= c.offset \/ i > last_index(c)
    THEN c
    ELSE [c EXCEPT !.entries = SubSeq(@, Relative(c, i), Len(@)),
                   !.offset  = i]

\* Mutants of create_snapshot: the term of the entry before i; the current term.
SnapshotOfPreviousTerm(c, i, data) ==
    IF i > last_index(c) \/ i < c.offset THEN c
    ELSE [c EXCEPT !.snap = Snapshot(i, term(c, i - 1), data)]

SnapshotOfCurrentTerm(c, i, data) ==
    IF i > last_index(c) \/ i < c.offset THEN c
    ELSE [c EXCEPT !.snap = Snapshot(i, c.hs.term, data)]

\* MemRaftStorage::create_snapshot.  Below the offset, `index - core.offset` is
\* an underflowing u64: the release build wraps it to a position past every
\* length, which the next test turns into Unavailable.
create_snapshot(c, i, data) ==
    IF i > last_index(c) \/ i < c.offset
    THEN c
    ELSE [c EXCEPT !.snap = Snapshot(i, c.entries[Relative(c, i)].term, data)]
-----------------------------------------------------------------------------
\* The core of a storage whose entries carry data of the set D, and whose
\* snapshots data of the set S.
CoreType(D, S) ==
    [hs      : [term : Nat, vote : Nat, commit : Nat],
     snap    : [index : Nat, term : Nat, data : S],
     entries : Seq([index : Nat, term : Nat, data : D]),
     offset  : Nat]

\* An entry's place in the Vec is its index minus the offset.
IsContiguous(c) ==
    /\ c.entries # <<>>
    /\ \A k \in 1..Len(c.entries) : c.entries[k].index = c.offset + k - 1
=============================================================================
