------------------------------ MODULE RaftNode ------------------------------
(***************************************************************************)
(* One cluster member between two turns of its loop, as a record, and what *)
(* the loop of flagfile-cli/src/server/raft/node.rs makes of it:           *)
(*                                                                         *)
(*   role, term, vote, commit, lead, votes, asked, matched, transferring   *)
(*            the raft-rs side (crate raft 0.7, outside src/)              *)
(*   core     the MemRaftStorage the node persists to                      *)
(*   applied  applied_index, the last applied command                      *)
(*   store    the flag store and the parsed namespaces: the last write     *)
(*            applied to each namespace                                    *)
(*   seen     the `committed` atomic that get_status reports               *)
(*                                                                         *)
(* The leader_id and term atomics are stored in every turn and equal lead  *)
(* and term between turns.  Pure operators: RaftCluster has the variables. *)
(***************************************************************************)
EXTENDS MemRaftStorage, FiniteSetsExt

CONSTANTS N,            \* the number of members; their ids are 1..N
          Namespace,
          Write,        \* the PutFlagfile commands
          NsOf,         \* [Write -> Namespace]
          Threshold     \* ClusterConfig.snapshot_threshold

ASSUME MembersAssumption == N \in Nat \ {0} /\ Threshold \in Nat
ASSUME WritesAssumption  == NsOf \in [Write -> Namespace] /\ NoData \notin Write

Node   == 1..N
NoNode == 0             \* raft::INVALID_ID: no leader, no vote

\* The peers of the configuration, in their order there: everyone else, by id.
Peer(n, k) == IF k < n THEN k ELSE k + 1

\* Mutant of Majority: half of the members will do.
HalfOfMembers(S) == 2 * Cardinality(S) >= N - 1

Majority(S) == 2 * Cardinality(S) > N

\* "flag store and namespaces are empty".
EmptyStore == [ns \in Namespace |-> NoData]

\* What an entry and what a snapshot carries; a member.
Data     == Write \cup {NoData}
Stores   == [Namespace -> Data]
SnapData == Stores \cup {NoData}

\* create_snapshot serializes the store, an empty one too: never to no data.
ASSUME StoresAssumption == NoData \notin Stores

NodeType ==
    [role : {"follower", "candidate", "leader"}, term : Nat, vote : 0..N, commit : Nat,
     lead : 0..N, votes : SUBSET Node, asked : SUBSET Node, matched : [Node -> Nat],
     transferring : BOOLEAN, core : CoreType(Data, SnapData), applied : Nat,
     store : Stores, seen : Nat]

\* No snapshot in this Ready.
NoSnapshot == Snapshot(0, 0, NoData)

\* RawNode::new over a storage: everything but the hard state is forgotten.
BootNode(core, store) ==
    [role |-> "follower", term |-> core.hs.term, vote |-> core.hs.vote,
     commit |-> core.hs.commit, lead |-> NoNode, votes |-> {}, asked |-> {},
     matched |-> [f \in Node |-> 0], transferring |-> FALSE,
     core |-> core, applied |-> 0, store |-> store, seen |-> 0]
-----------------------------------------------------------------------------
(***************************************************************************)
(* raft-rs: the role changes, on the record.                               *)
(***************************************************************************)
become_follower(nd, t, l) ==
    [nd EXCEPT !.role = "follower", !.lead = l, !.votes = {}, !.asked = {},
               !.matched = [f \in Node |-> 0], !.transferring = FALSE,
               !.vote = IF t = nd.term THEN @ ELSE NoNode,
               !.term = t]

become_candidate(nd, n) ==
    [become_follower(nd, nd.term + 1, NoNode) EXCEPT
        !.role = "candidate", !.vote = n, !.votes = {n}, !.asked = {n}]

become_leader(nd, n) ==
    [become_follower(nd, nd.term, n) EXCEPT !.role = "leader"]

\* The entry a leader appends next: an empty one at its election, else a command.
NextEntry(nd, data) == <<Entry(last_index(nd.core) + 1, nd.term, data)>>

\* The commit index the acknowledged copies allow: a leader only counts copies
\* of entries of its own term.
MaybeCommit(nd, n) ==
    LET held(i) == {n} \cup {f \in Node : nd.matched[f] >= i}
        able == {i \in nd.commit + 1 .. last_index(nd.core) :
                   Majority(held(i)) /\ term(nd.core, i) = nd.term}
    IN  IF able = {} THEN nd
        ELSE [nd EXCEPT !.commit = Max(able)]
-----------------------------------------------------------------------------
(***************************************************************************)
(* One turn of the loop: a Ready with new entries, or a snapshot, is       *)
(* persisted and what is committed is applied.                             *)
(***************************************************************************)

\* 1. Persist hard state and entries; 2. apply the snapshot.
Persist(nd, ents, snap) ==
    LET saved == AppendEntries(
                   set_hard_state(nd.core, HardState(nd.term, nd.vote, nd.commit)),
                   ents)
    IN  IF snap.index = 0 THEN saved ELSE apply_snapshot(saved, snap)

\* Mutant of restore: the data of a snapshot is ignored.
RestoreNothing(store, data) == store

\* RaftStateMachine::restore: data that does not parse (an empty snapshot)
\* is an error, printed, and the store stays as it is.
restore(store, data) == IF data = NoData THEN store ELSE data

\* Where the commands are among the committed entries: an empty one is skipped.
CommandsIn(new) == {k \in DOMAIN new : new[k].data # NoData}

\* RaftStateMachine::apply for each command, in order: the last write wins.
apply(store, new) ==
    [ns \in Namespace |->
        LET mine == {k \in CommandsIn(new) : NsOf[new[k].data] = ns}
        IN  IF mine = {} THEN store[ns] ELSE new[Max(mine)].data]

\* Mutant of TriggerSnapshot: the log is cut at its end, not at applied_index.
TriggerSnapshotAtEnd(nd) ==
    IF Threshold > 0 /\ nd.applied > 0
    THEN [nd EXCEPT !.core =
            compact(create_snapshot(@, last_index(@), nd.store), last_index(@))]
    ELSE nd

\* 6. Snapshot the store at applied_index, drop the log below it.
TriggerSnapshot(nd) ==
    IF Threshold > 0 /\ nd.applied > 0 /\ nd.applied % Threshold = 0
    THEN [nd EXCEPT !.core =
            compact(create_snapshot(@, nd.applied, nd.store), nd.applied)]
    ELSE nd

\* A member on its own has a quorum once its entries are persisted: raft-rs
\* commits them in advance(), and the LightReady carries the commit index.
LightCommit(nd, core) == IF N = 1 /\ nd.role = "leader" THEN last_index(core)
                         ELSE nd.commit

\* What is applied in this turn, out of the persisted core: everything committed
\* since the last turn, or since the snapshot.  Both the Ready's and the
\* LightReady's entries.
AppliedNow(nd, snap, core) ==
    EntriesFrom(core, (IF snap.index = 0 THEN nd.core.hs.commit ELSE snap.index) + 1,
                LightCommit(nd, core) + 1)

\* Mutant of Drains: only a Ready that also has new entries drains.
DrainsWithEntries(nd, ents, snap) ==
    /\ snap.index = 0 /\ nd.core.hs.commit < nd.commit
    /\ ents # <<>> /\ nd.core.hs.commit + 1 < ents[1].index

(***************************************************************************)
(* The pending senders are drained when the Ready itself carries committed *)
(* entries, empty ones included.  It carries those persisted before this   *)
(* turn; the LightReady carries the others, and drains nothing.            *)
(***************************************************************************)
Drains(nd, ents, snap) ==
    /\ snap.index = 0
    /\ nd.core.hs.commit < nd.commit
    /\ ents = <<>> \/ nd.core.hs.commit + 1 < ents[1].index

\* The node after the turn, up to its snapshot trigger.
Turn(nd, snap, core) ==
    LET commit   == LightCommit(nd, core)
        new      == AppliedNow(nd, snap, core)
        hardened == HardState(nd.term, nd.vote, nd.commit) # nd.core.hs
    IN  [nd EXCEPT
           !.core    = set_hard_state(core, HardState(nd.term, nd.vote, commit)),
           !.commit  = commit,
           !.store   = apply(restore(@, snap.data), new),
           !.applied = IF CommandsIn(new) = {} THEN @ ELSE new[Max(CommandsIn(new))].index,
           !.seen    = IF hardened THEN nd.commit ELSE @]
=============================================================================
