----------------------------- MODULE RaftCluster -----------------------------
(***************************************************************************)
(* A cluster of `ff serve` processes in multi-tenant mode: the start of    *)
(* server/mod.rs (discovery, bootstrap, seeding), the loop of raft/node.rs,*)
(* the PUT handler of routes.rs with its forwarding through                *)
(* raft/transport.rs, and process restarts.                                *)
(*                                                                         *)
(* What is coarse.  raft-rs is outside src/: a request and the probing it  *)
(* takes is one step of its two members, whose loops turn once each; the   *)
(* request may come late (the step is taken late) or never, the reply may  *)
(* be lost.  A member that panicked keeps its HTTP and gRPC servers and    *)
(* its frozen status; only its loop is gone.                               *)
(***************************************************************************)
EXTENDS RaftNode

CONSTANTS MaxTerm,        \* bound on elections
          MaxRestarts,    \* bound on process restarts
          Transfers,      \* whether leadership is transferred
          Durable,        \* TRUE: sled store, FALSE: memory store
          LossyReplies,   \* whether replies and RPCs can fail at random
          Orderly         \* restarts only when nothing is in flight

\* A member on its own elects itself at once: there is a term to be elected in.
ASSUME BoundsAssumption == MaxTerm \in Nat \ {0} /\ MaxRestarts \in Nat

VARIABLES
    status,     \* [Node -> {"probing", "up", "panicked"}]
    node,       \* [Node -> record of RaftNode]
    found,      \* what a probing member has discovered, and its next peer
    write,      \* [Write -> where its PUT has got to, and at which member]
    history,    \* history variable: <<index, data>> pairs ever applied
    restarts    \* restarts so far

vars == <<status, node, found, write, history, restarts>>

Up(n)      == status[n] = "up"
Leads(n)   == Up(n) /\ node[n].role = "leader"
Serving(n) == status[n] # "probing"         \* its HTTP and gRPC servers answer
Lost       == IF LossyReplies THEN BOOLEAN ELSE {FALSE}

NothingFound == [leader |-> NoNode, term |-> 0, committed |-> 0, peer |-> 1]
Put(st, n)   == [st |-> st, at |-> n]
Progress     == [st : {"new"}, at : {NoNode}] \cup
                [st : {"forwarded", "queued", "pending", "ok", "error"}, at : Node]

\* What applying some entries leaves in the history.
Recorded(new) == {<<new[k].index, new[k].data>> : k \in DOMAIN new}

\* The loop turns of some members: turns maps each of them to <<nd, ents, snap>>,
\* `saved` to its storage once that is persisted.  wr is the writes' progress
\* before pending senders are drained.  (\E over one value: TLC evaluates it once.)
Turns(turns, wr) ==
    \E t \in {turns} : \E saved \in {[n \in DOMAIN t |-> Persist(t[n][1], t[n][2], t[n][3])]} :
    \E after \in {[n \in DOMAIN t |-> Turn(t[n][1], t[n][3], saved[n])]} :
        /\ node' = [n \in Node |-> IF n \in DOMAIN t THEN TriggerSnapshot(after[n])
                                  ELSE node[n]]
        /\ write' = [w \in Write |->
                        LET n == wr[w].at IN
                        IF /\ wr[w].st = "pending" /\ n \in DOMAIN t
                           /\ Drains(t[n][1], t[n][2], t[n][3])
                        THEN Put("ok", n) ELSE wr[w]]
        /\ history' = history \cup
             UNION {Recorded(AppliedNow(t[n][1], t[n][3], saved[n])) : n \in DOMAIN t}

\* The turns of one member, or of two.
One(n, x)       == [m \in {n} |-> x]
Two(f, x, l, y) == [m \in {f, l} |-> IF m = f THEN x ELSE y]

\* A member's raft-rs side, ready to turn without a new entry or snapshot.
Plain(nd) == <<nd, <<>>, NoSnapshot>>

\* run_raft_node: alone, a member elects itself before its first turn.
Started(n, core, store) ==
    LET nd == BootNode(core, store)
        ld == become_leader(become_candidate(nd, n), n)
    IN  IF N = 1 THEN TriggerSnapshot(Turn(ld, NoSnapshot,
                          Persist(ld, NextEntry(ld, NoData), NoSnapshot)))
        ELSE nd

Init ==
    /\ status = [n \in Node |-> "up"]
    /\ node = [n \in Node |-> Started(n, New(0), EmptyStore)]
    /\ found = [n \in Node |-> NothingFound]
    /\ write = [w \in Write |-> Put("new", NoNode)]
    /\ history = IF N = 1 THEN {<<1, NoData>>} ELSE {}
    /\ restarts = 0
-----------------------------------------------------------------------------
(***************************************************************************)
(* Elections.                                                              *)
(***************************************************************************)

\* The election timeout of raw_node.tick(), or the staggered first campaign.
Campaign(n) ==
    /\ N > 1 /\ Up(n) /\ node[n].role # "leader" /\ node[n].term < MaxTerm
    /\ Turns(One(n, Plain(become_candidate(node[n], n))), write)
    /\ UNCHANGED <<status, found, restarts>>

\* Mutant of UpToDate: only the last terms are compared.
UpToDateInTerm(c, v) ==
    term(c.core, last_index(c.core)) >= term(v.core, last_index(v.core))

\* v's log is not ahead of c's.
UpToDate(c, v) ==
    LET lastTerm(nd) == term(nd.core, last_index(nd.core))
    IN  \/ lastTerm(c) > lastTerm(v)
        \/ lastTerm(c) = lastTerm(v) /\ last_index(c.core) >= last_index(v.core)

\* Mutant of Free: the vote already given in this term is forgotten.
FreeAgain(v, c) == v.lead = NoNode

\* v has not voted for another member in this term.
Free(v, c) == v.vote = c \/ (v.vote = NoNode /\ v.lead = NoNode)

\* c's vote request reaches v, once; the grant may not come back.
RequestVote(c, v) ==
    LET cand == node[c]
        seen == IF cand.term > node[v].term
                THEN become_follower(node[v], cand.term, NoNode)
                ELSE node[v]
        granted == Free(seen, c) /\ UpToDate(cand, seen)
        voter == IF granted THEN [seen EXCEPT !.vote = c] ELSE seen
    IN  /\ Up(c) /\ Up(v) /\ cand.role = "candidate" /\ v \notin cand.asked
        /\ cand.term >= node[v].term
        /\ \E lost \in Lost :
             LET votes == IF granted /\ ~lost THEN cand.votes \cup {v} ELSE cand.votes
                 asked == [cand EXCEPT !.asked = @ \cup {v}, !.votes = votes]
                 ld    == become_leader(cand, c)
             IN  Turns(Two(v, Plain(voter),
                           c, IF Majority(votes)
                              THEN <<ld, NextEntry(ld, NoData), NoSnapshot>>
                              ELSE Plain(asked)), write)
        /\ UNCHANGED <<status, found, restarts>>

\* TransferLeader: the first peer of the configuration is asked to campaign
\* (its Campaign), and this leader drops proposals until it is deposed ...
TransferLeader(n) ==
    /\ Transfers /\ N > 1 /\ Leads(n) /\ ~node[n].transferring
    /\ Turns(One(n, Plain([node[n] EXCEPT !.transferring = TRUE])), write)
    /\ UNCHANGED <<status, found, restarts>>

\* ... or its election timeout ends the transfer.
TransferTimesOut(n) ==
    /\ Leads(n) /\ node[n].transferring
    /\ Turns(One(n, Plain([node[n] EXCEPT !.transferring = FALSE])), write)
    /\ UNCHANGED <<status, found, restarts>>
-----------------------------------------------------------------------------
(***************************************************************************)
(* Replication.                                                            *)
(***************************************************************************)

\* f hears from l: it is l's follower from now on, unless it knows better.
Hears(f, l) == /\ Leads(l) /\ Up(f) /\ f # l
               /\ node[l].term >= node[f].term
               /\ ~(node[f].role = "leader" /\ node[f].term = node[l].term)

Follower(f, l) == IF node[f].term = node[l].term /\ node[f].role = "follower"
                  THEN [node[f] EXCEPT !.lead = l]
                  ELSE become_follower(node[f], node[l].term, l)

\* Mutant of Anchors: the terms are not compared.
AnchorsAnyTerm(l, f) ==
    {p \in node[l].core.offset .. last_index(node[l].core) :
       /\ p >= node[l].matched[f]
       /\ \/ p < node[f].commit
          \/ p \in node[f].core.offset .. last_index(node[f].core)}

\* The indices at which l can anchor an append to f: l has the index, it does
\* not go back below what f has acknowledged, and f has the same entry, or has
\* committed past it.
Anchors(l, f) ==
    LET lc == node[l].core
        fc == node[f].core
    IN  {p \in lc.offset .. last_index(lc) :
           /\ p >= node[l].matched[f]
           /\ \/ p < node[f].commit
              \/ p \in fc.offset .. last_index(fc) /\ term(fc, p) = term(lc, p)}

\* The commit index never goes back.
CommitTo(nd, k) == [nd EXCEPT !.commit = IF k > @ THEN k ELSE @]

LesserOf(i, j)  == IF i < j THEN i ELSE j
GreaterOf(i, j) == IF i < j THEN j ELSE i

\* l's record after f acknowledged everything up to k.
Acknowledged(l, f, k) ==
    MaybeCommit([node[l] EXCEPT !.matched[f] = IF k > @ THEN k ELSE @], l)

(***************************************************************************)
(* An append: the entry after the highest anchor, if there is one (one     *)
(* entry a message: max_size_per_msg is 0), and the commit index.  Below   *)
(* its own commit index f takes nothing and answers with that index.       *)
(***************************************************************************)
AppendEntry(l, f) ==
    /\ Hears(f, l)
    /\ \E p \in Anchors(l, f), lost \in Lost :
         LET fl   == Follower(f, l)
             old  == p < fl.commit
             ents == IF old \/ p = last_index(node[l].core) THEN <<>>
                     ELSE EntriesFrom(node[l].core, p + 1, p + 2)
         IN  /\ \A a \in Anchors(l, f) : a <= p
             /\ \E upto \in {IF old THEN fl.commit ELSE p + Len(ents)} :
                Turns(Two(f, <<CommitTo(fl, LesserOf(node[l].commit, upto)), ents, NoSnapshot>>,
                          l, Plain(IF lost THEN node[l] ELSE Acknowledged(l, f, upto))),
                      write)
    /\ UNCHANGED <<status, found, restarts>>

\* A heartbeat carries the commit index, but no more than f acknowledged.
HeartbeatCommit(l, f) == LesserOf(node[l].matched[f], node[l].commit)

Heartbeat(l, f) ==
    /\ Hears(f, l) /\ HeartbeatCommit(l, f) <= last_index(node[f].core)
    /\ Turns(One(f, Plain(CommitTo(Follower(f, l), HeartbeatCommit(l, f)))), write)
    /\ UNCHANGED <<status, found, restarts>>

\* raft-rs's commit_to panics when the index is past the log's end: the loop's
\* task dies, its queued and pending senders are dropped.
HeartbeatPanics(l, f) ==
    /\ Hears(f, l)
    /\ HeartbeatCommit(l, f) > last_index(node[f].core)
    /\ status' = [status EXCEPT ![f] = "panicked"]
    /\ write' = [w \in Write |->
                    IF write[w].at = f /\ write[w].st \in {"queued", "pending"}
                    THEN Put("error", f) ELSE write[w]]
    /\ UNCHANGED <<node, found, history, restarts>>

\* The entries f needs are compacted: it gets the last snapshot, and installs it
\* unless it has committed that far or has the snapshot's entry in its log.
SendSnapshot(l, f) ==
    LET fl    == Follower(f, l)
        s     == node[l].core.snap
        old   == s.index <= fl.commit
        has   == s.index <= last_index(fl.core) /\ term(fl.core, s.index) = s.term
        taken == IF old THEN fl ELSE [fl EXCEPT !.commit = s.index]
    IN  /\ Hears(f, l) /\ Anchors(l, f) = {}
        /\ node[l].matched[f] < node[l].core.offset
        /\ \E lost \in Lost :
             Turns(Two(f, <<taken, <<>>, IF old \/ has THEN NoSnapshot ELSE s>>,
                       l, Plain(IF lost THEN node[l]
                                ELSE Acknowledged(l, f, taken.commit))), write)
        /\ UNCHANGED <<status, found, restarts>>
-----------------------------------------------------------------------------
(***************************************************************************)
(* Writes.  write[w].st: new, forwarded (a ForwardWrite call to `at`),     *)
(* queued (in proposal_tx of `at`), pending (its sender is in `pending` of *)
(* `at`), ok or error (answered).                                          *)
(***************************************************************************)
Answer(w, n, st) == write' = [write EXCEPT ![w] = Put(st, n)]

\* handle_propose: a proposal sent to a loop that is gone fails.
Enqueue(w, n) == Answer(w, n, IF Up(n) THEN "queued" ELSE "error")

\* PUT at n: propose here, forward to the leader n follows, or refuse.
PutFlagfile(w, n) ==
    /\ write[w].st = "new" /\ Serving(n)
    /\ \/ node[n].lead = n /\ Enqueue(w, n)
       \/ node[n].lead = NoNode /\ Answer(w, n, "error")
       \/ node[n].lead \notin {n, NoNode} /\ Answer(w, node[n].lead, "forwarded")
    /\ UNCHANGED <<status, node, found, history, restarts>>

\* forward_write at the member that was the leader, or the call fails.
ForwardWrite(w) ==
    /\ write[w].st = "forwarded"
    /\ LET n == write[w].at IN
       \/ Serving(n) /\ node[n].lead = n /\ Enqueue(w, n)
       \/ Serving(n) /\ node[n].lead # n /\ Answer(w, n, "error")
       \/ (LossyReplies \/ ~Serving(n)) /\ Answer(w, n, "error")
    /\ UNCHANGED <<status, node, found, history, restarts>>

\* The loop receives a proposal as the leader: it is appended to the log.
ProposeAsLeader(w) ==
    LET n  == write[w].at
        nd == node[n]
    IN  /\ write[w].st = "queued" /\ Leads(n) /\ ~nd.transferring
        /\ Turns(One(n, <<nd, NextEntry(nd, w), NoSnapshot>>),
                 [write EXCEPT ![w].st = "pending"])
        /\ UNCHANGED <<status, found, restarts>>

\* ... as a follower: raft-rs sends it on to the leader, where it is appended
\* (no sender waits for it there), or it is lost.  The sender waits here.
ProposeAsFollower(w) ==
    LET n == write[w].at
        l == node[n].lead
    IN  /\ write[w].st = "queued" /\ Up(n)
        /\ node[n].role = "follower" /\ l # NoNode
        /\ \/ /\ Leads(l) /\ ~node[l].transferring
              /\ Turns(One(l, <<node[l], NextEntry(node[l], w), NoSnapshot>>),
                       [write EXCEPT ![w].st = "pending"])
           \/ /\ LossyReplies \/ ~Leads(l) \/ node[l].transferring
              /\ Turns(<<>>, [write EXCEPT ![w].st = "pending"])
        /\ UNCHANGED <<status, found, restarts>>

\* ... and without a leader, or while leadership is transferred: ProposalDropped.
ProposalDropped(w) ==
    LET n == write[w].at
    IN  /\ write[w].st = "queued" /\ Up(n)
        /\ \/ node[n].role # "leader" /\ node[n].lead = NoNode
           \/ node[n].role = "leader" /\ node[n].transferring
        /\ Answer(w, n, "error")
        /\ UNCHANGED <<status, node, found, history, restarts>>
-----------------------------------------------------------------------------
(***************************************************************************)
(* A process stops and starts again.  Its Raft log, hard state included,   *)
(* was in memory; a sled store is still there.                             *)
(***************************************************************************)

\* Nothing is in flight: one leader everyone follows, nothing left to replicate,
\* commit or apply, and no write under way.
Quiescent ==
    /\ \A w \in Write : write[w].st \in {"new", "ok", "error"}
    /\ \E l \in Node :
         /\ Leads(l)
         /\ \A f \in Node \ {l} :
              /\ Up(f) /\ node[f].lead = l /\ node[f].term = node[l].term
              /\ node[l].matched[f] = last_index(node[l].core)
         /\ \A f \in Node : /\ node[f].commit = last_index(node[l].core)
                            /\ last_index(node[f].core) = node[f].commit

Restart(n) ==
    /\ restarts < MaxRestarts /\ Serving(n)
    /\ Orderly => Quiescent /\ node[n].role # "leader"
    /\ restarts' = restarts + 1
    /\ status' = [status EXCEPT ![n] = "probing"]
    /\ node' = [node EXCEPT ![n] =
                   BootNode(New(0), IF Durable THEN @.store ELSE EmptyStore)]
    /\ found' = [found EXCEPT ![n] = NothingFound]
    /\ write' = [w \in Write |->
                    IF write[w].at = n /\ write[w].st \in {"queued", "pending"}
                    THEN Put("error", n) ELSE write[w]]
    /\ UNCHANGED history

\* Leader discovery: the peers are asked in turn, up to the first that answers
\* and knows a leader.
ProbePeer(n) ==
    LET p == Peer(n, found[n].peer)
    IN  /\ status[n] = "probing" /\ found[n].leader = NoNode /\ found[n].peer < N
        /\ \/ /\ Serving(p) /\ node[p].lead # NoNode
              /\ found' = [found EXCEPT ![n] =
                             [leader |-> node[p].lead, term |-> node[p].term,
                              committed |-> node[p].seen, peer |-> found[n].peer]]
           \/ /\ LossyReplies \/ ~Serving(p) \/ node[p].lead = NoNode
              /\ found' = [found EXCEPT ![n].peer = @ + 1]
        /\ UNCHANGED <<status, node, write, history, restarts>>

\* Mutant of Bootstrapped: the peers' snapshot is never asked for.
BootstrappedAlone(n) == {node[n].store}

\* The store a bootstrap starts from: a store that is not empty is kept; else the
\* leader, or the first peer, is asked for a snapshot, and may not answer.
Bootstrapped(n) ==
    LET source == IF found[n].leader # NoNode THEN found[n].leader ELSE Peer(n, 1)
        own    == node[n].store
    IN  IF own # EmptyStore \/ N = 1 THEN {own}
        ELSE IF source = n \/ ~Serving(source) THEN {own}
        ELSE IF LossyReplies THEN {own, node[source].store}
        ELSE {node[source].store}

\* Mutants of Seeded: the storage starts empty; its hard state is not set.
Unseeded(n) == New(0)

SeededSnapshotOnly(n) ==
    apply_snapshot(New(0), Snapshot(found[n].committed, found[n].term, NoData))

\* The Raft storage is seeded at the committed index the probed peer reported.
Seeded(n) ==
    IF found[n].committed = 0 THEN New(0)
    ELSE set_hard_state(
           apply_snapshot(New(0), Snapshot(found[n].committed, found[n].term, NoData)),
           HardState(found[n].term, NoNode, found[n].committed))

BootstrapAndStart(n) ==
    /\ status[n] = "probing" /\ (found[n].leader # NoNode \/ found[n].peer = N)
    /\ \E store \in Bootstrapped(n) :
         node' = [node EXCEPT ![n] = Started(n, Seeded(n), store)]
    /\ status' = [status EXCEPT ![n] = "up"]
    /\ found' = [found EXCEPT ![n] = NothingFound]
    /\ history' = IF N = 1 THEN history \cup {<<1, NoData>>} ELSE history
    /\ UNCHANGED <<write, restarts>>
-----------------------------------------------------------------------------
Next ==
    \/ \E n \in Node : Campaign(n)
    \/ \E c, v \in Node : RequestVote(c, v)
    \/ \E n \in Node : TransferLeader(n)
    \/ \E n \in Node : TransferTimesOut(n)
    \/ \E l, f \in Node : AppendEntry(l, f)
    \/ \E l, f \in Node : Heartbeat(l, f)
    \/ \E l, f \in Node : HeartbeatPanics(l, f)
    \/ \E l, f \in Node : SendSnapshot(l, f)
    \/ \E w \in Write, n \in Node : PutFlagfile(w, n)
    \/ \E w \in Write : ForwardWrite(w)
    \/ \E w \in Write : ProposeAsLeader(w)
    \/ \E w \in Write : ProposeAsFollower(w)
    \/ \E w \in Write : ProposalDropped(w)
    \/ \E n \in Node : Restart(n)
    \/ \E n \in Node : ProbePeer(n)
    \/ \E n \in Node : BootstrapAndStart(n)

Spec == Init /\ [][Next]_vars

(***************************************************************************)
(* A leader resends to every follower on its heartbeats; the loop polls    *)
(* proposal_rx for ever, and what it received is proposed or dropped; a    *)
(* forwarding PUT handler runs on, and so does a start.  Nothing obliges   *)
(* anyone to campaign, to end a transfer, to restart a member or to write. *)
(***************************************************************************)
Fairness ==
    /\ \A l, f \in Node : WF_vars(AppendEntry(l, f)) /\ WF_vars(SendSnapshot(l, f))
    /\ \A w \in Write :
         /\ WF_vars(ForwardWrite(w))
         /\ WF_vars(ProposeAsLeader(w) \/ ProposeAsFollower(w) \/ ProposalDropped(w))
    /\ \A n \in Node : WF_vars(ProbePeer(n) \/ BootstrapAndStart(n))

FairSpec == Spec /\ Fairness
-----------------------------------------------------------------------------
TypeOK ==
    /\ status \in [Node -> {"probing", "up", "panicked"}]
    /\ node \in [Node -> NodeType] /\ \A n \in Node : node[n].term <= MaxTerm
    /\ found \in [Node -> [leader : 0..N, term : 0..MaxTerm, committed : Nat, peer : 1..N]]
    /\ write \in [Write -> Progress]
    /\ history \subseteq Nat \X Data
    /\ restarts \in 0..MaxRestarts

\* At most one member leads in a term.
ElectionSafety ==
    \A m, n \in Node : Leads(m) /\ Leads(n) /\ node[m].term = node[n].term => m = n

(***************************************************************************)
(* A leader has what members of its term or of an earlier one have         *)
(* committed: its log reaches there, with the same term.  MemRaftStorage   *)
(* answers term() and last_index() for votes and appends; a cut, a         *)
(* compaction or an installed snapshot that changed them would show here.  *)
(***************************************************************************)
LeaderComplete ==
    \A l, n \in Node : Leads(l) /\ node[n].term <= node[l].term =>
        LET c == node[l].core
            k == node[n].commit
        IN  /\ k <= last_index(c)
            /\ k >= c.offset => term(c, k) = term(node[n].core, k)

\* No two members ever apply different commands at the same index.
AppliedAgree == \A x, y \in history : x[1] = y[1] => x = y

(***************************************************************************)
(* A member's store holds, for each namespace, the last write applied      *)
(* anywhere at or below its own commit index, or a later one.  It relates  *)
(* the store, which snapshots and bootstraps replace as a whole, with the  *)
(* commit index, which seeding sets by hand.                               *)
(***************************************************************************)
Missing(n) == {ns \in Namespace :
    \E x \in history :
        /\ x[2] # NoData /\ NsOf[x[2]] = ns /\ x[1] <= node[n].commit
        /\ \A y \in history : y[2] = node[n].store[ns] => y[1] < x[1]}

NoMissedWrites == \A n \in Node : Serving(n) => Missing(n) = {}

\* Every member's storage is in good shape, whatever restarts and seeds did.
StorageSound ==
    \A n \in Node :
        LET c == node[n].core IN
        /\ IsContiguous(c)
        /\ c.snap.index # 0 => c.snap.index = c.offset /\ c.snap.term = c.entries[1].term
        /\ c.offset <= c.hs.commit /\ c.hs.commit <= last_index(c)
        /\ c.hs = HardState(node[n].term, node[n].vote, node[n].commit)

(***************************************************************************)
(* Two logs that have the same term at an index have the same entries up   *)
(* to there, as far down as both still hold them.  Appends, their cuts,    *)
(* compaction and the installing of snapshots and seeds all go through it. *)
(***************************************************************************)
LogMatching ==
    \A m, n \in Node :
        LET c  == node[m].core
            d  == node[n].core
            lo == GreaterOf(c.offset, d.offset) + 1
        IN  \A i \in lo .. LesserOf(last_index(c), last_index(d)) :
              term(c, i) = term(d, i) => EntriesFrom(c, lo, i + 1) = EntriesFrom(d, lo, i + 1)

\* No member's loop panics.
NoPanic == \A n \in Node : status[n] # "panicked"

(***************************************************************************)
(* server/mod.rs:422 lets the seed carry no data because "the store is     *)
(* already populated": a member whose snapshot is a seed has, in its       *)
(* store, all that was written up to the seed's index.                     *)
(***************************************************************************)
SeededIsPopulated ==
    \A n \in Node : LET s == node[n].core.snap IN
        Up(n) /\ s.index # 0 /\ s.data = NoData /\ node[n].commit = s.index
            => Missing(n) = {}

(***************************************************************************)
(* RaftHandle::propose "returns when the proposal has been submitted": the *)
(* handler of a PUT that reached a loop's queue is answered.               *)
(***************************************************************************)
SubmittedIsAnswered ==
    \A w \in Write : write[w].st \in {"forwarded", "queued"} ~> write[w].st \in {"ok", "error"}

\* A write applied by one member is applied by all of them: each reaches the
\* write's index, through the log or through a snapshot, and has it in its store
\* unless a later write replaced it.
AppliedEverywhere ==
    \A w \in Write, n \in Node :
        (\E x \in history : x[2] = w)
            ~> (\E x \in history : /\ x[2] = w /\ x[1] <= node[n].commit
                                   /\ NsOf[w] \notin Missing(n))
=============================================================================
