-------------------------- MODULE RaftElectionProofs --------------------------
(***************************************************************************)
(* Proofs about RaftCluster, for every number of members, of writes and of *)
(* terms, as long as no member restarts (a restart loses the log and the   *)
(* vote, which were in memory: MCRaftCrash and MCRaftRejoin are about it): *)
(* a term has one leader, the logs match, and no loop panics.              *)
(*                                                                         *)
(* raft-rs keeps no record of past votes, and neither does the model.  The *)
(* invariant therefore speaks of what is left of an election: a quorum     *)
(* whose members voted for the winner or have moved on to later terms, and *)
(* none of which is counted by a rival of that term (Won).                 *)
(***************************************************************************)
EXTENDS RaftClusterProofs

Leading(n)  == node[n].role = "leader"
Standing(n) == node[n].role = "candidate"

\* v voted for n in term t, or will not vote in it any more.
Backs(v, n, t) == \/ node[v].term > t
                  \/ node[v].term = t /\ node[v].vote = n

\* The votes of v for x cannot be counted twice.
Unrivalled(v, x, t) ==
    \A n \in Node : Standing(n) /\ node[n].term = t /\ n # x => v \notin node[n].votes

\* x won the election of term t: it leads, or its term is over.
Won(t, x) ==
    /\ node[x].term > t \/ (node[x].term = t /\ Leading(x))
    /\ \E Q \in SUBSET Node :
         Majority(Q) /\ \A v \in Q : Backs(v, x, t) /\ Unrivalled(v, x, t)

(***************************************************************************)
(* The votes: who stands or leads voted for itself, a candidate's votes    *)
(* are backed and are its own, a leader has won, and it is the only one.   *)
(***************************************************************************)
OwnVote ==
    \A n \in Node : node[n].role # "follower" => node[n].vote = n /\ node[n].term # 0
VotesBacked ==
    \A n \in Node : Standing(n) =>
        n \in node[n].asked /\ \A v \in node[n].votes : Backs(v, n, node[n].term)
VotesDisjoint ==
    \A m, n \in Node : /\ m # n /\ Standing(m) /\ Standing(n)
                       /\ node[m].term = node[n].term
                       => \A v \in node[m].votes : v \notin node[n].votes
LeadersWon == \A n \in Node : Leading(n) => Won(node[n].term, n)
OneLeader  ==
    \A m, n \in Node : Leading(m) /\ Leading(n) /\ node[m].term = node[n].term => m = n

VInv == OwnVote /\ VotesBacked /\ VotesDisjoint /\ LeadersWon /\ OneLeader
-----------------------------------------------------------------------------
(***************************************************************************)
(* What a step may do to the votes.  A vote that counts after the step was *)
(* counted before it, in the same term, or was given in it.                *)
(***************************************************************************)
Counted(n, v) ==
    \/ Standing(n) /\ node[n].term = node'[n].term /\ v \in node[n].votes
    \/ node'[v].term = node'[n].term /\ node'[v].vote = n

Wins(n) ==
    /\ Standing(n) /\ node[n].term = node'[n].term
    /\ \E V \in SUBSET Node : Majority(V) /\ \A v \in V : Counted(n, v)

VoteStep ==
    /\ \A v \in Node :
         /\ node'[v].term >= node[v].term
         /\ node'[v].term = node[v].term =>
              /\ node[v].vote # NoNode => node'[v].vote = node[v].vote
              /\ Leading(v) => Leading(v)'
    /\ \A n \in Node : node'[n].role # "follower" => node'[n].vote = n /\ node'[n].term # 0
    /\ \A n \in Node : Standing(n)' =>
         n \in node'[n].asked /\ \A v \in node'[n].votes : Counted(n, v)
    /\ \A n \in Node : Leading(n)' =>
         node'[n].term = node[n].term /\ (Leading(n) \/ Wins(n))

\* The terms before and after a step.
TermsTyped == \A n \in Node : /\ node[n].term \in Nat /\ node'[n].term \in Nat
                              /\ node[n].votes \subseteq Node /\ node'[n].votes \subseteq Node

LEMMA StepTyped ==
    ASSUME CInv, CInv'
    PROVE  TermsTyped
<1>1. \A n \in Node : node[n] \in NodeType /\ node'[n] \in NodeType
    BY DEF CInv, TypeOK
<1>2. QED BY <1>1, NodeParts DEF TermsTyped

\* Two majorities have a member in common.
LEMMA MajoritiesMeet ==
    ASSUME NEW P \in SUBSET Node, NEW Q \in SUBSET Node, Majority(P), Majority(Q)
    PROVE  \E v \in Node : v \in P /\ v \in Q
<1>1. IsFiniteSet(Node) /\ Cardinality(Node) = N /\ N \in Nat
    <2>1. N \in Nat /\ N >= 1
        BY MembersAssumption
    <2>2. IsFiniteSet(1..N) /\ Cardinality(1..N) = (IF 1 > N THEN 0 ELSE N - 1 + 1)
        BY <2>1, FS_Interval
    <2>3. QED BY <2>1, <2>2 DEF Node
<1>2. Cardinality(P) \in Nat /\ Cardinality(Q) \in Nat
    BY <1>1, FS_Subset, FS_CardinalityType
<1>3. Cardinality(P) + Cardinality(Q) > Cardinality(Node)
    BY <1>1, <1>2 DEF Majority
<1>4. P \cap Q # {}
    BY <1>1, <1>3, FS_MajoritiesIntersect
<1>5. QED BY <1>4

\* A member backs at most one candidate that is still to be decided about.
LEMMA BackingStays ==
    ASSUME TermsTyped, VoteStep, NEW v \in Node, NEW n \in Node, NEW t \in Nat,
           Backs(v, n, t)
    PROVE  Backs(v, n, t)'
<1>1. n # NoNode
    BY MembersAssumption DEF Node, NoNode
<1>2. QED BY <1>1 DEF TermsTyped, VoteStep, Backs

\* Who backs x in a term is not newly counted by a rival in it.
LEMMA NotCountedTwice ==
    ASSUME TermsTyped, VoteStep, NEW v \in Node, NEW x \in Node, NEW t \in Nat,
           Backs(v, x, t), NEW n \in Node, n # x, node'[n].term = t, Counted(n, v)
    PROVE  Standing(n) /\ node[n].term = t /\ v \in node[n].votes
<1>1. Backs(v, x, t)'
    BY BackingStays
<1>2. ~(node'[v].term = t /\ node'[v].vote = n)
    BY <1>1 DEF Backs, TermsTyped
<1>3. QED BY <1>2 DEF Counted

\* An election once won stays won.
LEMMA WonStays ==
    ASSUME TermsTyped, VoteStep, NEW t \in Nat, NEW x \in Node, Won(t, x)
    PROVE  Won(t, x)'
<1>1. PICK Q \in SUBSET Node :
        Majority(Q) /\ \A v \in Q : Backs(v, x, t) /\ Unrivalled(v, x, t)
    BY DEF Won
<1>2. ASSUME NEW v \in Q PROVE Backs(v, x, t)' /\ Unrivalled(v, x, t)'
    <2>1. Backs(v, x, t) /\ Unrivalled(v, x, t)
        BY <1>1
    <2>2. Backs(v, x, t)'
        BY <2>1, BackingStays
    <2>3. ASSUME NEW n \in Node, Standing(n)', node'[n].term = t, n # x, v \in node'[n].votes
          PROVE  FALSE
        <3>1. Counted(n, v)
            BY <2>3 DEF VoteStep
        <3>2. QED BY <2>1, <2>3, <3>1, NotCountedTwice DEF Unrivalled
    <2>4. QED BY <2>2, <2>3 DEF Unrivalled
<1>3. node'[x].term > t \/ (node'[x].term = t /\ Leading(x)')
    BY DEF Won, VoteStep, TermsTyped
<1>4. QED BY <1>1, <1>2, <1>3 DEF Won

\* What is won is not won again.
LEMMA WonOnce ==
    ASSUME TermsTyped, VoteStep, NEW t \in Nat, NEW x \in Node, Won(t, x),
           NEW n \in Node, Wins(n), node[n].term = t
    PROVE  FALSE
<1>1. n # x
    BY DEF Won, Wins, Standing, Leading, TermsTyped
<1>2. PICK Q \in SUBSET Node :
        Majority(Q) /\ \A v \in Q : Backs(v, x, t) /\ Unrivalled(v, x, t)
    BY DEF Won
<1>3. PICK V \in SUBSET Node : Majority(V) /\ \A v \in V : Counted(n, v)
    BY DEF Wins
<1>4. PICK v \in Node : v \in Q /\ v \in V
    BY <1>2, <1>3, MajoritiesMeet
<1>5. Standing(n) /\ v \in node[n].votes
    BY <1>1, <1>2, <1>3, <1>4, NotCountedTwice DEF Wins
<1>6. QED BY <1>1, <1>2, <1>4, <1>5 DEF Unrivalled

\* Two candidates of a term do not count the same vote after a step.
LEMMA CountedOnce ==
    ASSUME TermsTyped, VInv, VoteStep, NEW m \in Node, NEW n \in Node,
           node'[m].term = node'[n].term,
           NEW v \in Node, Counted(m, v), Counted(n, v)
    PROVE  m = n
<1> SUFFICES ASSUME m # n PROVE FALSE
    OBVIOUS
<1> DEFINE Kept(k) == Standing(k) /\ node[k].term = node'[k].term /\ v \in node[k].votes
<1>1. ASSUME NEW k \in Node, NEW j \in Node, k # j, node'[k].term = node'[j].term,
             Kept(k), Counted(j, v)
      PROVE  FALSE
    <2>1. PICK t \in Nat : t = node[k].term
        BY DEF TermsTyped
    <2>2. Backs(v, k, t)
        BY <1>1, <2>1 DEF VInv, VotesBacked
    <2>3. Standing(j) /\ node[j].term = t /\ v \in node[j].votes
        BY <1>1, <2>1, <2>2, NotCountedTwice
    <2>4. QED BY <1>1, <2>1, <2>3 DEF VInv, VotesDisjoint
<1>2. ~Kept(m) /\ ~Kept(n)
    BY <1>1
<1>3. node'[v].vote = m /\ node'[v].vote = n
    BY <1>2 DEF Counted
<1>4. QED BY <1>3

\* The winner of an election in this step has won it afterwards.
LEMMA WinnerWon ==
    ASSUME TermsTyped, VInv, VoteStep, NEW n \in Node, Leading(n)', Wins(n)
    PROVE  Won(node[n].term, n)'
<1>1. PICK t \in Nat : t = node[n].term /\ t = node'[n].term
    BY DEF TermsTyped, Wins
<1>2. PICK V \in SUBSET Node : Majority(V) /\ \A v \in V : Counted(n, v)
    BY DEF Wins
<1>3. ASSUME NEW v \in V PROVE Backs(v, n, t)' /\ Unrivalled(v, n, t)'
    <2>1. Counted(n, v)
        BY <1>2
    <2>2. Backs(v, n, t)'
        <3>1. CASE v \in node[n].votes /\ Standing(n)
            <4>1. Backs(v, n, t)
                BY <3>1, <1>1 DEF VInv, VotesBacked
            <4>2. QED BY <4>1, BackingStays
        <3>2. CASE node'[v].term = t /\ node'[v].vote = n
            BY <3>2 DEF Backs
        <3>3. QED BY <2>1, <3>1, <3>2, <1>1 DEF Counted
    <2>3. ASSUME NEW m \in Node, Standing(m)', node'[m].term = t, m # n, v \in node'[m].votes
          PROVE  FALSE
        <3>1. Counted(m, v)
            BY <2>3 DEF VoteStep
        <3>2. QED BY <2>1, <2>3, <3>1, <1>1, CountedOnce
    <2>4. QED BY <2>2, <2>3 DEF Unrivalled
<1>4. Won(t, n)'
    BY <1>1, <1>2, <1>3 DEF Won
<1>5. QED BY <1>1, <1>4

\* A step that treats votes well keeps the invariant of the votes.
LEMMA VoteStepKeeps ==
    ASSUME TermsTyped, VInv, VoteStep
    PROVE  VInv'
<1>1. OwnVote'
    BY DEF OwnVote, VoteStep
<1>2. VotesBacked'
    <2>1. ASSUME NEW n \in Node, Standing(n)', NEW v \in node'[n].votes
          PROVE  Backs(v, n, node[n].term)'
        <3>1. PICK t \in Nat : t = node'[n].term
            BY DEF TermsTyped
        <3>2. Counted(n, v) /\ v \in Node
            BY <2>1 DEF VoteStep, TermsTyped
        <3>3. CASE Standing(n) /\ node[n].term = t /\ v \in node[n].votes
            <4>1. Backs(v, n, t)
                BY <3>3 DEF VInv, VotesBacked
            <4>2. Backs(v, n, t)'
                BY <3>2, <4>1, BackingStays
            <4>3. QED BY <3>1, <4>2
        <3>4. CASE node'[v].term = t /\ node'[v].vote = n
            BY <3>1, <3>4 DEF Backs
        <3>5. QED BY <3>1, <3>2, <3>3, <3>4 DEF Counted
    <2>2. QED BY <2>1 DEF VotesBacked, VoteStep
<1>3. VotesDisjoint'
    <2>1. ASSUME NEW m \in Node, NEW n \in Node, Standing(m)', Standing(n)',
                 node'[m].term = node'[n].term, NEW v \in node'[m].votes, v \in node'[n].votes
          PROVE  m = n
        <3>1. Counted(m, v) /\ Counted(n, v) /\ v \in Node
            BY <2>1 DEF VoteStep, TermsTyped
        <3>2. QED BY <2>1, <3>1, CountedOnce
    <2>2. QED BY <2>1 DEF VotesDisjoint
<1>4. LeadersWon'
    <2>1. ASSUME NEW n \in Node, Leading(n)' PROVE Won(node[n].term, n)'
        <3>1. PICK t \in Nat : t = node[n].term /\ t = node'[n].term
            BY <2>1 DEF TermsTyped, VoteStep
        <3>2. CASE Leading(n)
            <4>1. Won(t, n)
                BY <3>1, <3>2 DEF VInv, LeadersWon
            <4>2. Won(t, n)'
                BY <4>1, WonStays
            <4>3. QED BY <3>1, <4>2
        <3>3. CASE Wins(n)
            BY <2>1, <3>3, WinnerWon
        <3>4. QED BY <2>1, <3>2, <3>3 DEF VoteStep
    <2>2. QED BY <2>1 DEF LeadersWon
<1>5. OneLeader'
    <2>1. ASSUME NEW m \in Node, NEW n \in Node, Leading(m)', Leading(n)',
                 node'[m].term = node'[n].term
          PROVE  m = n
        <3>1. PICK t \in Nat : t = node[m].term /\ t = node[n].term
            BY <2>1 DEF TermsTyped, VoteStep
        <3>2. CASE Leading(m) /\ Leading(n)
            BY <3>1, <3>2 DEF VInv, OneLeader
        <3>3. ASSUME NEW k \in Node, NEW j \in Node, Leading(k), Wins(j),
                     node[k].term = t, node[j].term = t
              PROVE  FALSE
            BY <3>3, WonOnce DEF VInv, LeadersWon
        <3>4. CASE Wins(m) /\ Wins(n)
            <4>1. PICK P \in SUBSET Node : Majority(P) /\ \A v \in P : Counted(m, v)
                BY <3>4 DEF Wins
            <4>2. PICK Q \in SUBSET Node : Majority(Q) /\ \A v \in Q : Counted(n, v)
                BY <3>4 DEF Wins
            <4>3. PICK v \in Node : v \in P /\ v \in Q
                BY <4>1, <4>2, MajoritiesMeet
            <4>4. QED BY <2>1, <4>1, <4>2, <4>3, CountedOnce
        <3>5. (Leading(m) \/ Wins(m)) /\ (Leading(n) \/ Wins(n))
            BY <2>1 DEF VoteStep
        <3>6. QED BY <3>1, <3>2, <3>3, <3>4, <3>5
    <2>2. QED BY <2>1 DEF OneLeader
<1>6. QED BY <1>1, <1>2, <1>3, <1>4, <1>5 DEF VInv
-----------------------------------------------------------------------------
(***************************************************************************)
(* Every action is such a step.  All but Campaign and RequestVote leave a  *)
(* member its part in the elections, or make it a follower.                *)
(***************************************************************************)
Same(n) ==
    /\ node'[n].role = node[n].role /\ node'[n].term = node[n].term
    /\ node'[n].vote = node[n].vote
    /\ node'[n].votes = node[n].votes /\ node'[n].asked = node[n].asked

Steps(n) ==
    /\ node'[n].role = "follower"
    /\ \/ node'[n].term > node[n].term
       \/ node'[n].term = node[n].term /\ ~Leading(n) /\ node'[n].vote = node[n].vote

Calm(n) == Same(n) \/ Steps(n)

LEMMA CalmIsVoteStep ==
    ASSUME TermsTyped, VInv, \A n \in Node : Calm(n)
    PROVE  VoteStep
<1>1. ASSUME NEW n \in Node
      PROVE  /\ node'[n].term >= node[n].term
             /\ node'[n].term = node[n].term =>
                  /\ node[n].vote # NoNode => node'[n].vote = node[n].vote
                  /\ Leading(n) => Leading(n)'
             /\ node'[n].role # "follower" => Same(n)
    <2>1. node[n].term \in Nat /\ node'[n].term \in Nat
        BY DEF TermsTyped
    <2>2. CASE Same(n)
        BY <2>1, <2>2 DEF Same, Leading
    <2>3. CASE Steps(n)
        BY <2>1, <2>3 DEF Steps, Leading
    <2>4. QED BY <2>2, <2>3 DEF Calm
<1>2. \A n \in Node : node'[n].role # "follower" => node'[n].vote = n /\ node'[n].term # 0
    BY <1>1 DEF Same, VInv, OwnVote
<1>3. ASSUME NEW n \in Node, Standing(n)'
      PROVE  n \in node'[n].asked /\ \A v \in node'[n].votes : Counted(n, v)
    BY <1>1, <1>3 DEF Standing, Same, Counted, VInv, VotesBacked
<1>4. ASSUME NEW n \in Node, Leading(n)'
      PROVE  node'[n].term = node[n].term /\ Leading(n)
    BY <1>1, <1>4 DEF Leading, Same
<1>5. QED BY <1>1, <1>2, <1>3, <1>4 DEF VoteStep

\* What the turns of some members make of each member.
LEMMA TurnOf ==
    ASSUME CInv, NEW t, SoundTurns(t), NEW wr, Turns(t, wr), NEW n \in Node
    PROVE  /\ n \notin DOMAIN t => node'[n] = node[n]
           /\ n \in DOMAIN t =>
                /\ node'[n].role = t[n][1].role /\ node'[n].term = t[n][1].term
                /\ node'[n].vote = t[n][1].vote /\ node'[n].votes = t[n][1].votes
                /\ node'[n].asked = t[n][1].asked /\ node'[n].matched = t[n][1].matched
                /\ LogAfter(t[n][1].core, t[n][2], t[n][3], node'[n].core)
                /\ SoundReady(t[n]) /\ node'[n] = After(t[n])
<1>1. node' = [k \in Node |-> IF k \in DOMAIN t THEN After(t[k]) ELSE node[k]]
    BY TurnsEffect
<1>2. CASE n \in DOMAIN t
    <2>1. SoundReady(t[n]) /\ node'[n] = After(t[n])
        BY <1>1, <1>2 DEF SoundTurns
    <2>2. QED BY <1>2, <2>1, TurnIsSound
<1>3. QED BY <1>1, <1>2

\* The same for the turns of one member, and of two.
LEMMA TurnOfOne ==
    ASSUME CInv, NEW n \in Node, NEW x, SoundTurns(One(n, x)), NEW wr, Turns(One(n, x), wr)
    PROVE  /\ \A k \in Node : k # n => node'[k] = node[k]
           /\ node'[n].role = x[1].role /\ node'[n].term = x[1].term
           /\ node'[n].vote = x[1].vote /\ node'[n].votes = x[1].votes
           /\ node'[n].asked = x[1].asked /\ node'[n].matched = x[1].matched
           /\ LogAfter(x[1].core, x[2], x[3], node'[n].core)
           /\ SoundReady(x) /\ node'[n] = After(x)
<1> DEFINE t == One(n, x)
<1>1. DOMAIN t = {n} /\ t[n] = x
    BY DEF One
<1> HIDE DEF t
<1>2. SoundTurns(t) /\ Turns(t, wr)
    BY DEF t
<1>3. QED BY <1>1, <1>2, TurnOf

LEMMA TurnOfTwo ==
    ASSUME CInv, NEW f \in Node, NEW l \in Node, f # l, NEW x, NEW y,
           SoundTurns(Two(f, x, l, y)), NEW wr, Turns(Two(f, x, l, y), wr)
    PROVE  /\ \A k \in Node : k # f /\ k # l => node'[k] = node[k]
           /\ node'[f].role = x[1].role /\ node'[f].term = x[1].term
           /\ node'[f].vote = x[1].vote /\ node'[f].votes = x[1].votes
           /\ node'[f].asked = x[1].asked /\ node'[f].matched = x[1].matched
           /\ LogAfter(x[1].core, x[2], x[3], node'[f].core)
           /\ SoundReady(x) /\ node'[f] = After(x)
           /\ node'[l].role = y[1].role /\ node'[l].term = y[1].term
           /\ node'[l].vote = y[1].vote /\ node'[l].votes = y[1].votes
           /\ node'[l].asked = y[1].asked /\ node'[l].matched = y[1].matched
           /\ LogAfter(y[1].core, y[2], y[3], node'[l].core)
           /\ SoundReady(y) /\ node'[l] = After(y)
<1> DEFINE t == Two(f, x, l, y)
<1>1. DOMAIN t = {f, l} /\ t[f] = x /\ t[l] = y
    BY DEF Two
<1> HIDE DEF t
<1>2. SoundTurns(t) /\ Turns(t, wr)
    BY DEF t
<1>3. QED BY <1>1, <1>2, TurnOf

\* A campaign: one more candidate, in a later term, with its own vote.
LEMMA CampaignVotes ==
    ASSUME CInv, TermsTyped, VInv, NEW n \in Node, Campaign(n)
    PROVE  VoteStep
<1> DEFINE m == become_candidate(node[n], n)
<1>1. node[n] \in NodeType /\ node[n].term \in Nat
    BY MemberParts
<1>2. /\ m.role = "candidate" /\ m.term = node[n].term + 1 /\ m.vote = n
      /\ m.votes = {n} /\ m.asked = {n}
    BY <1>1, CandidateEffect
<1>3. SoundTurns(One(n, Plain(m))) /\ Turns(One(n, Plain(m)), write) /\ Plain(m)[1] = m
    BY CampaignSound DEF Campaign, Plain
<1> HIDE DEF m
<1>4. /\ \A k \in Node : k # n => node'[k] = node[k]
      /\ node'[n].role = "candidate" /\ node'[n].term = node[n].term + 1
      /\ node'[n].vote = n /\ node'[n].votes = {n} /\ node'[n].asked = {n}
    <2>1. PICK x : x = Plain(m)
        OBVIOUS
    <2>2. SoundTurns(One(n, x)) /\ Turns(One(n, x), write) /\ x[1] = m
        BY <2>1, <1>3
    <2>3. QED BY <2>2, <1>2, TurnOfOne
<1>5. ASSUME NEW k \in Node
      PROVE  /\ node'[k].term >= node[k].term
             /\ node'[k].term = node[k].term => node'[k] = node[k]
             /\ k # n => node'[k] = node[k]
    BY <1>1, <1>4 DEF TermsTyped
<1>6. \A k \in Node : node'[k].role # "follower" => node'[k].vote = k /\ node'[k].term # 0
    BY <1>1, <1>4, <1>5 DEF VInv, OwnVote
<1>7. ASSUME NEW k \in Node, Standing(k)'
      PROVE  k \in node'[k].asked /\ \A v \in node'[k].votes : Counted(k, v)
    BY <1>4, <1>5, <1>7 DEF Standing, Counted, VInv, VotesBacked
<1>8. ASSUME NEW k \in Node, Leading(k)'
      PROVE  node'[k].term = node[k].term /\ Leading(k)
    BY <1>4, <1>5, <1>8 DEF Leading
<1>9. QED BY <1>5, <1>6, <1>7, <1>8 DEF VoteStep, Leading

\* Nobody else changes.
Only(c, v) == \A k \in Node : k # c /\ k # v => node'[k] = node[k]

\* What a vote request makes of the voter and of the candidate.
LEMMA RequestVoteEffect ==
    ASSUME CInv, TermsTyped, VInv, NEW c \in Node, NEW v \in Node, RequestVote(c, v)
    PROVE  /\ c # v /\ Standing(c) /\ Only(c, v)
           /\ node'[v].term = node[c].term
           /\ \/ Calm(v)
              \/ /\ node'[v].vote = c /\ node'[v].role = "follower"
                 /\ node'[v].term > node[v].term \/ (~Leading(v) /\ node[v].vote \in {c, NoNode})
           /\ node'[c].term = node[c].term /\ node'[c].vote = c
           /\ \E votes \in {node[c].votes, node[c].votes \cup {v}} :
                /\ v \in votes => v \in node[c].votes \/ node'[v].vote = c
                /\ \/ /\ Standing(c)' /\ node'[c].votes = votes
                      /\ node'[c].asked = node[c].asked \cup {v}
                   \/ Leading(c)' /\ Majority(votes)
<1>1. /\ Standing(c) /\ v \notin node[c].asked /\ node[c].term >= node[v].term
      /\ c \in node[c].asked /\ c # v /\ node[c].vote = c
    BY RequestVoteParts DEF Standing, VInv, VotesBacked, OwnVote
<1>2. PICK lost : Turns(Two(v, Plain(Voter(c, v)), c, Candidate(c, v, lost)), write)
    BY RequestVoteParts
<1>3. SoundTurns(Two(v, Plain(Voter(c, v)), c, Candidate(c, v, lost)))
    BY RequestVoteSound
<1>4. /\ Requested(c, v) \in NodeType /\ Requested(c, v).term = node[c].term
      /\ Requested(c, v).role = (IF node[c].term > node[v].term THEN "follower" ELSE node[v].role)
      /\ Requested(c, v).vote = (IF node[c].term > node[v].term THEN NoNode ELSE node[v].vote)
      /\ Requested(c, v).term > node[v].term \/ Requested(c, v) = node[v]
    BY <1>1, RequestedEffect
<1> DEFINE x == Plain(Voter(c, v))
           y == Candidate(c, v, lost)
           granted == Free(Requested(c, v), c) /\ UpToDate(node[c], Requested(c, v))
<1>5. x[1] = Voter(c, v)
    BY DEF Plain
<1>6. Voter(c, v) = IF granted THEN [Requested(c, v) EXCEPT !.vote = c] ELSE Requested(c, v)
    BY DEF Voter
<1>7. y = IF Majority(Votes(c, v, lost)) THEN Elected(c) ELSE Plain(Asked(c, v, lost))
    BY DEF Candidate
<1>8. Votes(c, v, lost) = IF granted /\ ~lost THEN node[c].votes \cup {v} ELSE node[c].votes
    BY DEF Votes
<1>9. granted => Requested(c, v).vote \in {c, NoNode}
    BY DEF Free
<1> HIDE DEF x, y, granted
<1>10. /\ \A k \in Node : k # v /\ k # c => node'[k] = node[k]
       /\ node'[v].role = x[1].role /\ node'[v].term = x[1].term
       /\ node'[v].vote = x[1].vote /\ node'[v].votes = x[1].votes
       /\ node'[v].asked = x[1].asked
       /\ node'[c].role = y[1].role /\ node'[c].term = y[1].term
       /\ node'[c].vote = y[1].vote /\ node'[c].votes = y[1].votes
       /\ node'[c].asked = y[1].asked
    <2>1. SoundTurns(Two(v, x, c, y)) /\ Turns(Two(v, x, c, y), write)
        BY <1>2, <1>3 DEF x, y
    <2>2. QED BY <1>1, <2>1, TurnOfTwo
<1>11. node'[v].term = node[c].term /\ (granted => node'[v].vote = c)
    BY <1>4, <1>5, <1>6, <1>10 DEF NodeType
<1>12. \/ Calm(v)
       \/ /\ node'[v].vote = c /\ node'[v].role = "follower"
          /\ node'[v].term > node[v].term \/ (~Leading(v) /\ node[v].vote \in {c, NoNode})
    <2>1. node[v].term \in Nat /\ node[c].term \in Nat /\ node'[v].term = node[c].term
        BY <1>11 DEF TermsTyped
    <2>2. CASE node[c].term > node[v].term
        <3>1. Requested(c, v).role = "follower"
            BY <1>4, <2>2
        <3>2. Voter(c, v).role = "follower"
            BY <3>1, <1>4, <1>6 DEF NodeType
        <3>3. QED BY <2>1, <2>2, <3>2, <1>5, <1>10 DEF Calm, Steps
    <2>3. CASE ~(node[c].term > node[v].term) /\ ~granted
        <3>1. x[1] = node[v]
            BY <2>1, <2>3, <1>4, <1>5, <1>6
        <3>2. QED BY <3>1, <1>10 DEF Calm, Same
    <2>4. CASE ~(node[c].term > node[v].term) /\ granted
        <3>1. Requested(c, v) = node[v]
            BY <2>1, <2>4, <1>4
        <3>2. node[v].vote \in {c, NoNode}
            BY <3>1, <2>4, <1>9
        <3>3. node[v].role = "follower"
            BY <3>2, <1>1, MembersAssumption DEF VInv, OwnVote, Node, NoNode
        <3>4. Voter(c, v).role = "follower"
            BY <3>1, <3>3, <1>4, <1>6 DEF NodeType
        <3>5. QED BY <2>4, <3>2, <3>3, <3>4, <1>5, <1>10, <1>11 DEF Leading
    <2>5. QED BY <2>2, <2>3, <2>4
<1>13. /\ node'[c].term = node[c].term /\ node'[c].vote = c
       /\ \/ /\ Standing(c)' /\ node'[c].votes = Votes(c, v, lost)
             /\ node'[c].asked = node[c].asked \cup {v}
          \/ Leading(c)' /\ Majority(Votes(c, v, lost))
    <2>1. node[c] \in NodeType
        BY MemberParts
    <2>2. CASE Majority(Votes(c, v, lost))
        <3>1. y[1] = become_leader(node[c], c)
            BY <1>7, <2>2 DEF Elected
        <3>2. y[1].role = "leader" /\ y[1].term = node[c].term /\ y[1].vote = node[c].vote
            BY <2>1, <3>1, LeaderEffect
        <3>3. QED BY <3>2, <2>2, <1>1, <1>10 DEF Leading
    <2>3. CASE ~Majority(Votes(c, v, lost))
        <3>1. y[1] = [node[c] EXCEPT !.asked = node[c].asked \cup {v}, !.votes = Votes(c, v, lost)]
            BY <1>7, <2>3 DEF Plain, Asked
        <3>2. /\ y[1].role = node[c].role /\ y[1].term = node[c].term
              /\ y[1].vote = node[c].vote /\ y[1].votes = Votes(c, v, lost)
              /\ y[1].asked = node[c].asked \cup {v}
            BY <2>1, <3>1 DEF NodeType
        <3>3. QED BY <3>2, <1>1, <1>10 DEF Standing
    <2>4. QED BY <2>2, <2>3
<1>14. PICK votes : votes = Votes(c, v, lost)
    OBVIOUS
<1>15. /\ votes \in {node[c].votes, node[c].votes \cup {v}}
       /\ v \in votes => v \in node[c].votes \/ node'[v].vote = c
    BY <1>8, <1>11, <1>14
<1>16. Only(c, v)
    BY <1>10 DEF Only
<1>17. QED BY <1>1, <1>11, <1>12, <1>13, <1>14, <1>15, <1>16

\* A vote request: a vote not given yet in the term, counted or lost.
LEMMA RequestVoteVotes ==
    ASSUME CInv, TermsTyped, VInv, NEW c \in Node, NEW v \in Node, RequestVote(c, v)
    PROVE  VoteStep
<1>1. /\ c # v /\ Standing(c) /\ \A k \in Node : k # c /\ k # v => node'[k] = node[k]
      /\ node'[v].term = node[c].term
      /\ \/ Calm(v)
         \/ /\ node'[v].vote = c /\ node'[v].role = "follower"
            /\ node'[v].term > node[v].term \/ (~Leading(v) /\ node[v].vote \in {c, NoNode})
      /\ node'[c].term = node[c].term /\ node'[c].vote = c
    <2>1. c # v /\ Standing(c) /\ Only(c, v) /\ node'[v].term = node[c].term
        BY RequestVoteEffect
    <2>2. node'[c].term = node[c].term /\ node'[c].vote = c
        BY RequestVoteEffect
    <2>3. \/ Calm(v)
         \/ /\ node'[v].vote = c /\ node'[v].role = "follower"
            /\ node'[v].term > node[v].term \/ (~Leading(v) /\ node[v].vote \in {c, NoNode})
        BY RequestVoteEffect
    <2>4. QED BY <2>1, <2>2, <2>3 DEF Only
<1>2. PICK votes \in {node[c].votes, node[c].votes \cup {v}} :
        /\ v \in votes => v \in node[c].votes \/ node'[v].vote = c
        /\ \/ /\ Standing(c)' /\ node'[c].votes = votes
              /\ node'[c].asked = node[c].asked \cup {v}
           \/ Leading(c)' /\ Majority(votes)
    BY RequestVoteEffect
<1>3. /\ node[v].term \in Nat /\ node'[v].term \in Nat /\ node[c].term \in Nat
      /\ node[c].votes \subseteq Node
    BY DEF TermsTyped
<1>4. node[c].vote = c /\ c # NoNode /\ node[c].term # 0 /\ c \in node[c].asked
    BY <1>1, MembersAssumption DEF VInv, OwnVote, VotesBacked, Node, NoNode, Standing
<1>5. node[c].term >= node[v].term
    BY RequestVoteParts
<1>6. ASSUME NEW k \in Node
      PROVE  /\ node'[k].term >= node[k].term
             /\ node'[k].term = node[k].term =>
                  /\ node[k].vote # NoNode => node'[k].vote = node[k].vote
                  /\ Leading(k) => Leading(k)'
             /\ k # c /\ node'[k].role # "follower" => Same(k)
    <2>1. CASE k = c
        BY <2>1, <1>1, <1>3, <1>4 DEF Leading, Standing
    <2>2. CASE k = v
        BY <2>2, <1>1, <1>3, <1>5 DEF Calm, Same, Steps, Leading
    <2>3. CASE k # c /\ k # v
        <3>1. node'[k] = node[k] /\ node[k].term \in Nat
            BY <2>3, <1>1 DEF TermsTyped
        <3>2. QED BY <3>1 DEF Same, Leading
    <2>4. QED BY <2>1, <2>2, <2>3
<1>7. \A k \in Node : node'[k].role # "follower" => node'[k].vote = k /\ node'[k].term # 0
    BY <1>1, <1>4, <1>6 DEF Same, VInv, OwnVote
<1>8. \A u \in votes : Counted(c, u)
    BY <1>1, <1>2 DEF Counted
<1>9. ASSUME NEW k \in Node, Standing(k)'
      PROVE  k \in node'[k].asked /\ \A u \in node'[k].votes : Counted(k, u)
    <2>1. CASE k = c
        BY <2>1, <1>9, <1>2, <1>4, <1>8 DEF Standing, Leading
    <2>2. CASE k # c
        BY <2>2, <1>6, <1>9 DEF Same, Standing, Counted, VInv, VotesBacked
    <2>3. QED BY <2>1, <2>2
<1>10. ASSUME NEW k \in Node, Leading(k)'
       PROVE  node'[k].term = node[k].term /\ (Leading(k) \/ Wins(k))
    <2>1. CASE k = c
        <3>1. Majority(votes) /\ votes \in SUBSET Node
            BY <2>1, <1>2, <1>3, <1>10 DEF Leading, Standing
        <3>2. QED BY <2>1, <3>1, <1>1, <1>8 DEF Wins
    <2>2. CASE k # c
        BY <2>2, <1>6, <1>10 DEF Same, Leading
    <2>3. QED BY <2>1, <2>2
<1>11. QED BY <1>6, <1>7, <1>9, <1>10 DEF VoteStep
-----------------------------------------------------------------------------
(***************************************************************************)
(* What a step may do to the logs: one keeps its end (its beginning may be *)
(* compacted), or grows by an entry of the leader's own term, or takes the *)
(* leader's next entry after one they agree on, or becomes the leader's    *)
(* snapshot.                                                               *)
(***************************************************************************)
Cut(c, d) ==
    /\ c.offset <= d.offset /\ last_index(d) = last_index(c)
    /\ \A j \in Held(d) : j \in Held(c) /\ At(d, j) = At(c, j)

Kept(n) == Cut(node[n].core, node'[n].core)

Grew(n) ==
    \E e \in EntryType(Data) :
        /\ e.index = last_index(node[n].core) + 1 /\ e.term = node[n].term
        /\ LogAfter(node[n].core, <<e>>, NoSnapshot, node'[n].core)

Took(f, l) ==
    \E p \in Held(node[f].core) :
        /\ p \in Held(node[l].core) /\ p + 1 \in Held(node[l].core)
        /\ At(node[f].core, p).term = At(node[l].core, p).term
        /\ node[l].matched[f] <= p
        /\ LogAfter(node[f].core, <<At(node[l].core, p + 1)>>, NoSnapshot, node'[f].core)

Installed(f, l) ==
    LET s == node[l].core.offset IN
    /\ node'[f].core.offset = s /\ last_index(node'[f].core) = s
    /\ At(node'[f].core, s).term = At(node[l].core, s).term
    /\ node[l].matched[f] < s

\* l has recorded, if anything, what f acknowledged and has.
Acked(l, f) ==
    \/ node'[l].matched = node[l].matched
    \/ \E k \in Nat : /\ k <= last_index(node'[f].core)
                      /\ node'[l].matched = [node[l].matched EXCEPT ![f] = IF k > @ THEN k ELSE @]

\* One message from a leader to another member, and its reply.
Replicated(l, f) ==
    /\ l # f /\ Leading(l) /\ Only(f, l) /\ Same(l) /\ Kept(l)
    /\ node'[f].role = "follower" /\ node'[f].term = node[l].term /\ Calm(f)
    /\ Acked(l, f)
    /\ Kept(f) \/ Took(f, l) \/ Installed(f, l)

\* A log of which nothing is added to or that is left alone keeps its end.
LEMMA LogKept ==
    ASSUME NEW c, Good(Data, SnapData, c), NEW d,
           LogAfter(c, <<>>, NoSnapshot, d) \/ d = c
    PROVE  Cut(c, d)
<1>1. NoSnapshot.index = 0
    BY DEF NoSnapshot, Snapshot
<1>2. c.offset \in Nat
    BY LogNumbers
<1>3. c.offset <= c.offset
    BY <1>2
<1>4. QED BY <1>1, <1>3 DEF LogAfter, Cut

\* A member that hears from a leader becomes, or stays, a follower.
LEMMA HearingIsCalm ==
    ASSUME TermsTyped, NEW l \in Node, NEW f \in Node, Hears(f, l),
           node'[f].role = "follower", node'[f].term = node[l].term,
           node'[f].vote = (IF node[l].term = node[f].term THEN node[f].vote ELSE NoNode)
    PROVE  Calm(f) /\ Leading(l) /\ l # f
<1>1. node[l].term \in Nat /\ node[f].term \in Nat
    BY DEF TermsTyped
<1>2. QED BY <1>1 DEF Hears, Calm, Steps, Leads, Leading

LEMMA HeartbeatEffect ==
    ASSUME CInv, TermsTyped, NEW l \in Node, NEW f \in Node, Heartbeat(l, f)
    PROVE  Replicated(l, f)
<1>1. Hears(f, l) /\ f # l /\ Turns(One(f, Plain(Beaten(l, f))), write)
    BY DEF Heartbeat, Beaten, Hears
<1> DEFINE m == Beaten(l, f)
<1>2. /\ SoundTurns(One(f, Plain(m))) /\ m.role = "follower" /\ m.term = node[l].term
      /\ m.core = node[f].core
      /\ m.vote = (IF node[l].term = node[f].term THEN node[f].vote ELSE NoNode)
    BY HeartbeatSound
<1> HIDE DEF m
<1>3. PICK x : x = Plain(m)
    OBVIOUS
<1>3a. x[1] = m /\ x[2] = <<>> /\ x[3] = NoSnapshot
    BY <1>3 DEF Plain
<1>4. SoundTurns(One(f, x)) /\ Turns(One(f, x), write)
    BY <1>1, <1>2, <1>3 DEF m
<1>5. /\ \A k \in Node : k # f => node'[k] = node[k]
      /\ node'[f].role = x[1].role /\ node'[f].term = x[1].term
      /\ node'[f].vote = x[1].vote /\ LogAfter(x[1].core, x[2], x[3], node'[f].core)
    BY <1>4, TurnOfOne
<1>6. Calm(f) /\ Leading(l) /\ l # f
    BY <1>1, <1>2, <1>3a, <1>5, HearingIsCalm
<1>7. Kept(f)
    <2>1. Good(Data, SnapData, node[f].core)
        BY MemberParts
    <2>2. LogAfter(node[f].core, <<>>, NoSnapshot, node'[f].core)
        BY <1>2, <1>3a, <1>5
    <2>3. QED BY <2>1, <2>2, LogKept DEF Kept
<1>8. node'[l] = node[l]
    BY <1>1, <1>5
<1>9. Kept(l) /\ Same(l) /\ Acked(l, f)
    <2>1. Good(Data, SnapData, node[l].core)
        BY MemberParts
    <2>2. QED BY <2>1, <1>8, LogKept DEF Kept, Same, Acked
<1>10. Only(f, l)
    BY <1>5 DEF Only
<1>11. node'[f].role = "follower" /\ node'[f].term = node[l].term
    BY <1>2, <1>3a, <1>5
<1>12. QED BY <1>6, <1>7, <1>9, <1>10, <1>11 DEF Replicated

LEMMA AppendEntryEffect ==
    ASSUME CInv, TermsTyped, NEW l \in Node, NEW f \in Node, AppendEntry(l, f)
    PROVE  Replicated(l, f)
<1>1. Hears(f, l) /\ f # l
    BY AppendEntryParts DEF Hears
<1>2. PICK p \in Anchors(l, f), lost \in Lost :
        Turns(Two(f, Appending(l, f, p), l, Answered(l, f, Upto(l, f, p), lost)), write)
    BY AppendEntryParts
<1>3. PICK x : x = Appending(l, f, p)
    OBVIOUS
<1>4. /\ SoundReady(x) /\ x[3] = NoSnapshot
      /\ x[1].role = "follower" /\ x[1].term = node[l].term
      /\ x[1].core = node[f].core
      /\ x[1].vote = (IF node[l].term = node[f].term THEN node[f].vote ELSE NoNode)
      /\ p \in Nat /\ node[l].matched[f] <= p /\ Upto(l, f, p) \in Nat
      /\ \/ x[2] = <<>> /\ Upto(l, f, p) <= last_index(node[f].core)
         \/ /\ x[2] = <<At(node[l].core, p + 1)>> /\ Upto(l, f, p) <= p + 1
            /\ p \in Held(node[l].core) /\ p + 1 \in Held(node[l].core)
            /\ p \in Held(node[f].core)
            /\ term(node[f].core, p) = term(node[l].core, p)
    BY <1>1, <1>3, AppendingSound
<1>5. PICK k \in Nat : k = Upto(l, f, p)
    BY <1>4
<1>6. PICK y : y = Answered(l, f, k, lost)
    OBVIOUS
<1>7. /\ y[2] = <<>> /\ y[3] = NoSnapshot
      /\ y[1].core = node[l].core /\ y[1].role = node[l].role
      /\ y[1].term = node[l].term /\ y[1].vote = node[l].vote
      /\ y[1].votes = node[l].votes /\ y[1].asked = node[l].asked
      /\ \/ y[1].matched = node[l].matched
         \/ y[1].matched = [node[l].matched EXCEPT ![f] = IF k > @ THEN k ELSE @]
    BY <1>6, AnsweredEffect
<1>8. SoundTurns(Two(f, x, l, y)) /\ Turns(Two(f, x, l, y), write)
    BY <1>1, <1>2, <1>3, <1>5, <1>6, AppendEntrySound
<1>9. /\ \A j \in Node : j # f /\ j # l => node'[j] = node[j]
      /\ node'[f].role = x[1].role /\ node'[f].term = x[1].term
      /\ node'[f].vote = x[1].vote /\ LogAfter(x[1].core, x[2], x[3], node'[f].core)
      /\ node'[l].role = y[1].role /\ node'[l].term = y[1].term
      /\ node'[l].vote = y[1].vote /\ node'[l].votes = y[1].votes
      /\ node'[l].asked = y[1].asked /\ node'[l].matched = y[1].matched
      /\ LogAfter(y[1].core, y[2], y[3], node'[l].core)
    BY <1>1, <1>8, TurnOfTwo
<1>10. Calm(f) /\ Leading(l) /\ l # f
    BY <1>1, <1>4, <1>9, HearingIsCalm
<1>11. Good(Data, SnapData, node[l].core) /\ Good(Data, SnapData, node[f].core)
    BY MemberParts
<1>12. Same(l) /\ Kept(l)
    BY <1>7, <1>9, <1>11, LogKept DEF Same, Kept
<1>13. Only(f, l)
    BY <1>9 DEF Only
<1>14. /\ Kept(f) \/ Took(f, l)
       /\ k <= last_index(node'[f].core)
    <2>1. CASE x[2] = <<>> /\ Upto(l, f, p) <= last_index(node[f].core)
        <3>1. Kept(f)
            BY <2>1, <1>4, <1>9, <1>11, LogKept DEF Kept
        <3>2. last_index(node'[f].core) = last_index(node[f].core)
            BY <3>1 DEF Kept, Cut
        <3>3. QED BY <2>1, <3>1, <3>2, <1>5
    <2>2. CASE /\ x[2] = <<At(node[l].core, p + 1)>> /\ Upto(l, f, p) <= p + 1
               /\ p \in Held(node[l].core) /\ p + 1 \in Held(node[l].core)
               /\ p \in Held(node[f].core)
               /\ term(node[f].core, p) = term(node[l].core, p)
        <3>1. /\ At(node[l].core, p + 1).index = p + 1
              /\ At(node[f].core, p).term = At(node[l].core, p).term
            BY <2>2, <1>11, LogNumbers
        <3>2. LogAfter(node[f].core, <<At(node[l].core, p + 1)>>, NoSnapshot, node'[f].core)
            BY <2>2, <1>4, <1>9
        <3>3. Took(f, l)
            BY <2>2, <3>1, <3>2, <1>4 DEF Took
        <3>4. last_index(node'[f].core) = p + 1
            BY <3>1, <3>2 DEF LogAfter, NoSnapshot, Snapshot
        <3>5. QED BY <2>2, <3>3, <3>4, <1>5
    <2>3. QED BY <2>1, <2>2, <1>4
<1>15. Acked(l, f)
    BY <1>7, <1>9, <1>14 DEF Acked
<1>16. node'[f].role = "follower" /\ node'[f].term = node[l].term
    BY <1>4, <1>9
<1>17. QED BY <1>10, <1>12, <1>13, <1>14, <1>15, <1>16 DEF Replicated

LEMMA SendSnapshotEffect ==
    ASSUME CInv, TermsTyped, NEW l \in Node, NEW f \in Node, SendSnapshot(l, f)
    PROVE  Replicated(l, f)
<1>1. Hears(f, l) /\ f # l /\ node[l].matched[f] < node[l].core.offset
    BY SendSnapshotParts DEF Hears
<1>2. PICK lost \in Lost :
        Turns(Two(f, Installing(l, f), l, Answered(l, f, Taken(l, f).commit, lost)), write)
    BY SendSnapshotParts
<1>3. PICK x : x = Installing(l, f)
    OBVIOUS
<1>4. /\ SoundReady(x) /\ x[2] = <<>>
      /\ x[1].role = "follower" /\ x[1].term = node[l].term
      /\ x[1].core = node[f].core
      /\ x[1].vote = (IF node[l].term = node[f].term THEN node[f].vote ELSE NoNode)
      /\ Taken(l, f).commit \in Nat
      /\ \/ x[3] = NoSnapshot /\ Taken(l, f).commit <= last_index(node[f].core)
         \/ /\ x[3] = node[l].core.snap /\ x[3].index # 0
            /\ Taken(l, f).commit = x[3].index
    BY <1>1, <1>3, InstallingSound
<1>5. PICK k \in Nat : k = Taken(l, f).commit
    BY <1>4
<1>6. PICK y : y = Answered(l, f, k, lost)
    OBVIOUS
<1>7. /\ y[2] = <<>> /\ y[3] = NoSnapshot
      /\ y[1].core = node[l].core /\ y[1].role = node[l].role
      /\ y[1].term = node[l].term /\ y[1].vote = node[l].vote
      /\ y[1].votes = node[l].votes /\ y[1].asked = node[l].asked
      /\ \/ y[1].matched = node[l].matched
         \/ y[1].matched = [node[l].matched EXCEPT ![f] = IF k > @ THEN k ELSE @]
    BY <1>6, AnsweredEffect
<1>8. SoundTurns(Two(f, x, l, y)) /\ Turns(Two(f, x, l, y), write)
    BY <1>1, <1>2, <1>3, <1>5, <1>6, SendSnapshotSound
<1>9. /\ \A j \in Node : j # f /\ j # l => node'[j] = node[j]
      /\ node'[f].role = x[1].role /\ node'[f].term = x[1].term
      /\ node'[f].vote = x[1].vote /\ LogAfter(x[1].core, x[2], x[3], node'[f].core)
      /\ node'[l].role = y[1].role /\ node'[l].term = y[1].term
      /\ node'[l].vote = y[1].vote /\ node'[l].votes = y[1].votes
      /\ node'[l].asked = y[1].asked /\ node'[l].matched = y[1].matched
      /\ LogAfter(y[1].core, y[2], y[3], node'[l].core)
    BY <1>1, <1>8, TurnOfTwo
<1>10. Calm(f) /\ Leading(l) /\ l # f
    BY <1>1, <1>4, <1>9, HearingIsCalm
<1>11. Good(Data, SnapData, node[l].core) /\ Good(Data, SnapData, node[f].core)
    BY MemberParts
<1>12. Same(l) /\ Kept(l)
    BY <1>7, <1>9, <1>11, LogKept DEF Same, Kept
<1>13. Only(f, l)
    BY <1>9 DEF Only
<1>14. /\ Kept(f) \/ Installed(f, l)
       /\ k <= last_index(node'[f].core)
    <2>1. CASE x[3] = NoSnapshot /\ Taken(l, f).commit <= last_index(node[f].core)
        <3>1. Kept(f)
            BY <2>1, <1>4, <1>9, <1>11, LogKept DEF Kept
        <3>2. last_index(node'[f].core) = last_index(node[f].core)
            BY <3>1 DEF Kept, Cut
        <3>3. QED BY <2>1, <3>1, <3>2, <1>5
    <2>2. CASE /\ x[3] = node[l].core.snap /\ x[3].index # 0
               /\ Taken(l, f).commit = x[3].index
        <3>1. /\ node[l].core.snap.index = node[l].core.offset
              /\ node[l].core.snap.term = node[l].core.entries[1].term
            BY <2>2, <1>11 DEF Good
        <3>2. node[l].core.offset \in Nat
            BY <1>11, LogNumbers
        <3>3. At(node[l].core, node[l].core.offset) = node[l].core.entries[1]
            BY <3>2 DEF At
        <3>4. LogAfter(node[f].core, <<>>, node[l].core.snap, node'[f].core)
            BY <2>2, <1>4, <1>9
        <3>5. /\ node'[f].core.offset = node[l].core.offset
              /\ last_index(node'[f].core) = node[l].core.offset
              /\ At(node'[f].core, node[l].core.offset).term = node[l].core.snap.term
            BY <2>2, <3>1, <3>4 DEF LogAfter
        <3>6. Installed(f, l)
            BY <3>1, <3>3, <3>5, <1>1 DEF Installed
        <3>7. k <= last_index(node'[f].core)
            BY <2>2, <3>1, <3>2, <3>5, <1>5
        <3>8. QED BY <3>6, <3>7
    <2>3. QED BY <2>1, <2>2, <1>4
<1>15. Acked(l, f)
    BY <1>7, <1>9, <1>14 DEF Acked
<1>16. node'[f].role = "follower" /\ node'[f].term = node[l].term
    BY <1>4, <1>9
<1>17. QED BY <1>10, <1>12, <1>13, <1>14, <1>15, <1>16 DEF Replicated

\* A transfer that begins or ends changes no log, and no part in an election.
LEMMA TransferEffect ==
    ASSUME CInv, NEW n \in Node, TransferLeader(n) \/ TransferTimesOut(n)
    PROVE  /\ Only(n, n) /\ Same(n) /\ Kept(n) /\ node'[n].matched = node[n].matched
<1>1. PICK b \in BOOLEAN : Turns(One(n, Plain([node[n] EXCEPT !.transferring = b])), write)
    BY DEF TransferLeader, TransferTimesOut
<1> DEFINE m == [node[n] EXCEPT !.transferring = b]
<1>2. node[n] \in NodeType /\ Good(Data, SnapData, node[n].core)
    BY MemberParts
<1>3. /\ m.role = node[n].role /\ m.term = node[n].term /\ m.vote = node[n].vote
      /\ m.votes = node[n].votes /\ m.asked = node[n].asked
      /\ m.matched = node[n].matched /\ m.core = node[n].core
    BY <1>2 DEF NodeType
<1>4. SoundTurns(One(n, Plain(m))) /\ Turns(One(n, Plain(m)), write)
    BY <1>1, TransferSound
<1> HIDE DEF m
<1>5. PICK x : x = Plain(m)
    OBVIOUS
<1>6. x[1] = m /\ x[2] = <<>> /\ x[3] = NoSnapshot
    BY <1>5 DEF Plain
<1>7. /\ \A k \in Node : k # n => node'[k] = node[k]
      /\ node'[n].role = x[1].role /\ node'[n].term = x[1].term
      /\ node'[n].vote = x[1].vote /\ node'[n].votes = x[1].votes
      /\ node'[n].asked = x[1].asked /\ node'[n].matched = x[1].matched
      /\ LogAfter(x[1].core, x[2], x[3], node'[n].core)
    BY <1>4, <1>5, TurnOfOne
<1>8. QED BY <1>2, <1>3, <1>6, <1>7, LogKept DEF Only, Same, Kept

\* A leader's log grows by a proposal.
LEMMA ProposeEffect ==
    ASSUME CInv, NEW n \in Node, NEW w \in Write, NEW wr,
           Turns(One(n, <<node[n], NextEntry(node[n], w), NoSnapshot>>), wr)
    PROVE  /\ Only(n, n) /\ Same(n) /\ Grew(n) /\ node'[n].matched = node[n].matched
<1>1. PICK x : x = <<node[n], NextEntry(node[n], w), NoSnapshot>>
    OBVIOUS
<1>2. x[1] = node[n] /\ x[2] = NextEntry(node[n], w) /\ x[3] = NoSnapshot
    BY <1>1
<1>3. SoundTurns(One(n, x)) /\ Turns(One(n, x), wr)
    BY <1>1, ProposeSound
<1>4. /\ \A k \in Node : k # n => node'[k] = node[k]
      /\ node'[n].role = x[1].role /\ node'[n].term = x[1].term
      /\ node'[n].vote = x[1].vote /\ node'[n].votes = x[1].votes
      /\ node'[n].asked = x[1].asked /\ node'[n].matched = x[1].matched
      /\ LogAfter(x[1].core, x[2], x[3], node'[n].core)
    BY <1>3, TurnOfOne
<1>5. PICK e : e = Entry(last_index(node[n].core) + 1, node[n].term, w)
    OBVIOUS
<1>6. NextEntry(node[n], w) = <<e>> /\ e \in EntryType(Data)
    <2>1. Settled(node[n]) /\ node[n] \in NodeType /\ w \in Data
        BY MemberParts DEF Data
    <2>2. QED BY <2>1, <1>5, NextEntryReady
<1>7. e.index = last_index(node[n].core) + 1 /\ e.term = node[n].term
    BY <1>5 DEF Entry
<1>8. LogAfter(node[n].core, <<e>>, NoSnapshot, node'[n].core)
    BY <1>2, <1>4, <1>6
<1>9. Grew(n)
    BY <1>6, <1>7, <1>8 DEF Grew
<1>10. QED BY <1>2, <1>4, <1>9 DEF Only, Same

LEMMA CampaignEffect ==
    ASSUME CInv, NEW n \in Node, Campaign(n)
    PROVE  Only(n, n) /\ Kept(n) /\ ~Leading(n)'
<1> DEFINE m == become_candidate(node[n], n)
<1>1. node[n] \in NodeType /\ Good(Data, SnapData, node[n].core)
    BY MemberParts
<1>2. m.role = "candidate" /\ m.core = node[n].core
    BY <1>1, CandidateEffect
<1>3. SoundTurns(One(n, Plain(m))) /\ Turns(One(n, Plain(m)), write)
    BY CampaignSound DEF Campaign
<1> HIDE DEF m
<1>4. PICK x : x = Plain(m)
    OBVIOUS
<1>5. x[1] = m /\ x[2] = <<>> /\ x[3] = NoSnapshot
    BY <1>4 DEF Plain
<1>6. /\ \A k \in Node : k # n => node'[k] = node[k]
      /\ node'[n].role = x[1].role
      /\ LogAfter(x[1].core, x[2], x[3], node'[n].core)
    BY <1>3, <1>4, TurnOfOne
<1>7. QED BY <1>1, <1>2, <1>5, <1>6, LogKept DEF Only, Kept, Leading

LEMMA RequestVoteLogs ==
    ASSUME CInv, VInv, NEW c \in Node, NEW v \in Node, RequestVote(c, v)
    PROVE  /\ Only(c, v) /\ Kept(v)
           /\ Leading(v)' => Leading(v) /\ node'[v].matched = node[v].matched
           /\ \/ Kept(c) /\ ~Leading(c)'
              \/ Leading(c)' /\ Grew(c) /\ node'[c].matched = [f \in Node |-> 0]
<1>1. Standing(c) /\ v # c /\ node[c].term >= node[v].term
    BY RequestVoteParts DEF Standing, VInv, VotesBacked
<1>2. PICK lost : Turns(Two(v, Plain(Voter(c, v)), c, Candidate(c, v, lost)), write)
    BY RequestVoteParts
<1>3. PICK x, y : x = Plain(Voter(c, v)) /\ y = Candidate(c, v, lost)
    OBVIOUS
<1>4. SoundTurns(Two(v, x, c, y)) /\ Turns(Two(v, x, c, y), write)
    BY <1>2, <1>3, RequestVoteSound
<1>5. /\ \A k \in Node : k # v /\ k # c => node'[k] = node[k]
      /\ LogAfter(x[1].core, x[2], x[3], node'[v].core)
      /\ node'[v].role = x[1].role /\ node'[v].matched = x[1].matched
      /\ node'[c].role = y[1].role /\ node'[c].matched = y[1].matched
      /\ LogAfter(y[1].core, y[2], y[3], node'[c].core)
    BY <1>1, <1>4, TurnOfTwo
<1>6. /\ Good(Data, SnapData, node[v].core) /\ Good(Data, SnapData, node[c].core)
      /\ node[c] \in NodeType /\ Settled(node[c]) /\ NoData \in Data
    BY MemberParts
<1>7. Kept(v)
    <2>1. Requested(c, v).core = node[v].core /\ Requested(c, v) \in NodeType
        BY <1>1, RequestedEffect
    <2>2. Voter(c, v).core = node[v].core
        BY <2>1 DEF Voter, NodeType
    <2>3. x[1] = Voter(c, v) /\ x[2] = <<>> /\ x[3] = NoSnapshot
        BY <1>3 DEF Plain
    <2>4. QED BY <2>2, <2>3, <1>5, <1>6, LogKept DEF Kept
<1>7a. Leading(v)' => Leading(v) /\ node'[v].matched = node[v].matched
    <2>1. /\ Requested(c, v) \in NodeType
          /\ Requested(c, v).role = (IF node[c].term > node[v].term THEN "follower"
                                     ELSE node[v].role)
          /\ node[c].term > node[v].term \/ Requested(c, v) = node[v]
        BY <1>1, RequestedEffect
    <2>2. /\ Voter(c, v).role = Requested(c, v).role
          /\ Voter(c, v).matched = Requested(c, v).matched
        BY <2>1 DEF Voter, NodeType
    <2>3. x[1] = Voter(c, v)
        BY <1>3 DEF Plain
    <2>4. QED BY <2>1, <2>2, <2>3, <1>5 DEF Leading
<1>8. CASE Majority(Votes(c, v, lost))
    <2> DEFINE ld == become_leader(node[c], c)
    <2>1. y[1] = ld /\ y[2] = NextEntry(ld, NoData) /\ y[3] = NoSnapshot
        BY <1>3, <1>8 DEF Candidate, Elected
    <2>2. /\ ld \in NodeType /\ ld.core = node[c].core /\ ld.applied = node[c].applied
          /\ ld.commit = node[c].commit /\ ld.role = "leader" /\ ld.term = node[c].term
          /\ ld.matched = [f \in Node |-> 0]
        BY <1>6, LeaderEffect
    <2> HIDE DEF ld
    <2>3. PICK e : e = Entry(last_index(node[c].core) + 1, ld.term, NoData)
        OBVIOUS
    <2>4. NextEntry(ld, NoData) = <<e>> /\ e \in EntryType(Data)
        BY <2>2, <2>3, <1>6, NextEntryReady
    <2>5. e.index = last_index(node[c].core) + 1 /\ e.term = node[c].term
        BY <2>2, <2>3 DEF Entry
    <2>6. LogAfter(node[c].core, <<e>>, NoSnapshot, node'[c].core)
        BY <2>1, <2>2, <2>4, <1>5
    <2>7. Grew(c)
        BY <2>4, <2>5, <2>6 DEF Grew
    <2>8. QED BY <2>1, <2>2, <2>7, <1>5, <1>7, <1>7a DEF Only, Leading
<1>9. CASE ~Majority(Votes(c, v, lost))
    <2>1. y[1] = Asked(c, v, lost) /\ y[2] = <<>> /\ y[3] = NoSnapshot
        BY <1>3, <1>9 DEF Candidate, Plain
    <2>2. y[1].core = node[c].core /\ y[1].role = "candidate"
        BY <2>1, <1>1, <1>6 DEF Asked, NodeType, Standing
    <2>3. QED BY <2>1, <2>2, <1>5, <1>6, <1>7, <1>7a, LogKept DEF Only, Kept, Leading
<1>10. QED BY <1>8, <1>9
-----------------------------------------------------------------------------
(***************************************************************************)
(* The logs: an entry's term was won by someone, no log has an entry of a  *)
(* leader's term past the leader's own, and logs that agree on the term at *)
(* an index agree below it.                                                *)
(***************************************************************************)
EntriesWon ==
    \A n \in Node : \A i \in Held(node[n].core) :
        At(node[n].core, i).term # 0 => \E x \in Node : Won(At(node[n].core, i).term, x)

LeaderLongest ==
    \A l, m \in Node : Leading(l) =>
        \A i \in Held(node[m].core) :
            At(node[m].core, i).term = node[l].term => i <= last_index(node[l].core)

\* Of the lowest entry of a log, the dummy, only the index and the term are kept.
SameAt(c, d, j) == /\ At(c, j).term = At(d, j).term
                   /\ j > c.offset /\ j > d.offset => At(c, j) = At(d, j)

Match(c, d) ==
    \A i \in Held(c) : i \in Held(d) /\ At(c, i).term = At(d, i).term =>
        \A j \in Held(c) : j \in Held(d) /\ j <= i => SameAt(c, d, j)

LogsMatch == \A m, n \in Node : Match(node[m].core, node[n].core)

LInv == EntriesWon /\ LeaderLongest /\ LogsMatch

\* Where the terms in the logs after a step come from.
Traced ==
    \A n \in Node : \A i \in Held(node'[n].core) :
        \/ \E m \in Node : /\ i \in Held(node[m].core)
                           /\ At(node'[n].core, i).term = At(node[m].core, i).term
        \/ /\ Leading(n)' /\ i <= last_index(node'[n].core)
           /\ At(node'[n].core, i).term = node'[n].term

LeadersGrow ==
    \A n \in Node : Leading(n) /\ Leading(n)' =>
        last_index(node[n].core) <= last_index(node'[n].core)

\* The numbers of the members' logs, before and after a step.
LogsTyped ==
    \A n \in Node :
        /\ node[n].core.offset \in Nat /\ last_index(node[n].core) \in Nat
        /\ node'[n].core.offset \in Nat /\ last_index(node'[n].core) \in Nat
        /\ node[n].core.offset <= last_index(node[n].core)
        /\ \A i \in Held(node[n].core) : At(node[n].core, i).term \in Nat
        /\ \A i \in Held(node'[n].core) : At(node'[n].core, i).term \in Nat

LEMMA StepLogsTyped ==
    ASSUME CInv, CInv'
    PROVE  LogsTyped
<1>1. \A c : Good(Data, SnapData, c) =>
        /\ c.offset \in Nat /\ last_index(c) \in Nat /\ c.offset <= last_index(c)
        /\ \A i \in Held(c) : At(c, i).term \in Nat
    BY LogNumbers DEF EntryType
<1>2. \A n \in Node : Good(Data, SnapData, node[n].core)
    BY DEF CInv, Settled
<1>3. \A n \in Node : Good(Data, SnapData, node'[n].core)
    BY DEF CInv, Settled
<1>4. QED BY <1>1, <1>2, <1>3 DEF LogsTyped

LEMMA TracedKeeps ==
    ASSUME TermsTyped, LogsTyped, VInv, VInv', VoteStep, Traced, LeadersGrow,
           EntriesWon, LeaderLongest
    PROVE  EntriesWon' /\ LeaderLongest'
<1>1. ASSUME NEW n \in Node, NEW i \in Held(node'[n].core), At(node'[n].core, i).term # 0
      PROVE  \E x \in Node : Won(At(node[n].core, i).term, x)'
    <2>1. PICK t \in Nat : t = At(node'[n].core, i).term /\ t # 0
        BY <1>1 DEF LogsTyped
    <2>2. CASE \E m \in Node : i \in Held(node[m].core) /\ t = At(node[m].core, i).term
        <3>1. PICK x \in Node : Won(t, x)
            BY <2>1, <2>2 DEF EntriesWon
        <3>2. Won(t, x)'
            BY <3>1, WonStays
        <3>3. QED BY <2>1, <3>2
    <2>3. CASE Leading(n)' /\ t = node'[n].term
        BY <2>1, <2>3 DEF VInv, LeadersWon
    <2>4. QED BY <2>1, <2>2, <2>3 DEF Traced
<1>2. ASSUME NEW l \in Node, NEW m \in Node, Leading(l)', NEW i \in Held(node'[m].core),
             At(node'[m].core, i).term = node'[l].term
      PROVE  i <= last_index(node'[l].core)
    <2>1. PICK t \in Nat : t = node'[l].term /\ t = node[l].term
        BY <1>2 DEF TermsTyped, VoteStep
    <2>2. CASE \E k \in Node : i \in Held(node[k].core) /\ t = At(node[k].core, i).term
        <3>1. PICK k \in Node : i \in Held(node[k].core) /\ t = At(node[k].core, i).term
            BY <2>2
        <3>2. CASE Leading(l)
            <4>1. i <= last_index(node[l].core)
                BY <2>1, <3>1, <3>2 DEF LeaderLongest
            <4>2. i \in Int
                BY <3>1 DEF Held, LogsTyped
            <4>3. QED BY <3>2, <4>1, <4>2, <1>2 DEF LeadersGrow, LogsTyped
        <3>3. CASE Wins(l)
            <4>1. t # 0
                BY <2>1, <3>3 DEF VInv, OwnVote, Wins, Standing
            <4>2. PICK x \in Node : Won(t, x)
                BY <3>1, <4>1 DEF EntriesWon
            <4>3. QED BY <2>1, <3>3, <4>2, WonOnce
        <3>4. QED BY <1>2, <3>2, <3>3 DEF VoteStep
    <2>3. CASE /\ Leading(m)' /\ i <= last_index(node'[m].core) /\ t = node'[m].term
        <3>1. m = l
            BY <2>1, <2>3, <1>2 DEF VInv, OneLeader
        <3>2. QED BY <2>3, <3>1
    <2>4. QED BY <1>2, <2>1, <2>2, <2>3 DEF Traced
<1>3. QED BY <1>1, <1>2 DEF EntriesWon, LeaderLongest

\* What a kept log, and a grown one, hold.
LEMMA KeptTraces ==
    ASSUME NEW n \in Node, Kept(n), NEW i \in Held(node'[n].core)
    PROVE  i \in Held(node[n].core) /\ At(node'[n].core, i) = At(node[n].core, i)
BY DEF Kept, Cut

LEMMA GrewTraces ==
    ASSUME LogsTyped, NEW n \in Node, Grew(n)
    PROVE  /\ last_index(node'[n].core) = last_index(node[n].core) + 1
           /\ \A i \in Held(node'[n].core) :
                \/ i \in Held(node[n].core) /\ At(node'[n].core, i) = At(node[n].core, i)
                \/ /\ i = last_index(node[n].core) + 1
                   /\ At(node'[n].core, i).term = node[n].term
           /\ node[n].core.offset <= node'[n].core.offset
<1>1. PICK e \in EntryType(Data) :
        /\ e.index = last_index(node[n].core) + 1 /\ e.term = node[n].term
        /\ LogAfter(node[n].core, <<e>>, NoSnapshot, node'[n].core)
    BY DEF Grew
<1>2. NoSnapshot.index = 0 /\ <<e>> # <<>> /\ <<e>>[1] = e
    BY DEF NoSnapshot, Snapshot
<1>3. QED BY <1>1, <1>2 DEF LogAfter

\* What a log holds that took an entry from the leader's.
LEMMA TookTraces ==
    ASSUME LogsTyped, NEW f \in Node, NEW l \in Node, Good(Data, SnapData, node[l].core),
           Took(f, l)
    PROVE  \E p \in Nat :
             /\ p \in Held(node[f].core) /\ p \in Held(node[l].core)
             /\ p + 1 \in Held(node[l].core)
             /\ At(node[f].core, p).term = At(node[l].core, p).term
             /\ node[l].matched[f] <= p
             /\ last_index(node'[f].core) = p + 1
             /\ node[f].core.offset <= node'[f].core.offset
             /\ \A i \in Held(node'[f].core) :
                  \/ /\ i <= p /\ i \in Held(node[f].core)
                     /\ At(node'[f].core, i) = At(node[f].core, i)
                  \/ i = p + 1 /\ At(node'[f].core, i) = At(node[l].core, i)
<1>1. PICK p \in Held(node[f].core) :
        /\ p \in Held(node[l].core) /\ p + 1 \in Held(node[l].core)
        /\ At(node[f].core, p).term = At(node[l].core, p).term
        /\ node[l].matched[f] <= p
        /\ LogAfter(node[f].core, <<At(node[l].core, p + 1)>>, NoSnapshot, node'[f].core)
    BY DEF Took
<1>2. p \in Nat
    BY <1>1 DEF Held, LogsTyped
<1>3. PICK e : e = At(node[l].core, p + 1)
    OBVIOUS
<1>4. e.index = p + 1
    BY <1>1, <1>3, LogNumbers
<1>5. NoSnapshot.index = 0 /\ <<e>> # <<>> /\ <<e>>[1] = e
    BY DEF NoSnapshot, Snapshot
<1>6. /\ last_index(node'[f].core) = p + 1
      /\ node[f].core.offset <= node'[f].core.offset
      /\ \A i \in Held(node'[f].core) :
           IF i = p + 1 THEN At(node'[f].core, i) = e
           ELSE i \in Held(node[f].core) /\ At(node'[f].core, i) = At(node[f].core, i)
    BY <1>1, <1>3, <1>4, <1>5 DEF LogAfter
<1>7. ASSUME NEW i \in Held(node'[f].core)
      PROVE  \/ /\ i <= p /\ i \in Held(node[f].core)
                /\ At(node'[f].core, i) = At(node[f].core, i)
             \/ i = p + 1 /\ At(node'[f].core, i) = At(node[l].core, i)
    <2>1. i \in Int /\ i <= p + 1
        BY <1>6 DEF Held, LogsTyped
    <2>2. CASE i = p + 1
        BY <2>2, <1>3, <1>6
    <2>3. CASE i # p + 1
        BY <2>1, <2>3, <1>2, <1>6
    <2>4. QED BY <2>2, <2>3
<1>8. QED BY <1>1, <1>2, <1>6, <1>7

LEMMA InstalledTraces ==
    ASSUME LogsTyped, NEW f \in Node, NEW l \in Node, Installed(f, l)
    PROVE  \A i \in Held(node'[f].core) :
             /\ i = node[l].core.offset /\ i = node'[f].core.offset
             /\ i \in Held(node[l].core)
             /\ At(node'[f].core, i).term = At(node[l].core, i).term
BY DEF Installed, Held, LogsTyped
-----------------------------------------------------------------------------
\* Matching is symmetric, and is kept when a log is compacted.
LEMMA MatchIsSymmetric ==
    ASSUME NEW c, NEW d, Match(c, d)
    PROVE  Match(d, c)
BY DEF Match, SameAt

LEMMA MatchIsKept ==
    ASSUME NEW c, NEW d, Match(c, d), NEW b, Cut(d, b), d.offset \in Nat, b.offset \in Nat,
           last_index(b) \in Nat
    PROVE  Match(c, b)
<1>1. ASSUME NEW i \in Held(c), i \in Held(b), At(c, i).term = At(b, i).term,
             NEW j \in Held(c), j \in Held(b), j <= i
      PROVE  SameAt(c, b, j)
    <2>1. /\ i \in Held(d) /\ At(b, i) = At(d, i) /\ j \in Held(d) /\ At(b, j) = At(d, j)
        BY <1>1 DEF Cut
    <2>2. SameAt(c, d, j)
        BY <2>1, <1>1 DEF Match
    <2>3. j \in Int /\ (j > b.offset => j > d.offset)
        BY <1>1 DEF Cut, Held
    <2>4. QED BY <2>1, <2>2, <2>3 DEF SameAt
<1>2. QED BY <1>1 DEF Match

\* The logs match after a step if the one that does more than keep its end
\* matches the others as they were.
LEMMA OneLogChanges ==
    ASSUME LogsTyped, LogsMatch, NEW f \in Node,
           \A n \in Node : n # f => Kept(n),
           \A n \in Node : n # f => Match(node'[f].core, node[n].core)
    PROVE  LogsMatch'
<1>1. ASSUME NEW m \in Node, NEW n \in Node, n # f, Match(node'[m].core, node[n].core)
      PROVE  Match(node'[m].core, node'[n].core)
    BY <1>1, MatchIsKept DEF Kept, LogsTyped
<1>2. ASSUME NEW m \in Node, NEW n \in Node
      PROVE  Match(node'[m].core, node'[n].core)
    <2>1. CASE m = n
        BY <2>1 DEF Match, SameAt
    <2>2. CASE m = f /\ n # f
        BY <2>2, <1>1
    <2>3. CASE m # f /\ n = f
        <3>1. Match(node'[n].core, node'[m].core)
            BY <2>3, <1>1
        <3>2. QED BY <3>1, MatchIsSymmetric
    <2>4. CASE m # f /\ n # f
        <3>1. Match(node[n].core, node[m].core)
            BY DEF LogsMatch
        <3>2. Match(node[n].core, node'[m].core)
            BY <2>4, <3>1, MatchIsKept DEF Kept, LogsTyped
        <3>3. Match(node'[m].core, node[n].core)
            BY <3>2, MatchIsSymmetric
        <3>4. QED BY <2>4, <3>3, <1>1
    <2>5. QED BY <2>1, <2>2, <2>3, <2>4
<1>3. QED BY <1>2 DEF LogsMatch

LEMMA KeptMatches ==
    ASSUME LogsTyped, LogsMatch, NEW f \in Node, NEW n \in Node, Kept(f)
    PROVE  Match(node'[f].core, node[n].core)
<1>1. Match(node[n].core, node[f].core)
    BY DEF LogsMatch
<1>2. Match(node[n].core, node'[f].core)
    BY <1>1, MatchIsKept DEF Kept, LogsTyped
<1>3. QED BY <1>2, MatchIsSymmetric

\* A leader's new entry is at an index where no log has an entry of its term.
LEMMA GrewMatches ==
    ASSUME LogsTyped, LogsMatch, NEW f \in Node, NEW n \in Node, Grew(f),
           \A i \in Held(node[n].core) :
               At(node[n].core, i).term = node[f].term => i <= last_index(node[f].core)
    PROVE  Match(node'[f].core, node[n].core)
<1> DEFINE b == node'[f].core
           c == node[f].core
           g == node[n].core
<1>1. ASSUME NEW i \in Held(b), i \in Held(g), At(b, i).term = At(g, i).term,
             NEW j \in Held(b), j \in Held(g), j <= i
      PROVE  SameAt(b, g, j)
    <2>1. i # last_index(c) + 1
        <3>1. CASE i = last_index(c) + 1
            <4>1. At(b, i).term = node[f].term \/ i \in Held(c)
                BY GrewTraces
            <4>2. last_index(c) \in Nat
                BY DEF LogsTyped
            <4>3. i \notin Held(c)
                BY <3>1, <4>2 DEF Held
            <4>4. i <= last_index(c)
                BY <4>1, <4>3, <1>1
            <4>5. QED BY <3>1, <4>2, <4>4
        <3>2. QED BY <3>1
    <2>2. i \in Held(c) /\ At(b, i) = At(c, i)
        BY <2>1, GrewTraces
    <2>3. j # last_index(c) + 1
        BY <2>1, <2>2, <1>1 DEF Held, LogsTyped
    <2>4. j \in Held(c) /\ At(b, j) = At(c, j)
        BY <2>3, GrewTraces
    <2>5. SameAt(c, g, j)
        BY <2>2, <2>4, <1>1 DEF LogsMatch, Match
    <2>6. j > b.offset => j > c.offset
        BY GrewTraces, <2>4 DEF Held, LogsTyped
    <2>7. QED BY <2>4, <2>5, <2>6 DEF SameAt
<1>2. QED BY <1>1 DEF Match

\* An entry taken after one that the follower and the leader agree on.
LEMMA TookMatches ==
    ASSUME LogsTyped, LogsMatch, NEW f \in Node, NEW l \in Node, NEW n \in Node,
           Good(Data, SnapData, node[l].core), Took(f, l)
    PROVE  Match(node'[f].core, node[n].core)
<1> DEFINE b == node'[f].core
           c == node[f].core
           d == node[l].core
           g == node[n].core
<1>1. PICK p \in Nat :
        /\ p \in Held(c) /\ p \in Held(d) /\ p + 1 \in Held(d)
        /\ At(c, p).term = At(d, p).term
        /\ c.offset <= b.offset
        /\ \A i \in Held(b) :
             \/ i <= p /\ i \in Held(c) /\ At(b, i) = At(c, i)
             \/ i = p + 1 /\ At(b, i) = At(d, i)
    BY TookTraces
<1>2. Match(c, g) /\ Match(d, g)
    BY DEF LogsMatch
<1>3. /\ b.offset \in Nat /\ c.offset \in Nat /\ d.offset \in Nat /\ g.offset \in Nat
      /\ last_index(g) \in Nat /\ last_index(d) \in Nat /\ last_index(b) \in Nat
    BY DEF LogsTyped
<1> HIDE DEF b, c, d, g
<1>4. ASSUME NEW i \in Held(b), i \in Held(g), At(b, i).term = At(g, i).term,
             NEW j \in Held(b), j \in Held(g), j <= i
      PROVE  SameAt(b, g, j)
    <2>1. i \in Int /\ j \in Int
        BY <1>3, <1>4 DEF Held
    <2>2. ASSUME j <= p, NEW k \in Held(c), k \in Held(g), j <= k,
                 At(c, k).term = At(g, k).term
          PROVE  SameAt(b, g, j)
        <3>1. j \in Held(c) /\ At(b, j) = At(c, j)
            BY <1>1, <2>1, <2>2
        <3>2. SameAt(c, g, j)
            BY <3>1, <2>2, <1>2, <1>4 DEF Match
        <3>3. j > b.offset => j > c.offset
            BY <1>1, <1>3, <2>1
        <3>4. QED BY <3>1, <3>2, <3>3 DEF SameAt
    <2>3. CASE i <= p
        <3>1. i \in Held(c) /\ At(b, i) = At(c, i)
            BY <2>3, <1>1, <2>1
        <3>2. j <= p
            BY <2>1, <2>3, <1>4
        <3>3. QED BY <3>1, <3>2, <2>2, <1>4
    <2>4. CASE i = p + 1
        <3>1. i \in Held(d) /\ At(d, i).term = At(g, i).term
            <4>1. At(b, i) = At(d, i)
                BY <2>4, <1>1
            <4>2. QED BY <4>1, <2>4, <1>1, <1>4
        <3>2. CASE j = p + 1
            <4>1. SameAt(d, g, j)
                BY <3>1, <3>2, <2>4, <1>2, <1>4, <2>1 DEF Match
            <4>2. At(b, j) = At(d, j)
                BY <3>2, <1>1, <1>4
            <4>3. d.offset <= p
                BY <1>1, <1>3 DEF Held
            <4>4. j > d.offset
                BY <3>2, <4>3, <1>3
            <4>5. QED BY <4>1, <4>2, <4>4 DEF SameAt
        <3>3. CASE j # p + 1
            <4>1. j <= p
                BY <3>3, <2>1, <2>4, <1>4
            <4>2. p \in Held(g)
                BY <4>1, <2>1, <2>4, <1>3, <1>4 DEF Held
            <4>3. SameAt(d, g, p)
                BY <3>1, <4>2, <2>4, <1>1, <1>2, <1>4 DEF Match
            <4>4. At(c, p).term = At(g, p).term
                BY <4>3, <1>1 DEF SameAt
            <4>5. QED BY <4>1, <4>2, <4>4, <2>2, <1>1
        <3>4. QED BY <3>2, <3>3
    <2>5. QED BY <2>3, <2>4, <1>1, <1>4
<1>5. QED BY <1>4 DEF Match, b, g

\* A snapshot leaves one index, and only its term.
LEMMA InstalledMatches ==
    ASSUME LogsTyped, NEW f \in Node, NEW l \in Node, NEW n \in Node, Installed(f, l)
    PROVE  Match(node'[f].core, node[n].core)
<1>1. ASSUME NEW i \in Held(node'[f].core), NEW j \in Held(node'[f].core)
      PROVE  i = j /\ ~(j > node'[f].core.offset)
    <2>1. PICK s \in Nat : s = node'[f].core.offset
        BY DEF LogsTyped
    <2>2. i = s /\ j = s
        BY <2>1, InstalledTraces
    <2>3. ~(s > s)
        OBVIOUS
    <2>4. QED BY <2>1, <2>2, <2>3
<1>2. QED BY <1>1 DEF Match, SameAt
-----------------------------------------------------------------------------
(***************************************************************************)
(* The three kinds of steps keep the invariant of the logs.                *)
(***************************************************************************)

\* Every log keeps its end.
LEMMA KeptKeeps ==
    ASSUME TermsTyped, LogsTyped, VInv, VInv', VoteStep, LInv, \A n \in Node : Kept(n)
    PROVE  LInv'
<1>1. Traced
    <2>1. ASSUME NEW n \in Node, NEW i \in Held(node'[n].core)
          PROVE  \E m \in Node : /\ i \in Held(node[m].core)
                                 /\ At(node'[n].core, i).term = At(node[m].core, i).term
        BY KeptTraces
    <2>2. QED BY <2>1 DEF Traced
<1>2. LeadersGrow
    BY DEF LeadersGrow, Kept, Cut, LogsTyped
<1>3. EntriesWon' /\ LeaderLongest'
    BY <1>1, <1>2, TracedKeeps DEF LInv
<1>4. LogsMatch'
    <2>1. ASSUME NEW f \in Node PROVE LogsMatch'
        BY <2>1, KeptMatches, OneLogChanges DEF LInv
    <2>2. 1 \in Node
        BY MembersAssumption DEF Node
    <2>3. QED BY <2>1, <2>2
<1>5. QED BY <1>3, <1>4 DEF LInv

\* A leader's log grows, by an entry of its term.
LEMMA GrewKeeps ==
    ASSUME TermsTyped, LogsTyped, VInv, VInv', VoteStep, LInv,
           NEW f \in Node, Leading(f)', Grew(f), \A n \in Node : n # f => Kept(n)
    PROVE  LInv'
<1>1. node'[f].term = node[f].term
    BY DEF VoteStep
<1>2. Traced
    <2>1. ASSUME NEW n \in Node, NEW i \in Held(node'[n].core), n # f
          PROVE  \E m \in Node : /\ i \in Held(node[m].core)
                                 /\ At(node'[n].core, i).term = At(node[m].core, i).term
        BY <2>1, KeptTraces
    <2>2. ASSUME NEW i \in Held(node'[f].core)
          PROVE  \/ /\ i \in Held(node[f].core)
                    /\ At(node'[f].core, i).term = At(node[f].core, i).term
                 \/ /\ i <= last_index(node'[f].core)
                    /\ At(node'[f].core, i).term = node'[f].term
        <3>1. i <= last_index(node'[f].core)
            BY DEF Held, LogsTyped
        <3>2. QED BY <3>1, <1>1, GrewTraces
    <2>3. QED BY <2>1, <2>2 DEF Traced
<1>3. LeadersGrow
    <2>1. last_index(node[f].core) <= last_index(node'[f].core)
        BY GrewTraces DEF LogsTyped
    <2>2. QED BY <2>1 DEF LeadersGrow, Kept, Cut, LogsTyped
<1>4. EntriesWon' /\ LeaderLongest'
    BY <1>2, <1>3, TracedKeeps DEF LInv
<1>5. ASSUME NEW n \in Node, NEW i \in Held(node[n].core),
             At(node[n].core, i).term = node[f].term
      PROVE  i <= last_index(node[f].core)
    <2>1. CASE Leading(f)
        BY <2>1, <1>5 DEF LInv, LeaderLongest
    <2>2. CASE Wins(f)
        <3>1. PICK t \in Nat : t = node[f].term
            BY DEF TermsTyped
        <3>2. t # 0
            BY <2>2, <3>1 DEF VInv, OwnVote, Wins, Standing
        <3>3. PICK x \in Node : Won(t, x)
            BY <3>1, <3>2, <1>5 DEF LInv, EntriesWon
        <3>4. QED BY <2>2, <3>1, <3>3, WonOnce
    <2>3. QED BY <2>1, <2>2 DEF VoteStep
<1>6. LogsMatch'
    BY <1>5, GrewMatches, OneLogChanges DEF LInv
<1>7. QED BY <1>4, <1>6 DEF LInv

\* What Only(m, n) leaves alone is kept.
LEMMA OthersKept ==
    ASSUME CInv, NEW m \in Node, NEW n \in Node, Only(m, n), NEW k \in Node, k # m, k # n
    PROVE  Kept(k) /\ Same(k) /\ node'[k].matched = node[k].matched
<1>1. node'[k] = node[k] /\ Good(Data, SnapData, node[k].core)
    BY MemberParts DEF Only
<1>2. QED BY <1>1, LogKept DEF Kept, Same

\* A message from a leader, and its reply.
LEMMA ReplicatedKeeps ==
    ASSUME CInv, TermsTyped, LogsTyped, VInv, VInv', VoteStep, LInv,
           NEW l \in Node, NEW f \in Node, Replicated(l, f)
    PROVE  LInv'
<1>1. \A n \in Node : n # f => Kept(n)
    BY OthersKept DEF Replicated
<1>2. Good(Data, SnapData, node[l].core)
    BY MemberParts
<1>3. CASE Kept(f)
    <2>1. \A n \in Node : Kept(n)
        BY <1>1, <1>3
    <2>2. QED BY <2>1, KeptKeeps
<1>4. CASE Took(f, l) \/ Installed(f, l)
    <2>1. Traced
        <3>1. ASSUME NEW n \in Node, NEW i \in Held(node'[n].core)
              PROVE  \E m \in Node : /\ i \in Held(node[m].core)
                                     /\ At(node'[n].core, i).term = At(node[m].core, i).term
            <4>1. CASE n # f
                BY <4>1, <1>1, KeptTraces
            <4>2. CASE n = f /\ Took(f, l)
                BY <4>2, <1>2, TookTraces
            <4>3. CASE n = f /\ Installed(f, l)
                BY <4>3, InstalledTraces
            <4>4. QED BY <4>1, <4>2, <4>3, <1>4
        <3>2. QED BY <3>1 DEF Traced
    <2>2. LeadersGrow
        BY <1>1 DEF LeadersGrow, Kept, Cut, LogsTyped, Replicated, Leading
    <2>3. EntriesWon' /\ LeaderLongest'
        BY <2>1, <2>2, TracedKeeps DEF LInv
    <2>4. \A n \in Node : Match(node'[f].core, node[n].core)
        BY <1>2, <1>4, TookMatches, InstalledMatches DEF LInv
    <2>5. LogsMatch'
        BY <1>1, <2>4, OneLogChanges DEF LInv
    <2>6. QED BY <2>3, <2>5 DEF LInv
<1>5. QED BY <1>3, <1>4 DEF Replicated
-----------------------------------------------------------------------------
(***************************************************************************)
(* The acknowledgements: what a leader has recorded of a member that has   *)
(* not moved to a later term is in that member's log, and it was recorded  *)
(* in the leader's term.                                                   *)
(***************************************************************************)
AcksHeld ==
    \A l, f \in Node : Leading(l) /\ l # f /\ node[f].term <= node[l].term =>
        node[l].matched[f] <= last_index(node[f].core)

AcksInTerm ==
    \A l, f \in Node : Leading(l) /\ l # f /\ node[l].matched[f] # 0 =>
        node[f].term >= node[l].term

MInv == AcksHeld /\ AcksInTerm

AcksTyped == \A n \in Node : /\ node[n].matched \in [Node -> Nat]
                             /\ node'[n].matched \in [Node -> Nat]

LEMMA StepAcksTyped ==
    ASSUME CInv, CInv'
    PROVE  AcksTyped
<1>1. \A n \in Node : node[n] \in NodeType /\ node'[n] \in NodeType
    BY DEF CInv, TypeOK
<1>2. QED BY <1>1, NodeParts DEF AcksTyped

\* No log gets shorter, and what is recorded stays, or is forgotten at an election.
LEMMA LongerKeepsAcks ==
    ASSUME TermsTyped, LogsTyped, AcksTyped, VoteStep, MInv,
           \A n \in Node : last_index(node[n].core) <= last_index(node'[n].core),
           \A l \in Node : Leading(l)' => \/ Leading(l) /\ node'[l].matched = node[l].matched
                                          \/ node'[l].matched = [f \in Node |-> 0]
    PROVE  MInv'
<1>1. ASSUME NEW l \in Node, NEW f \in Node, Leading(l)', l # f
      PROVE  /\ node'[f].term <= node'[l].term =>
                  node'[l].matched[f] <= last_index(node'[f].core)
             /\ node'[l].matched[f] # 0 => node'[f].term >= node'[l].term
    <2>1. /\ node[l].term \in Nat /\ node[f].term \in Nat /\ node'[f].term \in Nat
          /\ node'[l].term = node[l].term /\ node'[f].term >= node[f].term
          /\ last_index(node[f].core) \in Nat /\ last_index(node'[f].core) \in Nat
          /\ last_index(node[f].core) <= last_index(node'[f].core)
          /\ node[l].matched[f] \in Nat
        BY <1>1 DEF TermsTyped, LogsTyped, VoteStep, AcksTyped
    <2>2. CASE Leading(l) /\ node'[l].matched = node[l].matched
        <3>1. node[f].term <= node[l].term => node[l].matched[f] <= last_index(node[f].core)
            BY <2>2, <1>1 DEF MInv, AcksHeld
        <3>2. node[l].matched[f] # 0 => node[f].term >= node[l].term
            BY <2>2, <1>1 DEF MInv, AcksInTerm
        <3>3. node'[l].matched[f] = node[l].matched[f]
            BY <2>2
        <3>4. QED BY <2>1, <3>1, <3>2, <3>3
    <2>3. CASE node'[l].matched = [g \in Node |-> 0]
        BY <2>1, <2>3
    <2>4. QED BY <1>1, <2>2, <2>3
<1>2. QED BY <1>1 DEF MInv, AcksHeld, AcksInTerm

LEMMA ReplicatedKeepsAcks ==
    ASSUME CInv, TermsTyped, LogsTyped, AcksTyped, VInv', VoteStep, MInv,
           NEW k \in Node, NEW g \in Node, Replicated(k, g)
    PROVE  MInv'
<1>1. ASSUME NEW l \in Node, NEW f \in Node, Leading(l)', l # f
      PROVE  /\ node'[f].term <= node'[l].term =>
                  node'[l].matched[f] <= last_index(node'[f].core)
             /\ node'[l].matched[f] # 0 => node'[f].term >= node'[l].term
    <2>1. /\ node[l].term \in Nat /\ node[f].term \in Nat /\ node'[f].term \in Nat
          /\ node'[l].term = node[l].term /\ node'[f].term >= node[f].term
          /\ last_index(node[f].core) \in Nat /\ last_index(node'[f].core) \in Nat
          /\ node[l].matched[f] \in Nat
        BY <1>1 DEF TermsTyped, LogsTyped, VoteStep, AcksTyped
    <2>2. Leading(l) /\ l # g
        <3>1. l # g
            BY <1>1 DEF Replicated, Leading
        <3>2. Same(l)
            BY <3>1, OthersKept DEF Replicated
        <3>3. QED BY <3>1, <3>2, <1>1 DEF Same, Leading
    <2>3. /\ node[f].term <= node[l].term => node[l].matched[f] <= last_index(node[f].core)
          /\ node[l].matched[f] # 0 => node[f].term >= node[l].term
        BY <1>1, <2>2 DEF MInv, AcksHeld, AcksInTerm
    <2>4. CASE f # g
        <3>1. node'[l].matched[f] = node[l].matched[f]
            <4>1. CASE l = k
                BY <4>1, <2>4 DEF Replicated, Acked, AcksTyped
            <4>2. CASE l # k
                BY <4>2, <2>2, OthersKept DEF Replicated
            <4>3. QED BY <4>1, <4>2
        <3>2. Kept(f)
            BY <2>4, OthersKept DEF Replicated
        <3>3. last_index(node'[f].core) = last_index(node[f].core)
            BY <3>2 DEF Kept, Cut
        <3>4. QED BY <2>1, <2>3, <3>1, <3>3
    <2>5. CASE f = g /\ l = k
        <3>1. node'[f].term = node[l].term
            BY <2>5 DEF Replicated
        <3>2. node[l].matched[f] <= last_index(node'[f].core)
            <4>1. CASE Kept(f)
                BY <4>1, <2>1, <2>3, <3>1 DEF Kept, Cut
            <4>2. CASE Took(f, l)
                <5>1. Good(Data, SnapData, node[l].core)
                    BY MemberParts
                <5>2. \E p \in Nat : node[l].matched[f] <= p /\ last_index(node'[f].core) = p + 1
                    BY <4>2, <5>1, TookTraces
                <5>3. QED BY <5>2, <2>1
            <4>3. CASE Installed(f, l)
                BY <4>3, <2>1 DEF Installed, LogsTyped
            <4>4. QED BY <2>5, <4>1, <4>2, <4>3 DEF Replicated
        <3>3. CASE node'[l].matched = node[l].matched
            BY <3>1, <3>2, <3>3, <2>1
        <3>4. CASE \E j \in Nat :
                     /\ j <= last_index(node'[f].core)
                     /\ node'[l].matched = [node[l].matched EXCEPT ![f] = IF j > @ THEN j ELSE @]
            <4>1. PICK j \in Nat :
                     /\ j <= last_index(node'[f].core)
                     /\ node'[l].matched = [node[l].matched EXCEPT ![f] = IF j > @ THEN j ELSE @]
                BY <3>4
            <4>2. node'[l].matched[f] = IF j > node[l].matched[f] THEN j ELSE node[l].matched[f]
                BY <4>1 DEF AcksTyped
            <4>3. QED BY <4>1, <4>2, <3>1, <3>2, <2>1
        <3>5. QED BY <2>5, <3>3, <3>4 DEF Replicated, Acked
    <2>6. CASE f = g /\ l # k
        <3>1. node'[l].matched = node[l].matched
            BY <2>2, <2>6, OthersKept DEF Replicated
        <3>2. /\ node'[f].term = node'[k].term /\ Leading(k)'
              /\ node'[k].term = node[k].term /\ node[k].term \in Nat
            BY <2>6 DEF Replicated, Same, Leading, TermsTyped
        <3>3. node'[k].term # node'[l].term
            BY <3>2, <2>6, <1>1 DEF VInv, OneLeader
        <3>4. QED BY <3>1, <3>2, <3>3, <2>1, <2>3
    <2>7. QED BY <2>4, <2>5, <2>6
<1>2. QED BY <1>1 DEF MInv, AcksHeld, AcksInTerm

\* With the acknowledgements in order no heartbeat carries a commit index past
\* the end of a follower's log.
LEMMA NoHeartbeatPanics ==
    ASSUME CInv, MInv, NEW l \in Node, NEW f \in Node
    PROVE  ~HeartbeatPanics(l, f)
<1> SUFFICES ASSUME HeartbeatPanics(l, f) PROVE FALSE
    OBVIOUS
<1>1. Leading(l) /\ l # f /\ node[l].term >= node[f].term
      /\ HeartbeatCommit(l, f) > last_index(node[f].core)
    BY DEF HeartbeatPanics, Hears, Leads, Leading
<1>2. /\ node[l].term \in Nat /\ node[f].term \in Nat /\ last_index(node[f].core) \in Nat
      /\ node[l].matched \in [Node -> Nat] /\ node[l].commit \in Nat
    BY MemberParts
<1>3. node[l].matched[f] <= last_index(node[f].core)
    BY <1>1, <1>2 DEF MInv, AcksHeld
<1>4. node[l].matched[f] \in Nat
    BY <1>2
<1>5. QED BY <1>1, <1>2, <1>3, <1>4 DEF HeartbeatCommit, LesserOf
-----------------------------------------------------------------------------
(***************************************************************************)
(* The whole invariant, and every action.                                  *)
(***************************************************************************)
AllUp == \A n \in Node : status[n] = "up"

EInv == restarts = 0 => AllUp /\ VInv /\ LInv /\ MInv

Elections == VInv /\ LInv /\ MInv

\* A step of one of the kinds above.
LEMMA QuietStepKeeps ==
    ASSUME CInv, CInv', Elections, \A n \in Node : Calm(n),
           \A n \in Node : Kept(n) /\ (Leading(n) => node'[n].matched = node[n].matched)
    PROVE  Elections'
<1>1. TermsTyped /\ LogsTyped /\ AcksTyped
    BY StepTyped, StepLogsTyped, StepAcksTyped
<1>2. VoteStep /\ VInv'
    BY <1>1, CalmIsVoteStep, VoteStepKeeps DEF Elections
<1>3. LInv'
    BY <1>1, <1>2, KeptKeeps DEF Elections
<1>4. MInv'
    <2>1. \A n \in Node : last_index(node[n].core) <= last_index(node'[n].core)
        BY <1>1 DEF Kept, Cut, LogsTyped
    <2>2. ASSUME NEW l \in Node, Leading(l)'
          PROVE  Leading(l) /\ node'[l].matched = node[l].matched
        BY <2>2 DEF Calm, Same, Steps, Leading
    <2>3. QED BY <1>1, <1>2, <2>1, <2>2, LongerKeepsAcks DEF Elections
<1>5. QED BY <1>2, <1>3, <1>4 DEF Elections

LEMMA CampaignKeeps ==
    ASSUME CInv, CInv', Elections, NEW n \in Node, Campaign(n)
    PROVE  Elections'
<1>1. TermsTyped /\ LogsTyped /\ AcksTyped
    BY StepTyped, StepLogsTyped, StepAcksTyped
<1>2. VoteStep /\ VInv'
    BY <1>1, CampaignVotes, VoteStepKeeps DEF Elections
<1>3. /\ \A k \in Node : Kept(k)
      /\ \A k \in Node : k # n => Same(k) /\ node'[k].matched = node[k].matched
      /\ ~Leading(n)'
    BY CampaignEffect, OthersKept
<1>4. LInv'
    BY <1>1, <1>2, <1>3, KeptKeeps DEF Elections
<1>5. MInv'
    <2>1. \A k \in Node : last_index(node[k].core) <= last_index(node'[k].core)
        BY <1>1, <1>3 DEF Kept, Cut, LogsTyped
    <2>2. ASSUME NEW l \in Node, Leading(l)'
          PROVE  Leading(l) /\ node'[l].matched = node[l].matched
        BY <2>2, <1>3 DEF Same, Leading
    <2>3. QED BY <1>1, <1>2, <2>1, <2>2, LongerKeepsAcks DEF Elections
<1>6. QED BY <1>2, <1>4, <1>5 DEF Elections

LEMMA RequestVoteKeeps ==
    ASSUME CInv, CInv', Elections, NEW c \in Node, NEW v \in Node, RequestVote(c, v)
    PROVE  Elections'
<1>1. TermsTyped /\ LogsTyped /\ AcksTyped
    BY StepTyped, StepLogsTyped, StepAcksTyped
<1>2. VoteStep /\ VInv'
    BY <1>1, RequestVoteVotes, VoteStepKeeps DEF Elections
<1>3. /\ Only(c, v) /\ Kept(v)
      /\ \/ Kept(c) /\ ~Leading(c)'
         \/ Leading(c)' /\ Grew(c) /\ node'[c].matched = [f \in Node |-> 0]
    BY RequestVoteLogs DEF Elections
<1>4. \A k \in Node : k # c => Kept(k)
    BY <1>3, OthersKept
<1>5. LInv'
    BY <1>1, <1>2, <1>3, <1>4, KeptKeeps, GrewKeeps DEF Elections
<1>6. MInv'
    <2>1. ASSUME NEW k \in Node
          PROVE  last_index(node[k].core) <= last_index(node'[k].core)
        <3>1. CASE Kept(k)
            BY <3>1, <1>1 DEF Kept, Cut, LogsTyped
        <3>2. CASE Grew(k)
            BY <3>2, <1>1, GrewTraces DEF LogsTyped
        <3>3. QED BY <3>1, <3>2, <1>3, <1>4
    <2>2. ASSUME NEW l \in Node, Leading(l)'
          PROVE  \/ Leading(l) /\ node'[l].matched = node[l].matched
                 \/ node'[l].matched = [f \in Node |-> 0]
        <3>1. CASE l = c
            BY <3>1, <2>2, <1>3
        <3>2. CASE l = v /\ l # c
            BY <3>2, <2>2, RequestVoteLogs DEF Elections
        <3>3. CASE l # v /\ l # c
            BY <3>3, <2>2, <1>3, OthersKept DEF Same, Leading
        <3>4. QED BY <3>1, <3>2, <3>3
    <2>3. QED BY <1>1, <1>2, <2>1, <2>2, LongerKeepsAcks DEF Elections
<1>7. QED BY <1>2, <1>5, <1>6 DEF Elections

LEMMA ReplicatedKeepsAll ==
    ASSUME CInv, CInv', Elections, NEW l \in Node, NEW f \in Node, Replicated(l, f)
    PROVE  Elections'
<1>1. TermsTyped /\ LogsTyped /\ AcksTyped
    BY StepTyped, StepLogsTyped, StepAcksTyped
<1>2. \A n \in Node : Calm(n)
    BY OthersKept DEF Replicated, Calm
<1>3. VoteStep /\ VInv'
    BY <1>1, <1>2, CalmIsVoteStep, VoteStepKeeps DEF Elections
<1>4. LInv' /\ MInv'
    BY <1>1, <1>3, ReplicatedKeeps, ReplicatedKeepsAcks DEF Elections
<1>5. QED BY <1>3, <1>4 DEF Elections

LEMMA ProposeKeeps ==
    ASSUME CInv, CInv', Elections, NEW n \in Node, Leading(n),
           Only(n, n), Same(n), Grew(n), node'[n].matched = node[n].matched
    PROVE  Elections'
<1>1. TermsTyped /\ LogsTyped /\ AcksTyped
    BY StepTyped, StepLogsTyped, StepAcksTyped
<1>2. /\ \A k \in Node : Calm(k) /\ node'[k].matched = node[k].matched
      /\ \A k \in Node : k # n => Kept(k)
    BY OthersKept DEF Calm
<1>3. VoteStep /\ VInv'
    BY <1>1, <1>2, CalmIsVoteStep, VoteStepKeeps DEF Elections
<1>4. Leading(n)'
    BY DEF Same, Leading
<1>5. LInv'
    BY <1>1, <1>2, <1>3, <1>4, GrewKeeps DEF Elections
<1>6. MInv'
    <2>1. ASSUME NEW k \in Node
          PROVE  last_index(node[k].core) <= last_index(node'[k].core)
        <3>1. CASE Kept(k)
            BY <3>1, <1>1 DEF Kept, Cut, LogsTyped
        <3>2. CASE Grew(k)
            BY <3>2, <1>1, GrewTraces DEF LogsTyped
        <3>3. QED BY <3>1, <3>2, <1>2
    <2>2. ASSUME NEW l \in Node, Leading(l)'
          PROVE  Leading(l) /\ node'[l].matched = node[l].matched
        BY <2>2, <1>2 DEF Calm, Same, Steps, Leading
    <2>3. QED BY <1>1, <1>3, <2>1, <2>2, LongerKeepsAcks DEF Elections
<1>7. QED BY <1>3, <1>5, <1>6 DEF Elections

\* At the start, nobody was elected, or the only member was.
LEMMA StartedAlone ==
    ASSUME NEW n \in Node, N = 1, NEW m, m = Started(n, New(0), EmptyStore)
    PROVE  /\ m.role = "leader" /\ m.term = 1 /\ m.vote = n
           /\ \A i \in Held(m.core) : At(m.core, i).term \in {0, 1}
<1> DEFINE nd == BootNode(New(0), EmptyStore)
           cd == become_candidate(nd, n)
           ld == become_leader(cd, n)
           x  == <<ld, NextEntry(ld, NoData), NoSnapshot>>
<1>1. EmptyStore \in Stores /\ NoData \in Data
    BY DEF EmptyStore, Stores, Data
<1>2. /\ Settled(nd) /\ nd \in NodeType /\ nd.term = 0 /\ nd.core = New(0)
    <2>1. New(0).offset <= New(0).hs.commit /\ New(0).hs.commit <= last_index(New(0))
        BY NewStorage
    <2>2. QED BY <1>1, <2>1, NewStorage, BootEffect
<1> HIDE DEF nd
<1>3. /\ cd \in NodeType /\ cd.core = nd.core /\ cd.applied = nd.applied
      /\ cd.commit = nd.commit /\ cd.term = 1 /\ cd.vote = n
    BY <1>2, CandidateEffect
<1> HIDE DEF cd
<1>4. /\ ld \in NodeType /\ ld.core = nd.core /\ ld.applied = nd.applied
      /\ ld.commit = nd.commit /\ ld.role = "leader" /\ ld.term = 1 /\ ld.vote = n
    BY <1>3, LeaderEffect
<1> HIDE DEF ld
<1>5. PICK e : e = Entry(last_index(nd.core) + 1, ld.term, NoData)
    OBVIOUS
<1>6. SoundReady(x) /\ NextEntry(ld, NoData) = <<e>>
    BY <1>1, <1>2, <1>4, <1>5, NextEntryReady
<1>7. x[1] = ld /\ x[2] = <<e>> /\ x[3] = NoSnapshot
    BY <1>6
<1>8. m = After(x)
    BY DEF Started, After, nd, cd, ld
<1> HIDE DEF x
<1>9. /\ m.role = "leader" /\ m.term = 1 /\ m.vote = n
      /\ LogAfter(nd.core, <<e>>, NoSnapshot, m.core)
    BY <1>4, <1>6, <1>7, <1>8, TurnIsSound
<1>10. \A i \in Held(nd.core) : At(nd.core, i).term = 0
    BY <1>2 DEF New, Held, At, last_index, Entry
<1>11. e.term = 1 /\ <<e>> # <<>> /\ <<e>>[1] = e /\ NoSnapshot.index = 0
    BY <1>4, <1>5 DEF Entry, NoSnapshot, Snapshot
<1>12. QED BY <1>9, <1>10, <1>11 DEF LogAfter

LEMMA InitElections ==
    ASSUME Init
    PROVE  AllUp /\ Elections
<1>1. AllUp
    BY DEF Init, AllUp
<1>2. CASE N # 1
    <2>1. ASSUME NEW n \in Node
          PROVE  node[n] = BootNode(New(0), EmptyStore)
        BY <1>2 DEF Init, Started
    <2>2. \A n \in Node : /\ node[n].role = "follower" /\ node[n].core = New(0)
        BY <2>1 DEF BootNode
    <2>3. \A i \in Held(New(0)) : At(New(0), i).term = 0
        BY DEF New, Held, At, last_index, Entry
    <2>4. VInv /\ MInv
        BY <2>2 DEF VInv, OwnVote, VotesBacked, VotesDisjoint, LeadersWon, OneLeader,
                    Leading, Standing, MInv, AcksHeld, AcksInTerm
    <2>5. EntriesWon /\ LeaderLongest
        BY <2>2, <2>3 DEF EntriesWon, LeaderLongest, Leading
    <2>6. LogsMatch
        BY <2>2 DEF LogsMatch, Match, SameAt
    <2>7. QED BY <1>1, <2>4, <2>5, <2>6 DEF Elections, LInv
<1>3. CASE N = 1
    <2>1. Node = {1}
        BY <1>3 DEF Node
    <2>2. /\ node[1].role = "leader" /\ node[1].term = 1 /\ node[1].vote = 1
          /\ \A i \in Held(node[1].core) : At(node[1].core, i).term \in {0, 1}
        <3>1. node[1] = Started(1, New(0), EmptyStore)
            BY <2>1 DEF Init
        <3>2. QED BY <2>1, <3>1, <1>3, StartedAlone
    <2>3. Majority({1})
        <3>1. Cardinality({1}) = 1
            BY FS_Singleton
        <3>2. QED BY <3>1, <1>3 DEF Majority
    <2>4. Won(1, 1)
        <3>1. Backs(1, 1, 1) /\ Unrivalled(1, 1, 1)
            BY <2>1, <2>2 DEF Backs, Unrivalled
        <3>2. QED BY <2>1, <2>2, <2>3, <3>1 DEF Won, Leading
    <2>5. VInv
        BY <2>1, <2>2, <2>4 DEF VInv, OwnVote, VotesBacked, VotesDisjoint, LeadersWon,
                                OneLeader, Leading, Standing
    <2>6. EntriesWon
        BY <2>1, <2>2, <2>4 DEF EntriesWon
    <2>7. LeaderLongest
        <3>1. \A i \in Held(node[1].core) : i <= last_index(node[1].core)
            <4>1. Good(Data, SnapData, node[1].core)
                BY <2>1, InitSound, MemberParts
            <4>2. QED BY <4>1, LogNumbers DEF Held
        <3>2. QED BY <2>1, <3>1 DEF LeaderLongest
    <2>8. LogsMatch
        BY <2>1 DEF LogsMatch, Match, SameAt
    <2>9. MInv
        BY <2>1 DEF MInv, AcksHeld, AcksInTerm
    <2>10. QED BY <1>1, <2>5, <2>6, <2>7, <2>8, <2>9 DEF Elections, LInv
<1>4. QED BY <1>2, <1>3

\* A step that leaves the members alone.
LEMMA NothingKeeps ==
    ASSUME CInv, CInv', Elections, \A n \in Node : node'[n] = node[n]
    PROVE  Elections'
<1>1. ASSUME NEW n \in Node
      PROVE  Calm(n) /\ Kept(n) /\ node'[n].matched = node[n].matched
    <2>1. Good(Data, SnapData, node[n].core)
        BY MemberParts
    <2>2. QED BY <2>1, LogKept DEF Calm, Same, Kept
<1>2. QED BY <1>1, QuietStepKeeps

LEMMA NextKeeps ==
    ASSUME CInv, CInv', EInv, [Next]_vars
    PROVE  EInv'
<1> SUFFICES ASSUME restarts' = 0 PROVE AllUp' /\ Elections'
    BY DEF EInv, Elections
<1>1. restarts = 0 /\ \A n \in Node : ~Restart(n)
    <2>1. restarts \in Nat
        BY BoundsAssumption DEF CInv, TypeOK
    <2>2. \A n \in Node : ~Restart(n)
        BY <2>1 DEF Restart
    <2>3. QED BY <2>2 DEF Next, vars, Campaign, RequestVote, TransferLeader, TransferTimesOut,
        AppendEntry, Heartbeat, HeartbeatPanics, SendSnapshot, PutFlagfile, ForwardWrite,
        ProposeAsLeader, ProposeAsFollower, ProposalDropped, ProbePeer, BootstrapAndStart
<1>2. AllUp /\ Elections
    BY <1>1 DEF EInv, Elections
<1>3. \A n \in Node : ~ProbePeer(n) /\ ~BootstrapAndStart(n)
    BY <1>2 DEF AllUp, ProbePeer, BootstrapAndStart
<1>4. \A l, f \in Node : ~HeartbeatPanics(l, f)
    BY <1>2, NoHeartbeatPanics DEF Elections
<1>5. ASSUME NEW n \in Node, Campaign(n) PROVE AllUp' /\ Elections'
    BY <1>2, <1>5, CampaignKeeps DEF Campaign, AllUp
<1>6. ASSUME NEW c \in Node, NEW v \in Node, RequestVote(c, v) PROVE AllUp' /\ Elections'
    BY <1>2, <1>6, RequestVoteKeeps DEF RequestVote, AllUp
<1>7. ASSUME NEW n \in Node, TransferLeader(n) \/ TransferTimesOut(n)
      PROVE  AllUp' /\ Elections'
    <2>1. \A k \in Node : Calm(k) /\ Kept(k) /\ node'[k].matched = node[k].matched
        BY <1>7, TransferEffect, OthersKept DEF Calm
    <2>2. QED BY <1>2, <1>7, <2>1, QuietStepKeeps DEF TransferLeader, TransferTimesOut, AllUp
<1>8. TermsTyped
    BY StepTyped
<1>9. ASSUME NEW l \in Node, NEW f \in Node, AppendEntry(l, f) PROVE AllUp' /\ Elections'
    BY <1>2, <1>8, <1>9, AppendEntryEffect, ReplicatedKeepsAll DEF AppendEntry, AllUp
<1>10. ASSUME NEW l \in Node, NEW f \in Node, Heartbeat(l, f) PROVE AllUp' /\ Elections'
    BY <1>2, <1>8, <1>10, HeartbeatEffect, ReplicatedKeepsAll DEF Heartbeat, AllUp
<1>11. ASSUME NEW l \in Node, NEW f \in Node, SendSnapshot(l, f) PROVE AllUp' /\ Elections'
    BY <1>2, <1>8, <1>11, SendSnapshotEffect, ReplicatedKeepsAll DEF SendSnapshot, AllUp
<1>12. ASSUME NEW w \in Write, ProposeAsLeader(w) \/ ProposeAsFollower(w)
       PROVE  AllUp' /\ Elections'
    <2>1. /\ UNCHANGED status
          /\ \/ \E n \in Node :
                   /\ Leads(n)
                   /\ Turns(One(n, <<node[n], NextEntry(node[n], w), NoSnapshot>>), Proposed(w))
             \/ Turns(<<>>, Proposed(w))
        BY <1>12, ProposalTurns
    <2>2. ASSUME NEW n \in Node, Leads(n),
                 Turns(One(n, <<node[n], NextEntry(node[n], w), NoSnapshot>>), Proposed(w))
          PROVE  Elections'
        BY <2>2, <1>2, ProposeEffect, ProposeKeeps DEF Leads, Leading
    <2>3. ASSUME Turns(<<>>, Proposed(w)) PROVE Elections'
        <3>1. node' = [n \in Node |-> node[n]]
            BY <2>3, TurnsEffect
        <3>2. \A n \in Node : node'[n] = node[n]
            BY <3>1
        <3>3. QED BY <3>2, <1>2, NothingKeeps
    <2>4. QED BY <2>1, <2>2, <2>3, <1>2 DEF AllUp
<1>13. ASSUME node' = node, status' = status PROVE AllUp' /\ Elections'
    BY <1>2, <1>13, NothingKeeps DEF AllUp
<1>14. QED
    BY <1>1, <1>3, <1>4, <1>5, <1>6, <1>7, <1>9, <1>10, <1>11, <1>12, <1>13
    DEF Next, vars, PutFlagfile, ForwardWrite, ProposalDropped
-----------------------------------------------------------------------------
(***************************************************************************)
(* The theorems.                                                           *)
(***************************************************************************)
LEMMA ElectionsKept == Spec => []EInv
<1>1. Init => EInv
    BY InitElections DEF EInv, Elections
<1>2. CInv /\ CInv' /\ EInv /\ [Next]_vars => EInv'
    BY NextKeeps
<1>3. QED BY <1>1, <1>2, MembersSettled, PTL DEF Spec

\* As long as no member was restarted, at most one leads in a term: a quorum is
\* asked once, whatever is lost, late, transferred or campaigned for at once.
THEOREM OneLeaderPerTerm == Spec => [](restarts = 0 => ElectionSafety)
<1>1. EInv => (restarts = 0 => ElectionSafety)
    BY DEF EInv, VInv, OneLeader, ElectionSafety, Leads, Leading
<1>2. QED BY <1>1, ElectionsKept, PTL

\* As long as no member was restarted, logs that have the same term at an index
\* have the same entries up to there, as far down as both still hold them.
THEOREM LogsAgree == Spec => [](restarts = 0 => LogMatching)
<1>1. CInv /\ EInv => (restarts = 0 => LogMatching)
    <2> SUFFICES ASSUME CInv, EInv, restarts = 0, NEW m \in Node, NEW n \in Node,
                        NEW c, c = node[m].core, NEW d, d = node[n].core,
                        NEW lo, lo = GreaterOf(c.offset, d.offset) + 1,
                        NEW i \in lo .. LesserOf(last_index(c), last_index(d)),
                        term(c, i) = term(d, i)
                 PROVE  EntriesFrom(c, lo, i + 1) = EntriesFrom(d, lo, i + 1)
        BY DEF LogMatching
    <2>1. Match(c, d)
        BY DEF EInv, LInv, LogsMatch
    <2>2. Good(Data, SnapData, c) /\ Good(Data, SnapData, d)
        BY MemberParts
    <2>3. /\ c.offset \in Nat /\ d.offset \in Nat
          /\ last_index(c) \in Nat /\ last_index(d) \in Nat
        BY <2>2, LogNumbers
    <2>4. lo \in Nat /\ c.offset < lo /\ d.offset < lo
        BY <2>3 DEF GreaterOf
    <2>5. i \in Nat /\ lo <= i /\ i <= last_index(c) /\ i <= last_index(d)
        BY <2>3, <2>4 DEF LesserOf
    <2>6. PICK a \in Nat, k \in Nat : a = lo /\ k = i + 1 - lo /\ a + k = i + 1
        BY <2>4, <2>5
    <2> DEFINE es == EntriesFrom(c, a, a + k)
               fs == EntriesFrom(d, a, a + k)
    <2>7. /\ es \in Seq(EntryType(Data)) /\ Len(es) = k
          /\ \A q \in 1..k : es[q] = At(c, a + q - 1)
        <3>1. c.offset <= a /\ a + k <= last_index(c) + 1
            BY <2>3, <2>4, <2>5, <2>6
        <3>2. QED BY <2>2, <3>1, EntriesOneByOne
    <2>8. /\ fs \in Seq(EntryType(Data)) /\ Len(fs) = k
          /\ \A q \in 1..k : fs[q] = At(d, a + q - 1)
        <3>1. d.offset <= a /\ a + k <= last_index(d) + 1
            BY <2>3, <2>4, <2>5, <2>6
        <3>2. QED BY <2>2, <3>1, EntriesOneByOne
    <2> HIDE DEF es, fs
    <2>9. ASSUME NEW q \in 1..k PROVE es[q] = fs[q]
        <3>1. PICK j \in Nat : j = a + q - 1
            BY <2>6
        <3>2. /\ j \in Held(c) /\ j \in Held(d) /\ j <= i /\ j > c.offset /\ j > d.offset
              /\ i \in Held(c) /\ i \in Held(d)
            BY <3>1, <2>3, <2>4, <2>5, <2>6 DEF Held
        <3>3. At(c, i).term = At(d, i).term
            BY <3>2, <2>2, LogNumbers
        <3>4. SameAt(c, d, j)
            BY <3>2, <3>3, <2>1 DEF Match
        <3>5. At(c, j) = At(d, j)
            BY <3>2, <3>4 DEF SameAt
        <3>6. QED BY <3>1, <3>5, <2>7, <2>8
    <2>10. es = fs
        BY <2>7, <2>8, <2>9, SeqEqual
    <2>11. QED BY <2>6, <2>10 DEF es, fs
<1>2. QED BY <1>1, MembersSettled, ElectionsKept, PTL

\* As long as no member was restarted, no heartbeat carries a commit index past
\* the end of a log: no loop panics.
THEOREM NobodyPanics == Spec => [](restarts = 0 => NoPanic)
<1>1. EInv => (restarts = 0 => NoPanic)
    BY DEF EInv, AllUp, NoPanic
<1>2. QED BY <1>1, ElectionsKept, PTL
=============================================================================
