-------------------------- MODULE RaftAgreementProofs --------------------------
(***************************************************************************)
(* Proofs about RaftCluster: what is committed stays committed and is the  *)
(* same everywhere (leader completeness), so no two members apply          *)
(* different commands at an index.                                         *)
(*                                                                         *)
(* The argument is about whole logs.  A member compacts its log and a      *)
(* snapshot replaces it, so the invariant says that there are logs F, one  *)
(* for each member, of which the storages hold the upper ends.  Of F[n]    *)
(* only the entries at 0..Last(n) count.                                   *)
(***************************************************************************)
EXTENDS RaftElectionProofs

Logs    == [Node -> [Nat -> EntryType(Data)]]
Last(n) == last_index(node[n].core)

\* A log's entry at j is one of term t.
Holds(F, m, j, t) == j <= Last(m) /\ F[m][j].term = t

\* Two logs are the same up to k.
Agree(f, g, k) == \A i \in 0..k : f[i] = g[i]

(***************************************************************************)
(* The shape of the logs: one root; the same term at an index means the    *)
(* same log up to there; terms grow along a log, up to the member's own,   *)
(* and were won; the entries of one term are the same run of indices, from *)
(* its first one on, in every log that has them.                           *)
(***************************************************************************)
Rooted(F)   == \A n \in Node : F[n][0] = Entry(0, 0, NoData)
Matching(F) ==
    \A m, n \in Node : \A i \in 0..Last(m) :
        i <= Last(n) /\ F[m][i].term = F[n][i].term => Agree(F[m], F[n], i)
Ordered(F)  ==
    \A n \in Node : \A i \in 0..Last(n) :
        F[n][i].term <= node[n].term /\ \A j \in 0..i : F[n][j].term <= F[n][i].term
TermsWon(F) ==
    \A n \in Node : \A i \in 0..Last(n) :
        F[n][i].term # 0 => \E x \in Node : Won(F[n][i].term, x)
Runs(F)     ==
    \A m, n \in Node : \A i \in 0..Last(m), j \in 0..Last(n) :
        F[m][i].term = F[n][j].term /\ j <= i => F[m][j].term = F[m][i].term

\* A leader has every entry of its term, and its last entry is one.
Owns(F)    == \A l, m \in Node : Leading(l) =>
                 \A i \in 0..Last(m) :
                    F[m][i].term = node[l].term => Holds(F, l, i, node[l].term)
LastOwn(F) == \A l \in Node : Leading(l) => F[l][Last(l)].term = node[l].term

Shape(F) == /\ Rooted(F) /\ Matching(F) /\ Ordered(F) /\ TermsWon(F) /\ Runs(F)
            /\ Owns(F) /\ LastOwn(F)
-----------------------------------------------------------------------------
(***************************************************************************)
(* What a step makes of the logs, F before it and G after it.  Every entry *)
(* was, with all below it, in some log of a term that is no greater, or is *)
(* a leader's new one.                                                     *)
(***************************************************************************)
Borrowed(F, G, m, i) ==
    \E b \in Node : /\ i <= Last(b) /\ node[b].term <= node'[m].term
                    /\ Agree(G[m], F[b], i)

Fresh(F, G, m, i) ==
    /\ Leading(m)' /\ i = Last(m)' /\ i = Last(m) + 1
    /\ G[m][i].term = node'[m].term /\ Agree(G[m], F[m], Last(m))

Sourced(F, G) == \A m \in Node : \A i \in 0..Last(m)' : Borrowed(F, G, m, i) \/ Fresh(F, G, m, i)

\* A leader's log stays, or grows by one entry of its term; it grows when it is elected.
LeadersAppend(F, G) ==
    \A l \in Node : Leading(l)' =>
        /\ node'[l].term = node[l].term /\ node[l].term # 0
        /\ Agree(G[l], F[l], Last(l))
        /\ \/ Leading(l) /\ Last(l)' = Last(l)
           \/ /\ Leading(l) \/ Wins(l)
              /\ Last(l)' = Last(l) + 1 /\ G[l][Last(l)'].term = node'[l].term

\* The numbers of a step.
Numbers ==
    \A n \in Node : /\ Last(n) \in Nat /\ Last(n)' \in Nat
                    /\ node[n].commit \in Nat /\ node'[n].commit \in Nat
                    /\ node[n].commit <= Last(n) /\ node'[n].commit <= Last(n)'

Terms(F) == \A n \in Node, i \in Nat : F[n][i].term \in Nat

LEMMA LogsHaveTerms ==
    ASSUME NEW F \in Logs
    PROVE  Terms(F)
    BY DEF Logs, Terms, EntryType

LEMMA StepNumbers ==
    ASSUME CInv, CInv'
    PROVE  Numbers
<1>1. ASSUME NEW n \in Node PROVE Last(n) \in Nat /\ node[n].commit \in Nat /\ node[n].commit <= Last(n)
    BY MemberParts DEF Last
<1>2. ASSUME NEW n \in Node PROVE Settled(node'[n])
    BY DEF CInv
<1>3. ASSUME NEW n \in Node
      PROVE  Last(n)' \in Nat /\ node'[n].commit \in Nat /\ node'[n].commit <= Last(n)'
    <2>1. node'[n] \in NodeType /\ Good(Data, SnapData, node'[n].core)
          /\ node'[n].commit <= last_index(node'[n].core)
        BY <1>2 DEF Settled
    <2>2. QED BY <2>1, LogNumbers, NodeParts DEF Last
<1>4. QED BY <1>1, <1>3 DEF Numbers

\* Nobody has an entry of the term of a member that is just elected.
LEMMA ElectedIsFirst ==
    ASSUME TermsTyped, Numbers, VoteStep, NEW F, Terms(F), TermsWon(F), NEW l \in Node, Wins(l),
           node[l].term # 0,
           NEW m \in Node, NEW i \in 0..Last(m), F[m][i].term = node[l].term
    PROVE  FALSE
<1>1. PICK x \in Node : Won(F[m][i].term, x)
    BY DEF TermsWon
<1>2. node[l].term \in Nat
    BY DEF TermsTyped
<1>3. QED BY <1>1, <1>2, WonOnce

\* A fresh entry is new: no log had one of that term at or above its index.
LEMMA FreshIsNew ==
    ASSUME TermsTyped, Numbers, VoteStep, NEW F, NEW G, Terms(F), TermsWon(F), Owns(F),
           LeadersAppend(F, G),
           NEW l \in Node, NEW i \in Nat, Fresh(F, G, l, i),
           NEW m \in Node, NEW k \in 0..Last(m), F[m][k].term = G[l][i].term
    PROVE  Leading(l) /\ k <= Last(l) /\ k < i /\ F[l][k].term = G[l][i].term
<1>1. /\ Leading(l)' /\ i = Last(l)' /\ i = Last(l) + 1 /\ G[l][i].term = node'[l].term
      /\ Last(l) \in Nat /\ k \in Nat
    BY DEF Fresh, Numbers
<1>2. /\ node'[l].term = node[l].term /\ node[l].term # 0
      /\ Leading(l) \/ Wins(l)
    BY <1>1 DEF LeadersAppend
<1>3. ~Wins(l)
    BY <1>1, <1>2, ElectedIsFirst
<1>4. Holds(F, l, k, node[l].term)
    BY <1>1, <1>2, <1>3 DEF Owns
<1>5. QED BY <1>1, <1>2, <1>3, <1>4 DEF Holds
-----------------------------------------------------------------------------
(***************************************************************************)
(* Such a step keeps the shape of the logs.                                *)
(***************************************************************************)
LogStep(F, G) ==
    /\ TermsTyped /\ Numbers /\ VInv /\ VInv' /\ VoteStep
    /\ Terms(F) /\ Terms(G) /\ Shape(F)
    /\ Sourced(F, G) /\ LeadersAppend(F, G)

LEMMA FreshParts ==
    ASSUME NEW F, NEW G, LogStep(F, G), NEW l \in Node, NEW i \in Nat, Fresh(F, G, l, i)
    PROVE  /\ Leading(l)' /\ i = Last(l) + 1 /\ i = Last(l)' /\ Last(l) \in Nat
           /\ node'[l].term = node[l].term /\ node[l].term \in Nat /\ node[l].term # 0
           /\ G[l][i].term = node[l].term /\ Agree(G[l], F[l], Last(l))
           /\ \A m \in Node : \A k \in 0..Last(m) : F[m][k].term = node[l].term =>
                Leading(l) /\ k <= Last(l) /\ k < i /\ F[l][k].term = node[l].term
<1>1. /\ Leading(l)' /\ i = Last(l) + 1 /\ i = Last(l)' /\ Last(l) \in Nat
      /\ node'[l].term = node[l].term /\ node[l].term \in Nat /\ node[l].term # 0
      /\ G[l][i].term = node[l].term /\ Agree(G[l], F[l], Last(l))
    BY DEF Fresh, LogStep, LeadersAppend, TermsTyped, Numbers
<1>2. ASSUME NEW m \in Node, NEW k \in 0..Last(m), F[m][k].term = node[l].term
      PROVE  Leading(l) /\ k <= Last(l) /\ k < i /\ F[l][k].term = node[l].term
    BY <1>1, <1>2, FreshIsNew DEF LogStep, Shape
<1>3. QED BY <1>1, <1>2

LEMMA MatchingKept ==
    ASSUME NEW F, NEW G, LogStep(F, G)
    PROVE  Matching(G)'
<1> SUFFICES ASSUME NEW m \in Node, NEW n \in Node, NEW i \in 0..Last(m)', i <= Last(n)',
                    G[m][i].term = G[n][i].term
             PROVE  Agree(G[m], G[n], i)
    BY DEF Matching
<1>1. i \in Nat /\ Last(m)' \in Nat /\ Last(n)' \in Nat /\ i \in 0..Last(n)'
    BY DEF LogStep, Numbers
<1>2. /\ Borrowed(F, G, m, i) \/ Fresh(F, G, m, i)
      /\ Borrowed(F, G, n, i) \/ Fresh(F, G, n, i)
    BY <1>1 DEF LogStep, Sourced
<1>3. ASSUME NEW a \in Node, NEW b \in Node, Borrowed(F, G, a, i), Fresh(F, G, b, i)
      PROVE  G[a][i].term # G[b][i].term
    <2>1. PICK c \in Node : i <= Last(c) /\ Agree(G[a], F[c], i)
        BY <1>3 DEF Borrowed
    <2>2. Last(c) \in Nat /\ i \in 0..Last(c)
        BY <1>1, <2>1 DEF LogStep, Numbers
    <2>3. G[a][i] = F[c][i]
        BY <1>1, <2>1 DEF Agree
    <2>4. QED BY <1>1, <1>3, <2>2, <2>3, FreshParts
<1>4. CASE Borrowed(F, G, m, i) /\ Borrowed(F, G, n, i)
    <2>1. PICK a \in Node : i <= Last(a) /\ Agree(G[m], F[a], i)
        BY <1>4 DEF Borrowed
    <2>2. PICK b \in Node : i <= Last(b) /\ Agree(G[n], F[b], i)
        BY <1>4 DEF Borrowed
    <2>3. i \in 0..Last(a) /\ F[a][i].term = F[b][i].term
        BY <1>1, <2>1, <2>2 DEF Agree, LogStep, Numbers
    <2>4. Agree(F[a], F[b], i)
        BY <2>2, <2>3 DEF LogStep, Shape, Matching
    <2>5. QED BY <2>1, <2>2, <2>4 DEF Agree
<1>5. CASE Fresh(F, G, m, i) /\ Fresh(F, G, n, i)
    <2>1. Leading(m)' /\ Leading(n)' /\ node'[m].term = node'[n].term
        BY <1>5 DEF Fresh
    <2>2. m = n
        BY <2>1 DEF LogStep, VInv, OneLeader
    <2>3. QED BY <2>2 DEF Agree
<1>6. QED BY <1>2, <1>3, <1>4, <1>5

LEMMA OrderedKept ==
    ASSUME NEW F, NEW G, LogStep(F, G)
    PROVE  Ordered(G)'
<1> SUFFICES ASSUME NEW n \in Node, NEW i \in 0..Last(n)'
             PROVE  /\ G[n][i].term <= node'[n].term
                    /\ \A j \in 0..i : G[n][j].term <= G[n][i].term
    BY DEF Ordered
<1>1. i \in Nat /\ Last(n)' \in Nat /\ Last(n) \in Nat
      /\ node[n].term \in Nat /\ node'[n].term \in Nat /\ node[n].term <= node'[n].term
    BY DEF LogStep, Numbers, TermsTyped, VoteStep
<1>2. CASE Borrowed(F, G, n, i)
    <2>1. PICK b \in Node : i <= Last(b) /\ node[b].term <= node'[n].term /\ Agree(G[n], F[b], i)
        BY <1>2 DEF Borrowed
    <2>2. /\ F[b][i].term <= node[b].term /\ F[b][i].term \in Nat /\ node[b].term \in Nat
          /\ \A j \in 0..i : F[b][j].term <= F[b][i].term
        BY <1>1, <2>1 DEF LogStep, Shape, Ordered, Numbers, Terms, TermsTyped
    <2>3. \A j \in 0..i : G[n][j] = F[b][j]
        BY <2>1 DEF Agree
    <2>4. G[n][i] = F[b][i]
        BY <1>1, <2>3
    <2>5. G[n][i].term <= node'[n].term
        BY <1>1, <2>1, <2>2, <2>4
    <2>6. QED BY <2>2, <2>3, <2>4, <2>5
<1>3. CASE Fresh(F, G, n, i)
    <2>1. /\ i = Last(n) + 1 /\ node'[n].term = node[n].term
          /\ G[n][i].term = node[n].term /\ Agree(G[n], F[n], Last(n))
        BY <1>1, <1>3, FreshParts
    <2>2. ASSUME NEW j \in 0..i PROVE G[n][j].term <= G[n][i].term
        <3>1. CASE j = i
            BY <3>1, <2>1, <1>1
        <3>2. CASE j # i
            <4>1. j \in 0..Last(n)
                BY <3>2, <2>1, <1>1
            <4>2. F[n][j].term <= node[n].term
                BY <4>1 DEF LogStep, Shape, Ordered
            <4>3. QED BY <4>1, <4>2, <2>1 DEF Agree
        <3>3. QED BY <3>1, <3>2
    <2>3. QED BY <2>1, <2>2, <1>1
<1>4. QED BY <1>2, <1>3 DEF LogStep, Sourced

LEMMA TermsWonKept ==
    ASSUME NEW F, NEW G, LogStep(F, G)
    PROVE  TermsWon(G)'
<1> SUFFICES ASSUME NEW n \in Node, NEW i \in 0..Last(n)', G[n][i].term # 0
             PROVE  \E x \in Node : Won(G[n][i].term, x)'
    BY DEF TermsWon
<1>1. i \in Nat /\ Last(n)' \in Nat
    BY DEF LogStep, Numbers
<1>2. CASE Borrowed(F, G, n, i)
    <2>1. PICK b \in Node : i <= Last(b) /\ Agree(G[n], F[b], i)
        BY <1>2 DEF Borrowed
    <2>2. i \in 0..Last(b) /\ G[n][i] = F[b][i] /\ F[b][i].term \in Nat
        BY <1>1, <2>1 DEF Agree, LogStep, Numbers, Terms
    <2>3. PICK x \in Node : Won(F[b][i].term, x)
        BY <2>2 DEF LogStep, Shape, TermsWon
    <2>4. Won(F[b][i].term, x)'
        BY <2>2, <2>3, WonStays DEF LogStep
    <2>5. QED BY <2>2, <2>4
<1>3. CASE Fresh(F, G, n, i)
    <2>1. Leading(n)' /\ G[n][i].term = node'[n].term
        BY <1>3 DEF Fresh
    <2>2. Won(node[n].term, n)'
        BY <2>1 DEF LogStep, VInv, LeadersWon
    <2>3. QED BY <2>1, <2>2 DEF Won
<1>4. QED BY <1>2, <1>3 DEF LogStep, Sourced

LEMMA RunsKept ==
    ASSUME NEW F, NEW G, LogStep(F, G)
    PROVE  Runs(G)'
<1> SUFFICES ASSUME NEW m \in Node, NEW n \in Node, NEW i \in 0..Last(m)', NEW j \in 0..Last(n)',
                    G[m][i].term = G[n][j].term, j <= i
             PROVE  G[m][j].term = G[m][i].term
    BY DEF Runs
<1>1. i \in Nat /\ j \in Nat /\ Last(m)' \in Nat /\ Last(n)' \in Nat
    BY DEF LogStep, Numbers
<1>2. /\ Borrowed(F, G, m, i) \/ Fresh(F, G, m, i)
      /\ Borrowed(F, G, n, j) \/ Fresh(F, G, n, j)
    BY DEF LogStep, Sourced
<1>3. ASSUME Borrowed(F, G, m, i), Borrowed(F, G, n, j) PROVE G[m][j].term = G[m][i].term
    <2>1. PICK a \in Node : i <= Last(a) /\ Agree(G[m], F[a], i)
        BY <1>3 DEF Borrowed
    <2>2. PICK b \in Node : j <= Last(b) /\ Agree(G[n], F[b], j)
        BY <1>3 DEF Borrowed
    <2>3. i \in 0..Last(a) /\ j \in 0..Last(b) /\ F[a][i].term = F[b][j].term
        BY <1>1, <2>1, <2>2 DEF Agree, LogStep, Numbers
    <2>4. F[a][j].term = F[a][i].term
        BY <2>3 DEF LogStep, Shape, Runs
    <2>5. QED BY <1>1, <2>1, <2>4 DEF Agree
<1>4. ASSUME Borrowed(F, G, m, i), Fresh(F, G, n, j) PROVE FALSE
    <2>1. PICK a \in Node : i <= Last(a) /\ Agree(G[m], F[a], i)
        BY <1>4 DEF Borrowed
    <2>2. i \in 0..Last(a) /\ F[a][i].term = G[n][j].term
        BY <1>1, <2>1 DEF Agree, LogStep, Numbers
    <2>3. i < j
        BY <1>1, <1>4, <2>2, FreshParts
    <2>4. QED BY <1>1, <2>3
<1>5. ASSUME Fresh(F, G, m, i), Borrowed(F, G, n, j) PROVE G[m][j].term = G[m][i].term
    <2>1. PICK b \in Node : j <= Last(b) /\ Agree(G[n], F[b], j)
        BY <1>5 DEF Borrowed
    <2>2. j \in 0..Last(b) /\ F[b][j].term = G[m][i].term
        BY <1>1, <2>1 DEF Agree, LogStep, Numbers
    <2>3. j <= Last(m) /\ F[m][j].term = G[m][i].term /\ Agree(G[m], F[m], Last(m))
        BY <1>1, <1>5, <2>2, FreshParts
    <2>4. j \in 0..Last(m)
        BY <1>1, <2>3 DEF LogStep, Numbers
    <2>5. QED BY <2>3, <2>4 DEF Agree
<1>6. ASSUME Fresh(F, G, m, i), Fresh(F, G, n, j) PROVE G[m][j].term = G[m][i].term
    <2>1. /\ Leading(m)' /\ Leading(n)' /\ node'[m].term = node'[n].term
          /\ i = Last(m)' /\ j = Last(n)'
        BY <1>6 DEF Fresh
    <2>2. m = n
        BY <2>1 DEF LogStep, VInv, OneLeader
    <2>3. QED BY <2>1, <2>2
<1>7. QED BY <1>2, <1>3, <1>4, <1>5, <1>6

LEMMA OwnsKept ==
    ASSUME NEW F, NEW G, LogStep(F, G)
    PROVE  Owns(G)' /\ LastOwn(G)'
<1>1. ASSUME NEW l \in Node, Leading(l)'
      PROVE  /\ Last(l) \in Nat /\ Last(l)' \in Nat /\ node'[l].term = node[l].term
             /\ Agree(G[l], F[l], Last(l))
             /\ (Leading(l) /\ Last(l)' = Last(l)) \/ Fresh(F, G, l, Last(l)')
    BY <1>1 DEF LogStep, LeadersAppend, Numbers, Fresh
<1>2. ASSUME NEW l \in Node, NEW m \in Node, Leading(l)', NEW i \in 0..Last(m)',
             G[m][i].term = node'[l].term
      PROVE  i <= Last(l)' /\ G[l][i].term = node'[l].term
    <2>1. i \in Nat /\ Last(m)' \in Nat
        BY DEF LogStep, Numbers
    <2>2. CASE Borrowed(F, G, m, i)
        <3>1. PICK b \in Node : i <= Last(b) /\ Agree(G[m], F[b], i)
            BY <2>2 DEF Borrowed
        <3>2. i \in 0..Last(b) /\ F[b][i].term = node[l].term
            BY <1>1, <1>2, <2>1, <3>1 DEF Agree, LogStep, Numbers
        <3>3. i <= Last(l) /\ F[l][i].term = node[l].term
            <4>1. CASE Leading(l)
                BY <3>2, <4>1 DEF LogStep, Shape, Owns, Holds
            <4>2. CASE Fresh(F, G, l, Last(l)')
                BY <1>1, <1>2, <3>2, <4>2, FreshParts
            <4>3. QED BY <1>1, <1>2, <4>1, <4>2
        <3>4. i \in 0..Last(l) /\ i <= Last(l)'
            <4>1. Last(l) <= Last(l)'
                BY <1>1, <1>2 DEF Fresh
            <4>2. QED BY <1>1, <1>2, <2>1, <3>3, <4>1
        <3>5. QED BY <1>1, <1>2, <3>3, <3>4 DEF Agree
    <2>3. CASE Fresh(F, G, m, i)
        <3>1. Leading(m)' /\ node'[m].term = node'[l].term /\ i = Last(m)'
            BY <1>2, <2>3 DEF Fresh
        <3>2. m = l
            BY <1>2, <3>1 DEF LogStep, VInv, OneLeader
        <3>3. QED BY <1>2, <3>1, <3>2, <2>1
    <2>4. QED BY <2>2, <2>3 DEF LogStep, Sourced
<1>3. Owns(G)'
    BY <1>2 DEF Owns, Holds
<1>4. ASSUME NEW l \in Node, Leading(l)' PROVE G[l][Last(l)'].term = node'[l].term
    <2>1. CASE Leading(l) /\ Last(l)' = Last(l)
        <3>1. F[l][Last(l)].term = node[l].term
            BY <2>1 DEF LogStep, Shape, LastOwn
        <3>2. QED BY <1>1, <1>4, <2>1, <3>1 DEF Agree
    <2>2. CASE Fresh(F, G, l, Last(l)')
        BY <2>2 DEF Fresh
    <2>3. QED BY <1>1, <1>4, <2>1, <2>2
<1>5. LastOwn(G)'
    BY <1>4 DEF LastOwn
<1>6. QED BY <1>3, <1>5

LEMMA RootedKept ==
    ASSUME NEW F, NEW G, LogStep(F, G)
    PROVE  Rooted(G)'
<1>1. ASSUME NEW n \in Node PROVE G[n][0] = Entry(0, 0, NoData)
    <2>1. 0 \in 0..Last(n)' /\ Last(n) \in Nat
        BY DEF LogStep, Numbers
    <2>2. CASE Borrowed(F, G, n, 0)
        BY <2>2 DEF Borrowed, Agree, LogStep, Shape, Rooted
    <2>3. CASE Fresh(F, G, n, 0)
        BY <2>1, <2>3 DEF Fresh
    <2>4. QED BY <2>1, <2>2, <2>3 DEF LogStep, Sourced
<1>2. QED BY <1>1 DEF Rooted

LEMMA ShapeKept ==
    ASSUME NEW F, NEW G, LogStep(F, G)
    PROVE  Shape(G)'
    BY MatchingKept, OrderedKept, TermsWonKept, RunsKept, OwnsKept, RootedKept DEF Shape
-----------------------------------------------------------------------------
(***************************************************************************)
(* Pledges.  A member that has the entry of term t at j pledges it: a      *)
(* candidate of a later term that has its vote has a log that is ahead.    *)
(* An entry a majority pledged, and that every log with an entry of a      *)
(* later term has, is chosen: no leader can be without it.                 *)
(***************************************************************************)
Later(F, c, j, t) == \/ F[c][Last(c)].term > t
                     \/ F[c][Last(c)].term = t /\ Last(c) >= j

Pledges(F, v, j, t) ==
    /\ node[v].term >= t /\ Holds(F, v, j, t)
    /\ \A c \in Node : Standing(c) /\ node[c].term > t /\ v \in node[c].votes => Later(F, c, j, t)

BelowLater(F, j, t) ==
    \A m \in Node : \A k \in 0..Last(m) : F[m][k].term > t => Holds(F, m, j, t)

\* g is a log, of which the entries at 0..j are chosen.
Chosen(F, g, j) ==
    /\ \E Q \in SUBSET Node : Majority(Q) /\ \A v \in Q : Pledges(F, v, j, g[j].term)
    /\ BelowLater(F, j, g[j].term)
    /\ \A m \in Node : Holds(F, m, j, g[j].term) => Agree(F[m], g, j)

\* What a step leaves of a log: all of it, or at least all that a leader has as well.
Retained(F, G) ==
    \A f \in Node :
        \/ Last(f) <= Last(f)' /\ Agree(G[f], F[f], Last(f))
        \/ \E l \in Node :
             /\ Leading(l) /\ node[f].term <= node[l].term /\ node'[f].term = node[l].term
             /\ \A j \in 0..Last(f) : j <= Last(l) /\ F[f][j].term = F[l][j].term =>
                    j <= Last(f)' /\ Agree(G[f], F[f], j)

\* c's log is not behind v's; v's vote for c was there, or is given on that ground.
Ahead(F, c, v)  == \/ F[c][Last(c)].term > F[v][Last(v)].term
                   \/ F[c][Last(c)].term = F[v][Last(v)].term /\ Last(c) >= Last(v)
Earned(F, c, v) == \/ Standing(c) /\ node[c].term = node'[c].term /\ v \in node[c].votes
                   \/ Ahead(F, c, v)

VotesEarned(F, G) ==
    /\ \A c \in Node : Standing(c)' =>
         /\ Last(c)' = Last(c) /\ Agree(G[c], F[c], Last(c))
         /\ \A v \in node'[c].votes : Earned(F, c, v)
    /\ \A c \in Node : Leading(c)' /\ ~Leading(c) =>
         \E V \in SUBSET Node : /\ Majority(V)
                                /\ \A v \in V : Earned(F, c, v) /\ node'[v].term >= node'[c].term

\* Where logs end and which terms members have reached, before a step.
Measured == \A n \in Node : Last(n) \in Nat /\ node[n].term \in Nat

\* A leader of a term that is not before t has the entry.
LEMMA LeadersHold ==
    ASSUME NEW F, Terms(F), Measured, Shape(F), NEW j \in Nat, NEW t \in Nat, BelowLater(F, j, t),
           NEW v \in Node, Holds(F, v, j, t),
           NEW l \in Node, Leading(l), node[l].term >= t
    PROVE  Holds(F, l, j, t)
<1>1. Last(l) \in 0..Last(l) /\ j \in 0..Last(v) /\ node[l].term \in Nat
    BY DEF Measured, Holds
<1>2. CASE node[l].term > t
    BY <1>1, <1>2 DEF Shape, LastOwn, BelowLater
<1>3. CASE node[l].term = t
    BY <1>1, <1>3 DEF Shape, Owns, Holds
<1>4. QED BY <1>1, <1>2, <1>3

\* A vote that was earned puts the candidate's log above what its voter pledged.
LEMMA EarnedIsLater ==
    ASSUME NEW F, Terms(F), Numbers, TermsTyped, Shape(F), NEW j \in Nat, NEW t \in Nat,
           NEW v \in Node, Pledges(F, v, j, t),
           NEW c \in Node, node'[c].term > t, Earned(F, c, v)
    PROVE  Later(F, c, j, t)
<1>1. CASE Standing(c) /\ node[c].term = node'[c].term /\ v \in node[c].votes
    BY <1>1 DEF Pledges
<1>2. CASE Ahead(F, c, v)
    <2>1. /\ Last(v) \in Nat /\ Last(c) \in Nat /\ j <= Last(v) /\ F[v][j].term = t
          /\ F[v][Last(v)].term \in Nat /\ F[c][Last(c)].term \in Nat
        BY DEF Numbers, Terms, Pledges, Holds
    <2>2. F[v][j].term <= F[v][Last(v)].term
        <3>1. Last(v) \in 0..Last(v) /\ j \in 0..Last(v)
            BY <2>1
        <3>2. QED BY <3>1 DEF Shape, Ordered
    <2>3. QED BY <1>2, <2>1, <2>2 DEF Ahead, Later
<1>3. QED BY <1>1, <1>2 DEF Earned

\* Whose log is above the entry has it.
LEMMA LaterHolds ==
    ASSUME NEW F, Terms(F), Numbers, TermsTyped, Shape(F), NEW j \in Nat, NEW t \in Nat, BelowLater(F, j, t),
           NEW v \in Node, Holds(F, v, j, t), NEW c \in Node, Later(F, c, j, t)
    PROVE  Holds(F, c, j, t)
<1>1. Last(c) \in 0..Last(c) /\ j \in 0..Last(v)
    BY DEF Numbers, Holds
<1>2. CASE F[c][Last(c)].term > t
    BY <1>1, <1>2 DEF BelowLater
<1>3. CASE F[c][Last(c)].term = t /\ Last(c) >= j
    <2>1. F[c][j].term = t
        BY <1>1, <1>3 DEF Shape, Runs, Holds
    <2>2. QED BY <1>1, <1>3, <2>1 DEF Holds
<1>4. QED BY <1>2, <1>3 DEF Later

\* The kinds of a step that the pledges rest on.
PledgeStep(F, G) == LogStep(F, G) /\ Retained(F, G) /\ VotesEarned(F, G)

LEMMA StepParts ==
    ASSUME NEW F, NEW G, PledgeStep(F, G)
    PROVE  /\ LogStep(F, G) /\ Retained(F, G) /\ VotesEarned(F, G)
           /\ TermsTyped /\ Numbers /\ Measured /\ VInv /\ VInv' /\ VoteStep
           /\ Terms(F) /\ Terms(G) /\ Shape(F) /\ Sourced(F, G) /\ LeadersAppend(F, G)
<1>1. TermsTyped /\ Numbers
    BY DEF PledgeStep, LogStep
<1>2. Measured
    BY <1>1 DEF TermsTyped, Numbers, Measured
<1>3. QED BY <1>1, <1>2 DEF PledgeStep, LogStep

LEMMA PledgeKept ==
    ASSUME NEW F, NEW G, PledgeStep(F, G), NEW j \in Nat, NEW t \in Nat, BelowLater(F, j, t),
           NEW v \in Node, Pledges(F, v, j, t)
    PROVE  Pledges(G, v, j, t)'
<1>1. /\ Last(v) \in Nat /\ Last(v)' \in Nat /\ node[v].term \in Nat /\ node'[v].term \in Nat
      /\ node[v].term >= t /\ node'[v].term >= node[v].term
      /\ Holds(F, v, j, t) /\ j \in 0..Last(v) /\ F[v][j].term = t
    BY StepParts DEF Numbers, TermsTyped, VoteStep, Pledges, Holds
<1>2. j <= Last(v)' /\ G[v][j] = F[v][j]
    <2>1. CASE Last(v) <= Last(v)' /\ Agree(G[v], F[v], Last(v))
        BY <1>1, <2>1 DEF Agree
    <2>2. ASSUME NEW l \in Node, Leading(l), node[v].term <= node[l].term,
                 \A i \in 0..Last(v) : i <= Last(l) /\ F[v][i].term = F[l][i].term =>
                     i <= Last(v)' /\ Agree(G[v], F[v], i)
          PROVE  j <= Last(v)' /\ G[v][j] = F[v][j]
        <3>1. node[l].term >= t
            BY <1>1, <2>2, StepParts DEF TermsTyped
        <3>2. Holds(F, l, j, t)
            BY <1>1, <2>2, <3>1, StepParts, LeadersHold
        <3>3. j <= Last(v)' /\ Agree(G[v], F[v], j)
            BY <1>1, <2>2, <3>2 DEF Holds
        <3>4. QED BY <1>1, <3>3 DEF Agree
    <2>3. QED BY <2>1, <2>2, StepParts DEF Retained
<1>3. node'[v].term >= t /\ Holds(G, v, j, t)'
    BY <1>1, <1>2 DEF Holds
<1>4. ASSUME NEW c \in Node, Standing(c)', node'[c].term > t, v \in node'[c].votes
      PROVE  Later(G, c, j, t)'
    <2>1. Last(c)' = Last(c) /\ Agree(G[c], F[c], Last(c)) /\ Earned(F, c, v) /\ Last(c) \in Nat
        BY <1>4, StepParts DEF VotesEarned, Numbers
    <2>2. Later(F, c, j, t)
        BY <1>4, <2>1, StepParts, EarnedIsLater
    <2>3. G[c][Last(c)] = F[c][Last(c)]
        BY <2>1 DEF Agree
    <2>4. QED BY <2>1, <2>2, <2>3 DEF Later
<1>5. QED BY <1>3, <1>4 DEF Pledges

\* A majority without the members of Q has gone on to a term after t.
PassedOver(Q, t) ==
    \E c \in Node, V \in SUBSET Node :
        /\ node'[c].term > t /\ Majority(V)
        /\ \A v \in V : v \notin Q /\ node'[v].term >= node'[c].term

\* Entries of later terms keep having it below them, unless somebody is elected
\* by a majority none of which had pledged it.
LEMMA BelowLaterKept ==
    ASSUME NEW F, NEW G, PledgeStep(F, G), NEW j \in Nat, NEW t \in Nat, BelowLater(F, j, t),
           NEW Q \in SUBSET Node, Q # {}, \A v \in Q : Pledges(F, v, j, t)
    PROVE  BelowLater(G, j, t)' \/ PassedOver(Q, t)
<1>1. ASSUME NEW m \in Node, NEW k \in 0..Last(m)', G[m][k].term > t
      PROVE  Holds(G, m, j, t)' \/ PassedOver(Q, t)
    <2>1. k \in Nat /\ Last(m) \in Nat /\ Last(m)' \in Nat
        BY StepParts DEF Numbers
    <2>2. CASE Borrowed(F, G, m, k)
        <3>1. PICK b \in Node : k <= Last(b) /\ Agree(G[m], F[b], k)
            BY <2>2 DEF Borrowed
        <3>2. k \in 0..Last(b) /\ F[b][k].term > t /\ Last(b) \in Nat
            BY <1>1, <2>1, <3>1, StepParts DEF Agree, Numbers
        <3>3. j <= Last(b) /\ F[b][j].term = t
            BY <3>2 DEF BelowLater, Holds
        <3>4. ~(k <= j)
            <4>1. k <= j => F[b][k].term <= F[b][j].term
                BY <2>1, <3>2, <3>3, StepParts DEF Shape, Ordered
            <4>2. F[b][k].term \in Nat
                BY <2>1, StepParts DEF Terms
            <4>3. QED BY <4>1, <4>2, <3>2, <3>3
        <3>5. j \in 0..k /\ j <= Last(m)'
            BY <2>1, <3>4
        <3>6. QED BY <3>1, <3>3, <3>5 DEF Agree, Holds
    <2>3. CASE Fresh(F, G, m, k)
        <3>1. /\ Leading(m)' /\ k = Last(m) + 1 /\ k = Last(m)' /\ node'[m].term = node[m].term
              /\ node[m].term \in Nat /\ node[m].term > t /\ Agree(G[m], F[m], Last(m))
            BY <1>1, <2>1, <2>3, StepParts, FreshParts
        <3>2. ASSUME Holds(F, m, j, t) PROVE Holds(G, m, j, t)'
            BY <3>1, <3>2, <2>1 DEF Holds, Agree
        <3>3. PICK u \in Q : TRUE
            OBVIOUS
        <3>4. CASE Leading(m)
            <4>1. Holds(F, m, j, t)
                BY <3>1, <3>3, <3>4, StepParts, LeadersHold DEF Pledges
            <4>2. QED BY <4>1, <3>2
        <3>5. CASE ~Leading(m)
            <4>1. PICK V \in SUBSET Node :
                     /\ Majority(V)
                     /\ \A v \in V : Earned(F, m, v) /\ node'[v].term >= node'[m].term
                BY <3>1, <3>5, StepParts DEF VotesEarned
            <4>2. CASE \E v \in V : v \in Q
                <5>1. PICK v \in V : v \in Q
                    BY <4>2
                <5>2. v \in Node /\ Pledges(F, v, j, t) /\ Earned(F, m, v) /\ Holds(F, v, j, t)
                    BY <4>1, <5>1 DEF Pledges
                <5>3. Later(F, m, j, t)
                    BY <3>1, <5>2, StepParts, EarnedIsLater
                <5>4. Holds(F, m, j, t)
                    BY <5>2, <5>3, StepParts, LaterHolds
                <5>5. QED BY <5>4, <3>2
            <4>3. CASE \A v \in V : v \notin Q
                BY <3>1, <4>1, <4>3 DEF PassedOver
            <4>4. QED BY <4>2, <4>3
        <3>6. QED BY <3>4, <3>5
    <2>4. QED BY <2>2, <2>3, StepParts DEF Sourced
<1>2. QED BY <1>1 DEF BelowLater

LEMMA ChosenKept ==
    ASSUME NEW F, NEW G, PledgeStep(F, G), NEW g \in [Nat -> EntryType(Data)], NEW j \in Nat,
           Chosen(F, g, j)
    PROVE  Chosen(G, g, j)'
<1>1. PICK t \in Nat : t = g[j].term
    BY DEF EntryType
<1>2. PICK Q \in SUBSET Node : Majority(Q) /\ \A v \in Q : Pledges(F, v, j, t)
    BY <1>1 DEF Chosen
<1>3. BelowLater(F, j, t)
    BY <1>1 DEF Chosen
<1>4. PICK u \in Node : u \in Q
    BY <1>2, MajoritiesMeet
<1>5. \A v \in Q : Pledges(G, v, j, t)'
    BY <1>2, <1>3, PledgeKept
<1>6. BelowLater(G, j, t)'
    <2>1. ASSUME NEW c \in Node, NEW V \in SUBSET Node, Majority(V), \A v \in V : v \notin Q
          PROVE  FALSE
        BY <1>2, <2>1, MajoritiesMeet
    <2>2. ~PassedOver(Q, t)
        BY <2>1 DEF PassedOver
    <2>3. QED BY <1>2, <1>3, <1>4, <2>2, BelowLaterKept
<1>7. ASSUME NEW m \in Node, Holds(G, m, j, t)' PROVE Agree(G[m], g, j)
    <2>1. j \in 0..Last(m)' /\ G[m][j].term = t
        BY <1>7, StepParts DEF Holds, Numbers
    <2>2. CASE Borrowed(F, G, m, j)
        <3>1. PICK b \in Node : j <= Last(b) /\ Agree(G[m], F[b], j)
            BY <2>2 DEF Borrowed
        <3>2. Holds(F, b, j, t)
            BY <2>1, <3>1 DEF Holds, Agree
        <3>3. Agree(F[b], g, j)
            BY <1>1, <3>2 DEF Chosen
        <3>4. QED BY <3>1, <3>3 DEF Agree
    <2>3. CASE Fresh(F, G, m, j)
        <3>1. j \in 0..Last(u) /\ F[u][j].term = t
            BY <1>2, <1>4 DEF Pledges, Holds
        <3>2. G[m][j].term = node[m].term
            BY <2>3, StepParts, FreshParts
        <3>3. j < j
            BY <2>1, <2>3, <3>1, <3>2, StepParts, FreshParts
        <3>4. QED BY <3>3
    <2>4. QED BY <2>1, <2>2, <2>3, StepParts DEF Sourced
<1>8. (\E Q1 \in SUBSET Node : Majority(Q1) /\ \A v \in Q1 : Pledges(G, v, j, t)')
    BY <1>2, <1>5
<1>9. QED BY <1>1, <1>6, <1>7, <1>8 DEF Chosen
-----------------------------------------------------------------------------
(***************************************************************************)
(* What is committed.  A member's commit index is covered by a chosen      *)
(* entry of a term it has reached.  A leader may commit an entry of its    *)
(* own term when a majority holds it: either those who hold it pledge it,  *)
(* or a majority without it has gone on to later terms, and never will.    *)
(***************************************************************************)
Secure(F, n, k) ==
    \/ k = 0
    \/ \E g \in [Nat -> EntryType(Data)], j \in Nat :
         /\ Chosen(F, g, j) /\ g[j].term <= node[n].term
         /\ k <= j /\ Agree(F[n], g, k)

Commits(F) == \A n \in Node : Secure(F, n, node[n].commit)

Holders(l, j) == {l} \cup {f \in Node : node[l].matched[f] >= j}

Blocked(l, j) ==
    \E R \in SUBSET Node :
        Majority(R) /\ \A v \in R : /\ v # l /\ node[v].term > node[l].term
                                    /\ node[l].matched[v] < j

Pending(F) ==
    \A l \in Node : Leading(l) =>
        \A j \in 0..Last(l) : F[l][j].term = node[l].term =>
            \/ Blocked(l, j)
            \/ /\ \A v \in Holders(l, j) : Pledges(F, v, j, node[l].term)
               /\ BelowLater(F, j, node[l].term)

\* Up to what it acknowledged to the leader of its term, a member's log is the leader's.
AcksAgree(F) ==
    \A l, f \in Node : Leading(l) /\ l # f =>
        /\ node[l].matched[f] <= Last(l)
        /\ node[f].term = node[l].term => Agree(F[f], F[l], node[l].matched[f])

\* What a step may do to the acknowledgements and to the commit indices.
AckStep(F, G) ==
    \A l \in Node : Leading(l)' =>
        \/ ~Leading(l) /\ \A f \in Node : node'[l].matched[f] = 0
        \/ /\ Leading(l)
           /\ \A f \in Node : f # l =>
                \/ node'[l].matched[f] = node[l].matched[f]
                \/ /\ node'[l].matched[f] > node[l].matched[f]
                   /\ node'[f].term = node'[l].term /\ Last(l)' = Last(l)
                   /\ node'[l].matched[f] <= Last(l)' /\ node'[l].matched[f] <= Last(f)'
                   /\ Agree(G[f], G[l], node'[l].matched[f])

CommitStep(F, G) ==
    \A n \in Node :
        /\ node[n].commit <= node'[n].commit
        /\ \/ node'[n].commit = node[n].commit
           \/ /\ Leading(n)' /\ G[n][node'[n].commit].term = node'[n].term
              /\ Majority(Holders(n, node[n].commit)')
           \/ \E l \in Node : /\ Leading(l) /\ node'[n].term = node[l].term
                              /\ node'[n].commit <= node[l].commit
                              /\ Agree(G[n], F[l], node'[n].commit)

LEMMA AgreeBelow ==
    ASSUME NEW f, NEW g, NEW k \in Nat, Agree(f, g, k), NEW i \in Nat, i <= k
    PROVE  Agree(f, g, i) /\ Agree(g, f, i) /\ f[i] = g[i]
    BY DEF Agree

\* A leader has all that a member of a term no later than its own has committed.
LEMMA LeadersComplete ==
    ASSUME NEW F, Terms(F), Measured, Shape(F),
           NEW f \in Node, NEW k \in Nat, Secure(F, f, k),
           NEW l \in Node, Leading(l), node[f].term <= node[l].term
    PROVE  k <= Last(l) /\ Agree(F[f], F[l], k)
<1>1. Last(l) \in Nat /\ node[f].term \in Nat /\ node[l].term \in Nat
    BY DEF Measured
<1>2. CASE k = 0
    BY <1>1, <1>2 DEF Shape, Rooted, Agree
<1>3. ASSUME NEW g \in [Nat -> EntryType(Data)], NEW j \in Nat, Chosen(F, g, j),
             g[j].term <= node[f].term, k <= j, Agree(F[f], g, k)
      PROVE  k <= Last(l) /\ Agree(F[f], F[l], k)
    <2>1. PICK t \in Nat : t = g[j].term
        BY DEF EntryType
    <2>2. PICK Q \in SUBSET Node : Majority(Q) /\ \A v \in Q : Pledges(F, v, j, t)
        BY <1>3, <2>1 DEF Chosen
    <2>3. PICK v \in Node : v \in Q
        BY <2>2, MajoritiesMeet
    <2>4. Holds(F, v, j, t) /\ BelowLater(F, j, t) /\ node[l].term >= t
        BY <1>1, <1>3, <2>1, <2>2, <2>3 DEF Pledges, Chosen
    <2>5. Holds(F, l, j, t)
        BY <2>4, LeadersHold
    <2>6. j <= Last(l) /\ Agree(F[l], g, j)
        BY <1>3, <2>1, <2>5 DEF Chosen, Holds
    <2>7. Agree(F[l], g, k)
        BY <1>3, <2>6, AgreeBelow
    <2>8. Agree(F[f], F[l], k)
        BY <1>3, <2>7 DEF Agree
    <2>9. QED BY <1>1, <1>3, <2>6, <2>8
<1>4. QED BY <1>2, <1>3 DEF Secure

\* A step leaves alone what a member has committed, and leaves it covered.
LEMMA CommittedStays ==
    ASSUME NEW F, NEW G, PledgeStep(F, G), NEW n \in Node, NEW k \in Nat, Secure(F, n, k),
           k <= Last(n)
    PROVE  k <= Last(n)' /\ Agree(G[n], F[n], k) /\ Secure(G, n, k)'
<1>1. Last(n) \in Nat /\ Last(n)' \in Nat /\ node[n].term \in Nat /\ node'[n].term \in Nat
      /\ node[n].term <= node'[n].term
    BY StepParts DEF Numbers, TermsTyped, VoteStep
<1>2. k <= Last(n)' /\ Agree(G[n], F[n], k)
    <2>1. CASE Last(n) <= Last(n)' /\ Agree(G[n], F[n], Last(n))
        BY <1>1, <2>1, AgreeBelow
    <2>2. ASSUME NEW l \in Node, Leading(l), node[n].term <= node[l].term,
                 \A i \in 0..Last(n) : i <= Last(l) /\ F[n][i].term = F[l][i].term =>
                     i <= Last(n)' /\ Agree(G[n], F[n], i)
          PROVE  k <= Last(n)' /\ Agree(G[n], F[n], k)
        <3>1. k <= Last(l) /\ Agree(F[n], F[l], k)
            BY <2>2, StepParts, LeadersComplete
        <3>2. F[n][k] = F[l][k]
            BY <3>1 DEF Agree
        <3>3. k \in 0..Last(n)
            BY <1>1
        <3>4. QED BY <2>2, <3>1, <3>2, <3>3
    <2>3. QED BY <2>1, <2>2, StepParts DEF Retained
<1>3. ASSUME NEW g \in [Nat -> EntryType(Data)], NEW j \in Nat, Chosen(F, g, j),
             g[j].term <= node[n].term, k <= j, Agree(F[n], g, k)
      PROVE  Chosen(G, g, j)' /\ g[j].term <= node'[n].term /\ k <= j /\ Agree(G[n], g, k)
    <2>1. Chosen(G, g, j)'
        BY <1>3, ChosenKept
    <2>2. g[j].term \in Nat
        BY DEF EntryType
    <2>3. QED BY <1>1, <1>2, <1>3, <2>1, <2>2 DEF Agree
<1>4. Secure(G, n, k)'
    BY <1>3 DEF Secure
<1>5. QED BY <1>2, <1>4

LEMMA AcksAgreeKept ==
    ASSUME NEW F, NEW G, PledgeStep(F, G), AcksTyped, MInv, AckStep(F, G), AcksAgree(F)
    PROVE  AcksAgree(G)'
<1> SUFFICES ASSUME NEW l \in Node, NEW f \in Node, Leading(l)', l # f
             PROVE  /\ node'[l].matched[f] <= Last(l)'
                    /\ node'[f].term = node'[l].term => Agree(G[f], G[l], node'[l].matched[f])
    BY DEF AcksAgree
<1>1. /\ Last(l) \in Nat /\ Last(l)' \in Nat /\ Last(f) \in Nat /\ Last(f)' \in Nat
      /\ node[l].term \in Nat /\ node[f].term \in Nat /\ node'[f].term \in Nat
      /\ node[f].term <= node'[f].term
      /\ node[l].matched[f] \in Nat /\ node'[l].matched[f] \in Nat
    BY StepParts DEF Numbers, TermsTyped, VoteStep, AcksTyped
<1>2. /\ node'[l].term = node[l].term /\ Agree(G[l], F[l], Last(l)) /\ Last(l) <= Last(l)'
    BY <1>1, StepParts DEF LeadersAppend
<1>3. Agree(G[f], G[l], 0)
    BY StepParts, RootedKept DEF Rooted, Agree
<1>4. CASE node'[l].matched[f] = 0
    BY <1>1, <1>3, <1>4
<1>5. CASE Leading(l) /\ node'[l].matched[f] = node[l].matched[f] /\ node[l].matched[f] # 0
    <2>1. PICK k \in Nat : k = node[l].matched[f]
        BY <1>1
    <2>2. k <= Last(l) /\ node[f].term >= node[l].term
        BY <2>1, <1>5 DEF AcksAgree, MInv, AcksInTerm
    <2>3. ASSUME node'[f].term = node'[l].term PROVE Agree(G[f], G[l], k)
        <3>1. node[f].term = node[l].term
            BY <2>2, <2>3, <1>1, <1>2
        <3>2. k <= Last(f) /\ Agree(F[f], F[l], k)
            <4>1. node[f].term <= node[l].term
                BY <3>1, <1>1
            <4>2. k <= Last(f)
                BY <4>1, <2>1, <1>5 DEF MInv, AcksHeld, Last
            <4>3. QED BY <4>2, <3>1, <2>1, <1>5 DEF AcksAgree
        <3>3. Agree(G[l], F[l], k)
            BY <1>1, <1>2, <2>2, AgreeBelow
        <3>4. Agree(G[f], F[f], k)
            <4>1. CASE Last(f) <= Last(f)' /\ Agree(G[f], F[f], Last(f))
                BY <1>1, <3>2, <4>1, AgreeBelow
            <4>2. ASSUME NEW x \in Node, Leading(x), node'[f].term = node[x].term,
                         \A j \in 0..Last(f) : j <= Last(x) /\ F[f][j].term = F[x][j].term =>
                             j <= Last(f)' /\ Agree(G[f], F[f], j)
                  PROVE  Agree(G[f], F[f], k)
                <5>1. x = l
                    BY <4>2, <2>3, <1>2, <1>5, StepParts DEF VInv, OneLeader
                <5>2. k \in 0..Last(f) /\ F[f][k].term = F[l][k].term
                    BY <1>1, <3>2 DEF Agree
                <5>3. QED BY <4>2, <5>1, <5>2, <2>2
            <4>3. QED BY <4>1, <4>2, StepParts DEF Retained
        <3>5. QED BY <3>2, <3>3, <3>4 DEF Agree
    <2>4. QED BY <2>1, <2>2, <2>3, <1>1, <1>2, <1>5
<1>6. QED BY <1>4, <1>5, <1>1 DEF AckStep

\* An acknowledgement that is recorded comes from a member in the leader's term.
LEMMA AckedInTerm ==
    ASSUME NEW F, NEW G, AcksTyped, AckStep(F, G), NEW l \in Node, Leading(l), Leading(l)',
           NEW f \in Node, f # l, node'[f].term # node'[l].term
    PROVE  node'[l].matched[f] = node[l].matched[f]
    BY DEF AckStep

LEMMA PendingKept ==
    ASSUME NEW F, NEW G, PledgeStep(F, G), AcksTyped, AckStep(F, G), AcksAgree(F), Pending(F)
    PROVE  Pending(G)'
<1> SUFFICES ASSUME NEW l \in Node, Leading(l)', NEW j \in 0..Last(l)',
                    G[l][j].term = node'[l].term, ~Blocked(l, j)'
             PROVE  /\ \A v \in Holders(l, j)' : Pledges(G, v, j, node[l].term)'
                    /\ BelowLater(G, j, node[l].term)'
    BY DEF Pending
<1>1. /\ Last(l) \in Nat /\ Last(l)' \in Nat /\ j \in Nat /\ j <= Last(l)'
      /\ node'[l].term = node[l].term /\ Agree(G[l], F[l], Last(l))
    BY StepParts DEF Numbers, LeadersAppend
<1>2. PICK t \in Nat : t = node[l].term /\ t = node'[l].term /\ t # 0
    BY <1>1, StepParts DEF TermsTyped, LeadersAppend
\* In the leader's term nobody can have voted for a candidate of a later one.
<1>3. ASSUME NEW v \in Node, node'[v].term = t, Holds(G, v, j, t)'
      PROVE  Pledges(G, v, j, t)'
    <2>1. ASSUME NEW c \in Node, Standing(c)', node'[c].term > t, v \in node'[c].votes
          PROVE  FALSE
        <3>1. (\A n \in Node : Standing(n) =>
                 n \in node[n].asked /\ \A x \in node[n].votes : Backs(x, n, node[n].term))'
            BY StepParts DEF VInv, VotesBacked
        <3>2. Backs(v, c, node[c].term)'
            BY <3>1, <2>1
        <3>3. node'[v].term >= node'[c].term
            BY <3>2, StepParts DEF Backs, TermsTyped
        <3>4. QED BY <3>3, <2>1, <1>3, StepParts DEF TermsTyped
    <2>2. QED BY <2>1, <1>3, <1>2 DEF Pledges
<1>4. CASE Leading(l) /\ j <= Last(l)
    <2>1. F[l][j].term = t /\ j \in 0..Last(l) /\ G[l][j].term = t
        BY <1>1, <1>2, <1>4 DEF Agree
    \* Who is in a later term now has acknowledged nothing in this step.
    <2>2. ASSUME NEW v \in Node, v # l, node'[v].term > t
          PROVE  node'[l].matched[v] = node[l].matched[v]
        <3>1. node'[v].term # node'[l].term
            BY <2>2, <1>2
        <3>2. QED BY <3>1, <2>2, <1>4, AckedInTerm
    <2>3. ~Blocked(l, j)
        <3>1. ASSUME NEW R \in SUBSET Node, Majority(R),
                     \A v \in R : v # l /\ node[v].term > node[l].term /\ node[l].matched[v] < j
              PROVE  FALSE
            <4>1. ASSUME NEW v \in R
                  PROVE  v # l /\ node'[v].term > node'[l].term /\ node'[l].matched[v] < j
                <5>1. v \in Node /\ v # l /\ node'[v].term > t
                    BY <3>1, <1>2, StepParts DEF VoteStep, TermsTyped
                <5>2. QED BY <5>1, <2>2, <3>1, <1>2
            <4>2. Blocked(l, j)'
                BY <4>1, <3>1 DEF Blocked
            <4>3. QED BY <4>2
        <3>2. QED BY <3>1 DEF Blocked
    <2>4. /\ \A v \in Holders(l, j) : Pledges(F, v, j, t)
          /\ BelowLater(F, j, t)
        BY <2>1, <2>3, <1>2, <1>4 DEF Pending
    <2>5. l \in Holders(l, j) /\ Holders(l, j) \subseteq Node
        BY DEF Holders
    <2>6. BelowLater(G, j, t)'
        <3>1. ASSUME NEW c \in Node, NEW V \in SUBSET Node, node'[c].term > t, Majority(V),
                     \A v \in V : v \notin Holders(l, j) /\ node'[v].term >= node'[c].term
              PROVE  FALSE
            <4>1. ASSUME NEW v \in V
                  PROVE  v # l /\ node'[v].term > node'[l].term /\ node'[l].matched[v] < j
                <5>1. v \in Node /\ v # l /\ node'[v].term > t
                    BY <3>1, <2>5, <1>2, StepParts DEF TermsTyped
                <5>2. node[l].matched[v] \in Nat /\ ~(node[l].matched[v] >= j)
                    BY <5>1, <3>1 DEF Holders, AcksTyped
                <5>3. QED BY <5>1, <5>2, <2>2, <1>1, <1>2
            <4>2. Blocked(l, j)'
                BY <4>1, <3>1 DEF Blocked
            <4>3. QED BY <4>2
        <3>2. Holders(l, j) # {} /\ Holders(l, j) \in SUBSET Node
            BY <2>5
        <3>3. PICK Q \in SUBSET Node : Q = Holders(l, j) /\ Q # {}
            BY <3>2
        <3>4. \A v \in Q : Pledges(F, v, j, t)
            BY <3>3, <2>4
        <3>5. BelowLater(G, j, t)' \/ PassedOver(Q, t)
            BY <3>3, <3>4, <2>4, <1>1, BelowLaterKept
        <3>6. QED BY <3>1, <3>3, <3>5 DEF PassedOver
    <2>7. ASSUME NEW v \in Holders(l, j)' PROVE Pledges(G, v, j, t)'
        <3>1. v \in Node /\ (v = l \/ node'[l].matched[v] >= j)
            BY DEF Holders
        <3>2. CASE v \in Holders(l, j)
            BY <3>1, <3>2, <2>4, PledgeKept
        <3>3. CASE v \notin Holders(l, j)
            <4>1. v # l /\ ~(node[l].matched[v] >= j) /\ node'[l].matched[v] >= j
                BY <3>1, <3>3 DEF Holders
            <4>2. /\ node'[v].term = node'[l].term /\ node'[l].matched[v] <= Last(v)'
                  /\ Agree(G[v], G[l], node'[l].matched[v])
                BY <3>1, <4>1, <1>4 DEF AckStep
            <4>3. node'[l].matched[v] \in Nat /\ Last(v)' \in Nat
                BY <3>1, StepParts DEF AcksTyped, Numbers
            <4>4. G[v][j] = G[l][j] /\ j <= Last(v)'
                BY <4>1, <4>2, <4>3, <1>1 DEF Agree
            <4>5. QED BY <3>1, <4>2, <4>4, <2>1, <1>2, <1>3 DEF Holds
        <3>4. QED BY <3>2, <3>3
    <2>8. QED BY <2>6, <2>7, <1>2
<1>5. CASE ~(Leading(l) /\ j <= Last(l))
    <2>1. j = Last(l) + 1 /\ Last(l)' = Last(l) + 1
        <3>1. CASE Leading(l) /\ Last(l)' = Last(l)
            BY <3>1, <1>1, <1>5
        <3>2. CASE Last(l)' = Last(l) + 1 /\ Leading(l)
            BY <3>2, <1>1, <1>5
        <3>3. CASE Last(l)' = Last(l) + 1 /\ Wins(l)
            <4>1. CASE j \in 0..Last(l)
                <5>1. F[l][j].term = node[l].term
                    BY <4>1, <1>1, <1>2 DEF Agree
                <5>2. QED BY <3>3, <4>1, <5>1, <1>2, StepParts, ElectedIsFirst DEF Shape
            <4>2. QED BY <3>3, <4>1, <1>1
        <3>4. QED BY <3>1, <3>2, <3>3, StepParts DEF LeadersAppend
    <2>2. ASSUME NEW f \in Node, f # l PROVE node'[l].matched[f] < j
        <3>1. node[l].matched[f] \in Nat /\ node'[l].matched[f] \in Nat
            BY DEF AcksTyped
        <3>2. CASE node'[l].matched[f] = 0
            BY <3>2, <2>1, <1>1
        <3>3. CASE Leading(l) /\ node'[l].matched[f] = node[l].matched[f]
            <4>1. node[l].matched[f] <= Last(l)
                BY <3>3, <2>2 DEF AcksAgree
            <4>2. QED BY <4>1, <3>1, <3>3, <2>1, <1>1
        <3>4. QED BY <3>2, <3>3, <2>1, <2>2, <1>1 DEF AckStep
    <2>3. Holds(G, l, j, t)'
        BY <1>1, <1>2, <2>1 DEF Holds
    <2>4. ASSUME NEW v \in Holders(l, j)' PROVE Pledges(G, v, j, t)'
        <3>1. v \in Node /\ (v = l \/ node'[l].matched[v] >= j)
            BY DEF Holders
        <3>2. v = l
            BY <3>1, <2>2, <1>1 DEF AcksTyped
        <3>3. QED BY <3>2, <2>3, <1>2, <1>3
    <2>5. BelowLater(G, j, t)'
        <3>1. ASSUME NEW m \in Node, NEW k \in 0..Last(m)', G[m][k].term > t PROVE FALSE
            <4>1. k \in Nat /\ G[m][k].term \in Nat
                BY StepParts DEF Numbers, Terms
            <4>2. (\A n \in Node : \A i \in 0..Last(n) :
                     G[n][i].term # 0 => \E x \in Node : Won(G[n][i].term, x))'
                BY StepParts, TermsWonKept DEF TermsWon
            <4>3. PICK x \in Node : Won(G[m][k].term, x)'
                BY <3>1, <4>1, <4>2
            <4>4. PICK R \in SUBSET Node : Majority(R) /\ \A v \in R : Backs(v, x, G[m][k].term)'
                BY <4>3 DEF Won
            <4>5. ASSUME NEW v \in R
                  PROVE  v # l /\ node'[v].term > node'[l].term /\ node'[l].matched[v] < j
                <5>1. v \in Node /\ node'[v].term > t
                    BY <4>4, <4>1, <3>1, StepParts DEF Backs, TermsTyped
                <5>2. v # l
                    BY <5>1, <1>2
                <5>3. QED BY <5>1, <5>2, <2>2, <1>2
            <4>6. Blocked(l, j)'
                BY <4>4, <4>5 DEF Blocked
            <4>7. QED BY <4>6
        <3>2. QED BY <3>1 DEF BelowLater
    <2>6. QED BY <2>4, <2>5, <1>2
<1>6. QED BY <1>4, <1>5

LEMMA CommitsKept ==
    ASSUME NEW F, NEW G, G \in Logs, PledgeStep(F, G), AcksTyped, AckStep(F, G), AcksAgree(F),
           Pending(F), CommitStep(F, G), Commits(F)
    PROVE  /\ Commits(G)'
           /\ \A n \in Node : Agree(G[n], F[n], node[n].commit)
<1>1. ASSUME NEW n \in Node
      PROVE  /\ node[n].commit \in Nat /\ node'[n].commit \in Nat
             /\ node'[n].term \in Nat /\ Last(n)' \in Nat /\ node'[n].commit <= Last(n)'
             /\ node[n].commit <= Last(n)
    BY StepParts DEF Numbers, TermsTyped
<1>2. ASSUME NEW n \in Node, NEW k \in Nat, k = node[n].commit
      PROVE  Agree(G[n], F[n], k) /\ Secure(G, n, k)'
    BY <1>1, <1>2, CommittedStays DEF Commits
<1>3. \A n \in Node : Agree(G[n], F[n], node[n].commit)
    BY <1>1, <1>2
<1>4. ASSUME NEW n \in Node, NEW k \in Nat, k = node'[n].commit
      PROVE  Secure(G, n, k)'
    <2>1. CASE node'[n].commit = node[n].commit
        BY <1>2, <1>4, <2>1
    \* The leader commits an entry of its term.
    <2>2. CASE /\ Leading(n)' /\ G[n][node'[n].commit].term = node'[n].term
               /\ Majority(Holders(n, node[n].commit)')
        <3>1. /\ k \in 0..Last(n)' /\ G[n][k].term = node'[n].term
              /\ Majority(Holders(n, k)')
            BY <1>1, <1>4, <2>2 DEF Holders
        <3>2. Holders(n, k)' \in SUBSET Node /\ AcksTyped
            BY DEF Holders
        <3>3. ~Blocked(n, k)'
            <4>1. ASSUME NEW R \in SUBSET Node, Majority(R),
                         \A v \in R : v # n /\ node'[v].term > node'[n].term
                                      /\ node'[n].matched[v] < k
                  PROVE  FALSE
                <5>1. PICK v \in Node : v \in R /\ v \in Holders(n, k)'
                    BY <3>1, <3>2, <4>1, MajoritiesMeet
                <5>2. v # n /\ node'[n].matched[v] < k /\ node'[n].matched[v] \in Nat
                    BY <5>1, <4>1, <3>2 DEF AcksTyped
                <5>3. v # n /\ node'[n].matched[v] >= k
                    BY <5>1, <5>2 DEF Holders
                <5>4. QED BY <5>2, <5>3, <1>4
            <4>2. QED BY <4>1 DEF Blocked
        <3>4. /\ \A v \in Holders(n, k)' : Pledges(G, v, k, node[n].term)'
              /\ BelowLater(G, k, node[n].term)'
            BY <2>2, <3>1, <3>3, PendingKept DEF Pending
        <3>5. PICK t \in Nat : t = node'[n].term /\ t = G[n][k].term
            BY <1>1, <3>1
        <3>6. /\ \A v \in Holders(n, k)' : Pledges(G, v, k, t)'
              /\ BelowLater(G, k, t)'
            BY <3>4, <3>5 DEF Pledges, BelowLater
        <3>7. ASSUME NEW m \in Node, Holds(G, m, k, t)' PROVE Agree(G[m], G[n], k)
            <4>1. k \in 0..Last(m)' /\ k <= Last(n)' /\ G[m][k].term = G[n][k].term
                BY <3>1, <3>5, <3>7, <1>1 DEF Holds
            <4>2. Matching(G)'
                BY StepParts, MatchingKept
            <4>3. QED BY <4>1, <4>2 DEF Matching
        <3>8. Chosen(G, G[n], k)'
            <4>1. PICK Q \in SUBSET Node : Majority(Q) /\ \A v \in Q : Pledges(G, v, k, t)'
                BY <3>1, <3>2, <3>6
            <4>2. QED BY <4>1, <3>5, <3>6, <3>7 DEF Chosen
        <3>9. G[n] \in [Nat -> EntryType(Data)] /\ Agree(G[n], G[n], k)
            BY DEF Logs, Agree
        <3>10. QED BY <3>5, <3>8, <3>9, <1>4 DEF Secure
    \* A follower commits what its leader has committed.
    <2>3. ASSUME NEW l \in Node, Leading(l), node'[n].term = node[l].term, k <= node[l].commit,
                 Agree(G[n], F[l], k)
          PROVE  Secure(G, n, k)'
        <3>1. PICK c \in Nat : c = node[l].commit /\ k <= c
            BY <1>1, <2>3
        <3>2. Secure(F, l, c)
            BY <3>1 DEF Commits
        <3>3. CASE c = 0
            BY <3>1, <3>3, <1>4 DEF Secure
        <3>4. ASSUME NEW g \in [Nat -> EntryType(Data)], NEW j \in Nat, Chosen(F, g, j),
                     g[j].term <= node[l].term, c <= j, Agree(F[l], g, c)
              PROVE  Chosen(G, g, j)' /\ g[j].term <= node'[n].term /\ k <= j /\ Agree(G[n], g, k)
            <4>1. Chosen(G, g, j)'
                BY <3>4, ChosenKept
            <4>2. Agree(F[l], g, k) /\ k <= j
                BY <3>1, <3>4, <1>4, AgreeBelow
            <4>3. Agree(G[n], g, k)
                BY <2>3, <4>2 DEF Agree
            <4>4. QED BY <4>1, <4>2, <4>3, <3>4, <2>3
        <3>5. QED BY <3>2, <3>3, <3>4 DEF Secure
    <2>4. QED BY <2>1, <2>2, <2>3, <1>4 DEF CommitStep
<1>5. Commits(G)'
    <2>1. ASSUME NEW n \in Node PROVE Secure(G, n, node[n].commit)'
        <3>1. PICK k \in Nat : k = node'[n].commit
            BY <1>1
        <3>2. Secure(G, n, k)'
            BY <3>1, <1>4
        <3>3. QED BY <3>1, <3>2 DEF Secure
    <2>2. QED BY <2>1 DEF Commits
<1>6. QED BY <1>3, <1>5
-----------------------------------------------------------------------------
(***************************************************************************)
(* The history: what was ever applied is what is committed somewhere.      *)
(***************************************************************************)
Numbered == \A n \in Node : Last(n) \in Nat /\ node[n].commit \in Nat

LEMMA ChosenInOrder ==
    ASSUME NEW F, Terms(F), Numbered, Shape(F),
           NEW g \in [Nat -> EntryType(Data)], NEW j \in Nat, Chosen(F, g, j),
           NEW h \in [Nat -> EntryType(Data)], NEW k \in Nat, Chosen(F, h, k),
           h[k].term > g[j].term \/ (h[k].term = g[j].term /\ j <= k)
    PROVE  \E m \in Node : Agree(F[m], g, j) /\ Agree(F[m], h, k)
<1>1. PICK t \in Nat, u \in Nat : t = g[j].term /\ u = h[k].term
    BY DEF EntryType
<1>2. PICK v \in Node : Holds(F, v, j, t)
    BY <1>1, MajoritiesMeet DEF Chosen, Pledges
<1>3. PICK w \in Node : Holds(F, w, k, u)
    BY <1>1, MajoritiesMeet DEF Chosen, Pledges
<1>4. k \in 0..Last(w) /\ j \in 0..Last(v) /\ F[w][k].term = u /\ F[v][j].term = t
    BY <1>2, <1>3 DEF Holds, Numbered
<1>5. Agree(F[w], h, k)
    BY <1>1, <1>3 DEF Chosen
<1>6. Holds(F, w, j, t)
    <2>1. CASE u > t
        BY <2>1, <1>1, <1>4 DEF Chosen, BelowLater
    <2>2. CASE u = t /\ j <= k
        <3>1. F[w][j].term = t
            BY <2>2, <1>4 DEF Shape, Runs
        <3>2. QED BY <3>1, <2>2, <1>4 DEF Holds, Numbered
    <2>3. QED BY <2>1, <2>2, <1>1
<1>7. Agree(F[w], g, j)
    BY <1>1, <1>6 DEF Chosen
<1>8. QED BY <1>5, <1>7

\* Any two members have the same log up to where both have committed.
LEMMA CommitsAgree ==
    ASSUME NEW F, Terms(F), Numbered, Shape(F), Commits(F), NEW m \in Node, NEW n \in Node,
           NEW i \in Nat, i <= node[m].commit, i <= node[n].commit
    PROVE  F[m][i] = F[n][i]
<1>1. node[m].commit \in Nat /\ node[n].commit \in Nat
    BY DEF Numbered
<1>2. CASE i = 0
    BY <1>2 DEF Shape, Rooted
<1>3. CASE i # 0
    <2>1. PICK g \in [Nat -> EntryType(Data)], j \in Nat :
            Chosen(F, g, j) /\ node[m].commit <= j /\ Agree(F[m], g, node[m].commit)
        BY <1>1, <1>3 DEF Commits, Secure
    <2>2. PICK h \in [Nat -> EntryType(Data)], k \in Nat :
            Chosen(F, h, k) /\ node[n].commit <= k /\ Agree(F[n], h, node[n].commit)
        BY <1>1, <1>3 DEF Commits, Secure
    <2>3. /\ i <= j /\ i <= k /\ F[m][i] = g[i] /\ F[n][i] = h[i]
        BY <1>1, <2>1, <2>2 DEF Agree
    <2>4. g[j].term \in Nat /\ h[k].term \in Nat
        BY <2>1, <2>2 DEF EntryType
    <2>5. \E w \in Node : Agree(F[w], g, j) /\ Agree(F[w], h, k)
        <3>1. CASE h[k].term > g[j].term \/ (h[k].term = g[j].term /\ j <= k)
            BY <3>1, <2>1, <2>2, ChosenInOrder
        <3>2. CASE g[j].term > h[k].term \/ (g[j].term = h[k].term /\ k <= j)
            BY <3>2, <2>1, <2>2, ChosenInOrder
        <3>3. QED BY <3>1, <3>2, <2>1, <2>2, <2>4
    <2>6. QED BY <2>3, <2>5 DEF Agree
<1>4. QED BY <1>2, <1>3
-----------------------------------------------------------------------------
(***************************************************************************)
(* A storage holds the upper end of a log: its entries above the offset,   *)
(* and the term at the offset.  A turn that persists such an end keeps one *)
(* and applies entries of that log.                                        *)
(***************************************************************************)
EndOf(c, g) ==
    \A i \in Held(c) : At(c, i).term = g[i].term /\ (i > c.offset => At(c, i) = g[i])

LEMMA CutIsEnd ==
    ASSUME NEW c, NEW d, NEW g, EndOf(c, g), Cut(c, d), c.offset \in Nat, d.offset \in Nat,
           last_index(d) \in Nat
    PROVE  EndOf(d, g)
<1> SUFFICES ASSUME NEW i \in Held(d)
             PROVE  At(d, i).term = g[i].term /\ (i > d.offset => At(d, i) = g[i])
    BY DEF EndOf
<1>1. i \in Held(c) /\ At(d, i) = At(c, i) /\ c.offset <= d.offset /\ i \in Nat
    BY DEF Cut, Held
<1>2. At(c, i).term = g[i].term /\ (i > c.offset => At(c, i) = g[i])
    BY <1>1 DEF EndOf
<1>3. QED BY <1>1, <1>2

LEMMA EndAfter ==
    ASSUME NEW c, NEW d, NEW ents, NEW snap, LogAfter(c, ents, snap, d), NEW g, NEW h, EndOf(c, g),
           c.offset \in Nat, d.offset \in Nat, last_index(d) \in Nat, snap.index \in Nat,
           snap.index # 0 => h[snap.index].term = snap.term,
           snap.index = 0 => \A i \in Held(d) :
               h[i] = IF ents # <<>> /\ i = ents[1].index THEN ents[1] ELSE g[i]
    PROVE  EndOf(d, h)
<1> SUFFICES ASSUME NEW i \in Held(d)
             PROVE  At(d, i).term = h[i].term /\ (i > d.offset => At(d, i) = h[i])
    BY DEF EndOf
<1>1. i \in Nat /\ d.offset <= i /\ i <= last_index(d)
    BY DEF Held
<1>2. CASE snap.index # 0
    BY <1>1, <1>2 DEF LogAfter
<1>3. CASE snap.index = 0 /\ ents # <<>> /\ i = ents[1].index
    BY <1>1, <1>3 DEF LogAfter
<1>4. CASE snap.index = 0 /\ ~(ents # <<>> /\ i = ents[1].index)
    <2>1. i \in Held(c) /\ At(d, i) = At(c, i) /\ c.offset <= d.offset /\ h[i] = g[i]
        BY <1>1, <1>4 DEF LogAfter
    <2>2. At(c, i).term = g[i].term /\ (i > c.offset => At(c, i) = g[i])
        BY <2>1 DEF EndOf
    <2>3. QED BY <2>1, <2>2, <1>1
<1>5. QED BY <1>2, <1>3, <1>4

\* Where a turn starts to apply: above the commit index, or above its snapshot.
AppliesFrom(x) == IF x[3].index = 0 THEN x[1].core.hs.commit ELSE x[3].index

\* n entries of a log, from the one after lo on.
OneByOne(new, d, lo, n) ==
    /\ DOMAIN new = 1..n
    /\ \A k \in 1..n : /\ lo + k \in Held(d) /\ new[k] = At(d, lo + k)
                      /\ new[k].index = lo + k /\ new[k] \in EntryType(Data)

\* The entries applied in a turn, one by one.
LEMMA AppliedOneByOne ==
    ASSUME NEW x, SoundReady(x), NEW d, d = Persist(x[1], x[2], x[3]),
           NEW new, new = Applied(x)
    PROVE  LET lo == AppliesFrom(x)  commit == LightCommit(x[1], d) IN
           /\ lo \in Nat /\ commit \in Nat /\ lo <= commit
           /\ d.offset <= lo /\ commit <= last_index(d)
           /\ commit - lo \in Nat /\ OneByOne(new, d, lo, commit - lo)
<1> PICK commit : commit = LightCommit(x[1], d)
    OBVIOUS
<1> DEFINE lo == AppliesFrom(x)
<1>1. /\ Good(Data, SnapData, d) /\ d.offset <= lo /\ lo <= x[1].commit
      /\ x[1].commit <= last_index(d)
    BY PersistIsSound DEF AppliesFrom
<1>2. /\ d.offset \in Nat /\ last_index(d) \in Nat /\ x[1].commit \in Nat
      /\ x[1].core.hs.commit \in Nat
    BY <1>1, SoundParts, LogNumbers, NodeParts
<1>3. lo \in Nat
    <2>1. CASE x[3].index = 0
        BY <2>1, <1>2 DEF AppliesFrom
    <2>2. CASE x[3].index # 0
        <3>1. x[3] \in SnapType(SnapData)
            BY <2>2 DEF SoundReady, NoSnapshot, Snapshot
        <3>2. QED BY <3>1, <2>2 DEF SnapType, AppliesFrom
    <2>3. QED BY <2>1, <2>2
<1>4. commit \in Nat /\ x[1].commit <= commit /\ commit <= last_index(d)
    BY <1>1, <1>2 DEF LightCommit
<1>5. new = EntriesFrom(d, lo + 1, commit + 1)
    BY DEF Applied, AppliedNow, AppliesFrom
<1> HIDE DEF lo
<1>6. PICK n \in Nat : n = commit - lo /\ (lo + 1) + n = commit + 1
    BY <1>1, <1>2, <1>3, <1>4
<1>7. /\ d.offset <= lo + 1 /\ lo + 1 \in Nat
      /\ (lo + 1) + n <= last_index(d) + 1
    BY <1>1, <1>2, <1>3, <1>4, <1>6
<1>8. DOMAIN new = 1..n /\ \A k \in 1..n : new[k] = At(d, (lo + 1) + k - 1)
    BY <1>1, <1>5, <1>6, <1>7, EntriesOneByOne
<1>9. ASSUME NEW k \in 1..n
      PROVE  /\ lo + k \in Held(d) /\ new[k] = At(d, lo + k) /\ new[k].index = lo + k
             /\ new[k] \in EntryType(Data)
    <2>1. (lo + 1) + k - 1 = lo + k /\ lo + k \in Held(d)
        BY <1>1, <1>2, <1>3, <1>4, <1>6 DEF Held
    <2>2. At(d, lo + k) \in EntryType(Data) /\ At(d, lo + k).index = lo + k
        BY <2>1, <1>1, LogNumbers
    <2>3. new[k] = At(d, lo + k)
        BY <2>1, <1>8
    <2>4. QED BY <2>1, <2>2, <2>3
<1>10. lo <= commit
    BY <1>1, <1>2, <1>3, <1>4
<1>11. OneByOne(new, d, lo, n)
    BY <1>8, <1>9 DEF OneByOne
<1>12. QED BY <1>1, <1>3, <1>4, <1>6, <1>10, <1>11 DEF lo

\* The member after its turn, against the member before its snapshot trigger.
LEMMA TriggerKeeps ==
    ASSUME NEW t, Settled(t), NEW m, m = TriggerSnapshot(t)
    PROVE  /\ Cut(t.core, m.core) /\ m.commit = t.commit /\ m.store = t.store
           /\ m.applied = t.applied
           /\ m.core.offset \in Nat /\ last_index(m.core) \in Nat /\ t.core.offset \in Nat
<1>1. /\ Settled(m) /\ \E c \in CoreType(Data, SnapData) : m = [t EXCEPT !.core = c]
      /\ last_index(m.core) = last_index(t.core)
      /\ t.core.offset <= m.core.offset
      /\ \A j \in Held(m.core) : j \in Held(t.core) /\ At(m.core, j) = At(t.core, j)
    BY TriggerIsSound
<1>2. m.commit = t.commit /\ m.store = t.store /\ m.applied = t.applied
    BY <1>1 DEF Settled, NodeType
<1>3. m.core.offset \in Nat /\ last_index(m.core) \in Nat /\ t.core.offset \in Nat
    BY <1>1, LogNumbers DEF Settled
<1>4. QED BY <1>1, <1>2, <1>3 DEF Cut

LEMMA TurnEnds ==
    ASSUME NEW x, SoundReady(x), NEW d, d = Persist(x[1], x[2], x[3]), NEW h, EndOf(d, h),
           NEW m, m = After(x)
    PROVE  /\ EndOf(m.core, h) /\ last_index(m.core) = last_index(d)
           /\ m.commit = LightCommit(x[1], d) /\ m.commit \in Nat
           /\ \A y \in Recorded(Applied(x)) : y[1] \in 1..m.commit /\ y = <<y[1], h[y[1]].data>>
           /\ \A i \in 1..m.commit :
                i <= AppliesFrom(x) \/ <<i, h[i].data>> \in Recorded(Applied(x))
<1>1. PICK t : t = Turn(x[1], x[3], d)
    OBVIOUS
<1>2. PICK new : new = Applied(x)
    OBVIOUS
<1>3. /\ Settled(t) /\ t.commit = LightCommit(x[1], d)
      /\ t.core.offset = d.offset /\ t.core.entries = d.entries
      /\ last_index(t.core) = last_index(d) /\ d.offset \in Nat /\ last_index(d) \in Nat
    BY <1>1, TurnSettles
<1>4. m = TriggerSnapshot(t)
    BY <1>1 DEF After
<1>5. /\ Cut(t.core, m.core) /\ m.commit = t.commit
      /\ m.core.offset \in Nat /\ last_index(m.core) \in Nat
    BY <1>3, <1>4, TriggerKeeps
<1>6. Cut(d, m.core)
    BY <1>3, <1>5 DEF Cut, Held, At
<1>7. EndOf(m.core, h)
    BY <1>3, <1>5, <1>6, CutIsEnd
<1>8. PICK lo \in Nat, commit \in Nat, n \in Nat :
        /\ lo = AppliesFrom(x) /\ commit = m.commit /\ n = commit - lo /\ lo <= commit
        /\ d.offset <= lo /\ commit <= last_index(d) /\ OneByOne(new, d, lo, n)
    <2>1. PICK lo, commit : lo = AppliesFrom(x) /\ commit = LightCommit(x[1], d)
        OBVIOUS
    <2>2. /\ lo \in Nat /\ commit \in Nat /\ lo <= commit /\ d.offset <= lo
          /\ commit <= last_index(d)
          /\ commit - lo \in Nat /\ OneByOne(new, d, lo, commit - lo)
        BY <1>2, <2>1, AppliedOneByOne
    <2>3. commit = m.commit
        BY <1>3, <1>5, <2>1
    <2>4. QED BY <2>1, <2>2, <2>3
<1>9. ASSUME NEW k \in 1..n
      PROVE  new[k].index = lo + k /\ new[k].data = h[lo + k].data /\ lo + k \in 1..commit
    <2>1. lo + k \in Held(d) /\ lo + k > d.offset /\ lo + k \in 1..commit
        <3>1. lo + k \in Held(d)
            BY <1>8 DEF OneByOne
        <3>2. lo + k > d.offset /\ lo + k \in 1..commit
            BY <1>3, <1>8
        <3>3. QED BY <3>1, <3>2
    <2>2. At(d, lo + k) = h[lo + k]
        BY <2>1 DEF EndOf
    <2>3. QED BY <2>1, <2>2, <1>8 DEF OneByOne
<1>10. ASSUME NEW y \in Recorded(new) PROVE y[1] \in 1..commit /\ y = <<y[1], h[y[1]].data>>
    <2>1. PICK k \in 1..n : y = <<new[k].index, new[k].data>>
        BY <1>8 DEF Recorded, OneByOne
    <2>2. y = <<lo + k, h[lo + k].data>>
        BY <2>1, <1>9
    <2>3. y[1] = lo + k
        BY <2>2
    <2>4. QED BY <2>2, <2>3, <1>9
<1>11. ASSUME NEW i \in 1..commit, ~(i <= lo) PROVE <<i, h[i].data>> \in Recorded(new)
    <2>1. PICK k \in 1..n : i = lo + k
        <3>1. i - lo \in 1..n /\ i = lo + (i - lo)
            BY <1>8, <1>11
        <3>2. QED BY <3>1
    <2>2. <<i, h[i].data>> = <<new[k].index, new[k].data>>
        BY <2>1, <1>9
    <2>3. QED BY <2>2, <1>8 DEF Recorded, OneByOne
<1>12. QED BY <1>2, <1>3, <1>5, <1>6, <1>7, <1>8, <1>10, <1>11 DEF Cut
-----------------------------------------------------------------------------
(***************************************************************************)
(* The kinds of changes of one member's log, and what they make of a step. *)
(***************************************************************************)
Stays(F, G, n) == G[n] = F[n] /\ Last(n)' = Last(n) /\ (Leading(n)' => Leading(n))

Grows(F, G, n) ==
    /\ Leading(n)' /\ (Leading(n) \/ Wins(n)) /\ Last(n)' = Last(n) + 1
    /\ G[n][Last(n)'].term = node[n].term /\ Agree(G[n], F[n], Last(n))

Copies(F, G, f) ==
    /\ node'[f].role = "follower"
    /\ \E l \in Node :
         /\ Leading(l) /\ node[f].term <= node[l].term /\ node'[f].term = node[l].term
         /\ Last(f)' <= Last(l) /\ Agree(G[f], F[l], Last(f)')
         /\ \A j \in 0..Last(f) : j <= Last(l) /\ F[f][j].term = F[l][j].term =>
                j <= Last(f)' /\ Agree(G[f], F[f], j)

LogKinds(F, G) == \A n \in Node : Stays(F, G, n) \/ Grows(F, G, n) \/ Copies(F, G, n)

LEMMA KindsTrace ==
    ASSUME TermsTyped, Numbers, VoteStep, NEW F, NEW G, LogKinds(F, G)
    PROVE  Sourced(F, G) /\ Retained(F, G) /\ LeadersAppend(F, G)
<1>1. ASSUME NEW n \in Node
      PROVE  /\ Last(n) \in Nat /\ Last(n)' \in Nat /\ node[n].term <= node'[n].term
             /\ node[n].term \in Nat /\ node'[n].term \in Nat
             /\ Leading(n)' => /\ node'[n].term = node[n].term /\ node[n].term # 0
                               /\ node'[n].role # "follower"
             /\ Stays(F, G, n) \/ Grows(F, G, n) \/ Copies(F, G, n)
    BY DEF TermsTyped, Numbers, VoteStep, LogKinds, Leading
<1>2. ASSUME NEW n \in Node, NEW i \in 0..Last(n)'
      PROVE  Borrowed(F, G, n, i) \/ Fresh(F, G, n, i)
    <2>1. CASE Stays(F, G, n)
        BY <1>1, <2>1 DEF Stays, Borrowed, Agree
    <2>2. CASE Grows(F, G, n)
        <3>1. CASE i <= Last(n)
            BY <1>1, <2>2, <3>1 DEF Grows, Borrowed, Agree
        <3>2. CASE ~(i <= Last(n))
            BY <1>1, <2>2, <3>2 DEF Grows, Fresh
        <3>3. QED BY <3>1, <3>2
    <2>3. CASE Copies(F, G, n)
        <3>1. PICK l \in Node : /\ node'[n].term = node[l].term /\ Last(n)' <= Last(l)
                                /\ Agree(G[n], F[l], Last(n)')
            BY <2>3 DEF Copies
        <3>2. /\ i <= Last(l) /\ node[l].term <= node'[n].term
              /\ \A j \in 0..i : j \in 0..Last(n)'
            BY <1>1, <3>1
        <3>3. QED BY <3>1, <3>2 DEF Borrowed, Agree
    <2>4. QED BY <1>1, <2>1, <2>2, <2>3
<1>3. Sourced(F, G)
    BY <1>2 DEF Sourced
<1>4. Retained(F, G)
    <2>1. ASSUME NEW n \in Node, Stays(F, G, n) \/ Grows(F, G, n)
          PROVE  Last(n) <= Last(n)' /\ Agree(G[n], F[n], Last(n))
        BY <1>1, <2>1 DEF Stays, Grows, Agree
    <2>2. QED BY <1>1, <2>1 DEF Retained, Copies
<1>5. ASSUME NEW l \in Node, Leading(l)'
      PROVE  /\ node'[l].term = node[l].term /\ node[l].term # 0
             /\ Agree(G[l], F[l], Last(l))
             /\ \/ Leading(l) /\ Last(l)' = Last(l)
                \/ /\ Leading(l) \/ Wins(l)
                   /\ Last(l)' = Last(l) + 1 /\ G[l][Last(l)'].term = node'[l].term
    BY <1>1, <1>5 DEF Stays, Grows, Copies, Agree
<1>6. LeadersAppend(F, G)
    BY <1>5 DEF LeadersAppend
<1>7. QED BY <1>3, <1>4, <1>6

\* A step in which no vote is given.
LEMMA CalmVotes ==
    ASSUME NEW F, NEW G, LogKinds(F, G), \A n \in Node : Calm(n), Numbers
    PROVE  VotesEarned(F, G)
<1>1. ASSUME NEW c \in Node, Standing(c)'
      PROVE  /\ Last(c)' = Last(c) /\ Agree(G[c], F[c], Last(c))
             /\ \A v \in node'[c].votes : Earned(F, c, v)
    <2>1. Same(c)
        BY <1>1 DEF Calm, Steps, Standing
    <2>2. Stays(F, G, c)
        BY <1>1 DEF LogKinds, Grows, Copies, Standing, Leading
    <2>3. QED BY <1>1, <2>1, <2>2 DEF Stays, Agree, Same, Earned, Standing
<1>2. ASSUME NEW c \in Node, Leading(c)', ~Leading(c) PROVE FALSE
    BY <1>2 DEF Calm, Same, Steps, Leading
<1>3. QED BY <1>1, <1>2 DEF VotesEarned

LEMMA KindsPledge ==
    ASSUME CInv, CInv', Elections, VoteStep, NEW F \in Logs, NEW G \in Logs, Shape(F),
           LogKinds(F, G), VotesEarned(F, G)
    PROVE  PledgeStep(F, G)
<1>1. TermsTyped /\ Numbers
    BY StepTyped, StepNumbers
<1>2. VInv /\ VInv'
    BY <1>1, VoteStepKeeps DEF Elections
<1>3. Terms(F) /\ Terms(G)
    BY LogsHaveTerms
<1>4. Sourced(F, G) /\ Retained(F, G) /\ LeadersAppend(F, G)
    BY <1>1, KindsTrace
<1>5. QED BY <1>1, <1>2, <1>3, <1>4 DEF PledgeStep, LogStep
-----------------------------------------------------------------------------
(***************************************************************************)
(* The stores.  A store reflects a log up to k: for each command there, it *)
(* has its namespace's data from that entry or a later one.  A member's    *)
(* store reflects its log up to the commit index, its snapshot's data up   *)
(* to the snapshot's; past applied_index no command is committed, unless a *)
(* snapshot brought it.                                                    *)
(***************************************************************************)
Reflects(store, g, k) ==
    \A i \in 1..k : g[i].data # NoData =>
        \E j \in i..k : g[j].data # NoData /\ g[j].data = store[NsOf[g[i].data]]

NoneWaits(nd, g) ==
    \A i \in 1..nd.core.hs.commit :
        i > nd.applied /\ i > nd.core.offset => g[i].data = NoData

Carries(snap, g) == snap.index # 0 => snap.data \in Stores /\ Reflects(snap.data, g, snap.index)

Reflecting(nd, g) ==
    Reflects(nd.store, g, nd.core.hs.commit) /\ NoneWaits(nd, g) /\ Carries(nd.core.snap, g)

LEMMA ReflectsOther ==
    ASSUME NEW store, NEW g, NEW h, NEW k \in Nat, Reflects(store, g, k),
           \A i \in 1..k : h[i] = g[i]
    PROVE  Reflects(store, h, k)
<1>1. ASSUME NEW i \in 1..k, h[i].data # NoData
      PROVE  \E j \in i..k : h[j].data # NoData /\ h[j].data = store[NsOf[h[i].data]]
    <2>1. PICK j \in i..k : g[j].data # NoData /\ g[j].data = store[NsOf[g[i].data]]
        BY <1>1 DEF Reflects
    <2>2. j \in 1..k
        OBVIOUS
    <2>3. QED BY <2>1, <2>2
<1>2. QED BY <1>1 DEF Reflects

\* Applying the entries from the one after lo on.
LEMMA ApplyReflects ==
    ASSUME NEW store \in Stores, NEW h \in [Nat -> EntryType(Data)], NEW lo \in Nat, NEW n \in Nat,
           NEW new, DOMAIN new = 1..n, \A k \in 1..n : new[k] = h[lo + k],
           Reflects(store, h, lo), NEW st, st = apply(store, new)
    PROVE  Reflects(st, h, lo + n)
<1> SUFFICES ASSUME NEW i \in 1..(lo + n), h[i].data # NoData
             PROVE  \E j \in i..(lo + n) :
                        h[j].data # NoData /\ h[j].data = st[NsOf[h[i].data]]
    BY DEF Reflects
<1>1. i \in Nat /\ i >= 1 /\ i <= lo + n
    OBVIOUS
<1>2. PICK ns \in Namespace : ns = NsOf[h[i].data]
    <2>1. h[i].data \in Write
        BY <1>1 DEF EntryType, Data
    <2>2. QED BY <2>1, WritesAssumption
<1> DEFINE mine == {k \in CommandsIn(new) : NsOf[new[k].data] = ns}
<1>3. mine \subseteq 1..n
    BY DEF CommandsIn
<1>4. st[ns] = IF mine = {} THEN store[ns] ELSE new[Max(mine)].data
    BY DEF apply
<1>5. ASSUME i > lo PROVE i - lo \in mine
    <2>1. i - lo \in 1..n /\ lo + (i - lo) = i
        BY <1>1, <1>5
    <2>2. new[i - lo] = h[i]
        BY <2>1
    <2>3. QED BY <1>2, <2>1, <2>2 DEF CommandsIn
<1>6. CASE mine = {}
    <2>1. i \in 1..lo
        BY <1>1, <1>5, <1>6
    <2>2. PICK j \in i..lo : h[j].data # NoData /\ h[j].data = store[ns]
        BY <1>2, <2>1 DEF Reflects
    <2>3. j \in i..(lo + n)
        BY <2>1
    <2>4. QED BY <1>2, <1>4, <1>6, <2>2, <2>3
<1>7. CASE mine # {}
    <2>1. PICK k : k = Max(mine)
        OBVIOUS
    <2>2. k \in mine /\ \A q \in mine : q <= k
        <3> HIDE DEF mine
        <3>1. IsFiniteSet(1..n)
            BY FS_Interval
        <3>2. mine \in SUBSET (1..n) /\ mine \in SUBSET Int
            BY <1>3
        <3>3. IsFiniteSet(mine)
            BY <3>1, <3>2, FS_Subset
        <3>4. QED BY <1>7, <2>1, <3>2, <3>3, MaxExists
    <2>3. k \in 1..n /\ new[k].data # NoData
        BY <1>3, <2>2 DEF CommandsIn
    <2>4. lo + k \in Nat /\ lo + k <= lo + n /\ h[lo + k] = new[k]
        BY <2>3
    <2>5. i <= lo + k
        <3>1. CASE i <= lo
            BY <1>1, <2>3, <3>1
        <3>2. CASE i > lo
            <4>1. i - lo <= k
                BY <1>5, <2>2, <3>2
            <4>2. QED BY <1>1, <2>3, <4>1
        <3>3. QED BY <1>1, <3>1, <3>2
    <2>6. lo + k \in i..(lo + n)
        BY <1>1, <2>4, <2>5
    <2>7. h[lo + k].data = st[ns]
        BY <1>4, <1>7, <2>1, <2>4
    <2>8. QED BY <1>2, <2>3, <2>4, <2>6, <2>7
<1>8. QED BY <1>6, <1>7

\* The snapshot a turn leaves: its own, or the one there was.
LEMMA PersistSnap ==
    ASSUME NEW x, SoundReady(x), NEW d, d = Persist(x[1], x[2], x[3])
    PROVE  d.snap = IF x[3].index = 0 THEN x[1].core.snap ELSE x[3]
<1> PICK c : c = x[1].core
    OBVIOUS
<1> DEFINE hs == HardState(x[1].term, x[1].vote, x[1].commit)
           a  == set_hard_state(c, hs)
           b  == AppendEntries(a, x[2])
<1>1. /\ c \in CoreType(Data, SnapData) /\ c.offset \in Nat /\ c.hs.commit \in Nat
      /\ c.offset <= c.hs.commit
    BY SoundParts, LogNumbers DEF Good
<1>2. a.snap = c.snap /\ a.offset = c.offset /\ a = [c EXCEPT !.hs = hs]
    BY <1>1 DEF set_hard_state, CoreType
<1>3. b.snap = a.snap /\ b.offset = a.offset
    BY <1>1, <1>2 DEF AppendEntries, CoreType
<1>4. d = IF x[3].index = 0 THEN b ELSE apply_snapshot(b, x[3])
    BY DEF Persist
<1>5. CASE x[3].index = 0
    BY <1>2, <1>3, <1>4, <1>5
<1>6. CASE x[3].index # 0
    <2>1. x[3] \in SnapType(SnapData) /\ c.hs.commit < x[3].index /\ x[2] = <<>>
        BY <1>6 DEF SoundReady, NoSnapshot, Snapshot
    <2>2. x[3].index \in Nat /\ ~(x[3].index <= b.offset)
        BY <1>1, <1>2, <1>3, <2>1 DEF SnapType
    <2>3. b = a
        BY <2>1 DEF AppendEntries
    <2>4. apply_snapshot(b, x[3]).snap = x[3]
        BY <1>1, <1>2, <2>2, <2>3 DEF apply_snapshot, CoreType
    <2>5. QED BY <1>4, <1>6, <2>4
<1>7. QED BY <1>5, <1>6

\* The snapshot trigger takes the store at applied_index, where nothing waits.
LEMMA TriggerReflects ==
    ASSUME NEW t, Settled(t), NEW h, Reflecting(t, h), NEW m, m = TriggerSnapshot(t)
    PROVE  Reflecting(m, h)
<1> DEFINE c == t.core
           i == t.applied
           b == create_snapshot(c, i, t.store)
           d == compact(b, i)
<1>1. /\ t \in NodeType /\ Good(Data, SnapData, c) /\ c \in CoreType(Data, SnapData)
      /\ c.offset <= t.commit /\ t.commit <= last_index(c) /\ c.hs.commit = t.commit
      /\ i <= t.commit /\ t.store \in Stores
    BY NodeParts DEF Settled, Good, HardState
<1>2. /\ c.offset \in Nat /\ last_index(c) \in Nat /\ t.commit \in Nat /\ i \in Nat
      /\ t.store \in SnapData
    BY <1>1, LogNumbers, NodeParts DEF SnapData
<1>3. CASE m = t
    BY <1>3
<1>4. CASE m = [t EXCEPT !.core = d] /\ i < c.offset
    <2>1. b = c
        BY <1>4 DEF create_snapshot
    <2>2. d = c
        BY <2>1, <1>2, <1>4 DEF compact
    <2>3. m = t
        BY <2>2, <1>1, <1>4 DEF NodeType
    <2>4. QED BY <2>3
<1>5. CASE m = [t EXCEPT !.core = d] /\ c.offset <= i /\ i # 0
    <2>1. i \in c.offset..last_index(c)
        BY <1>1, <1>2, <1>5
    <2>2. PICK s : s = Snapshot(i, c.entries[Relative(c, i)].term, t.store)
        OBVIOUS
    <2>3. b = [c EXCEPT !.snap = s] /\ b.snap = s /\ b.snap.index = i /\ b.snap.data = t.store
        <3>1. b = [c EXCEPT !.snap = s]
            BY <1>1, <1>2, <2>1, <2>2 DEF create_snapshot
        <3>2. s.index = i /\ s.data = t.store
            BY <2>2 DEF Snapshot
        <3>3. b.snap = s
            BY <1>1, <3>1 DEF CoreType
        <3>4. QED BY <3>1, <3>2, <3>3
    <2>4. d.snap = b.snap
        BY <1>1, <2>3 DEF compact, CoreType
    <2>5. /\ Good(Data, SnapData, d) /\ d.offset = i /\ d.hs = c.hs
          /\ last_index(d) = last_index(c)
        BY <2>1, <1>1, <1>2, <1>5, SnapshotAndCompactCut
    <2> HIDE DEF d
    <2>6. m.core = d /\ m.store = t.store /\ m.applied = i
        BY <1>1, <1>5 DEF NodeType
    <2> HIDE DEF b
    <2>7. Reflects(m.store, h, m.core.hs.commit)
        BY <2>5, <2>6 DEF Reflecting
    <2>8. NoneWaits(m, h)
        BY <1>2, <1>5, <2>5, <2>6 DEF Reflecting, NoneWaits
    <2>9. Reflects(t.store, h, i)
        <3>1. ASSUME NEW j \in 1..i, h[j].data # NoData
              PROVE  \E k \in j..i : h[k].data # NoData /\ h[k].data = t.store[NsOf[h[j].data]]
            <4>1. j \in 1..c.hs.commit
                BY <1>1, <1>2
            <4>2. PICK k \in j..c.hs.commit :
                    h[k].data # NoData /\ h[k].data = t.store[NsOf[h[j].data]]
                BY <3>1, <4>1 DEF Reflecting, Reflects
            <4>3. k \in 1..c.hs.commit
                BY <1>1, <1>2
            <4>4. ~(k > i)
                <5>1. k > i => k > c.offset
                    BY <1>2, <1>5
                <5>2. QED BY <4>2, <4>3, <5>1 DEF Reflecting, NoneWaits
            <4>5. k \in j..i
                BY <1>1, <1>2, <4>4
            <4>6. QED BY <4>2, <4>5
        <3>2. QED BY <3>1 DEF Reflects
    <2>10. Carries(m.core.snap, h)
        BY <1>1, <2>3, <2>4, <2>6, <2>9 DEF Carries
    <2>11. QED BY <2>7, <2>8, <2>10 DEF Reflecting
<1>6. QED BY <1>2, <1>3, <1>4, <1>5 DEF TriggerSnapshot
-----------------------------------------------------------------------------
(***************************************************************************)
(* The invariant.  A member's storage is the end of its log, its store     *)
(* reflects it.  The history is what members have committed, and nothing   *)
(* else: what is applied is committed, what is committed was applied there *)
(* or elsewhere.                                                           *)
(***************************************************************************)
Ends(F) == \A n \in Node : EndOf(node[n].core, F[n]) /\ Reflecting(node[n], F[n])
Past(F) == \A y \in history : \E n \in Node :
               y[1] \in 1..node[n].commit /\ y = <<y[1], F[n][y[1]].data>>
Told(F) == \A n \in Node : \A i \in 1..node[n].commit : <<i, F[n][i].data>> \in history

Agreed(F) == /\ Ends(F) /\ Shape(F) /\ Pending(F) /\ AcksAgree(F) /\ Commits(F)
             /\ Past(F) /\ Told(F)

HistoryStep(F, G) ==
    /\ history \subseteq history'
    /\ \A y \in history' : y \in history \/ \E n \in Node :
           y[1] \in 1..node'[n].commit /\ y = <<y[1], G[n][y[1]].data>>
    /\ \A n \in Node : \A i \in 1..node'[n].commit :
           \/ i <= node[n].commit
           \/ <<i, G[n][i].data>> \in history'
           \/ \E l \in Node : i <= node[l].commit /\ G[n][i] = F[l][i]

AgreementStep(F, G) ==
    PledgeStep(F, G) /\ AckStep(F, G) /\ CommitStep(F, G) /\ Ends(G)' /\ HistoryStep(F, G)

LEMMA HistoryKept ==
    ASSUME Numbers, NEW F, NEW G, HistoryStep(F, G), Past(F), Told(F),
           \A n \in Node : /\ node[n].commit <= node'[n].commit
                           /\ Agree(G[n], F[n], node[n].commit)
    PROVE  Past(G)' /\ Told(G)'
<1>1. ASSUME NEW n \in Node
      PROVE  node[n].commit \in Nat /\ node'[n].commit \in Nat
    BY DEF Numbers
<1>2. ASSUME NEW y \in history'
      PROVE  \E n \in Node : y[1] \in 1..node'[n].commit /\ y = <<y[1], G[n][y[1]].data>>
    <2>1. CASE y \in history
        <3>1. PICK n \in Node : y[1] \in 1..node[n].commit /\ y = <<y[1], F[n][y[1]].data>>
            BY <2>1 DEF Past
        <3>2. y[1] \in 1..node'[n].commit /\ y[1] \in 0..node[n].commit
            BY <3>1, <1>1
        <3>3. G[n][y[1]] = F[n][y[1]]
            BY <3>2 DEF Agree
        <3>4. QED BY <3>1, <3>2, <3>3
    <2>2. QED BY <2>1 DEF HistoryStep
<1>3. ASSUME NEW n \in Node, NEW i \in 1..node'[n].commit
      PROVE  <<i, G[n][i].data>> \in history'
    <2>1. i \in Nat /\ i >= 1
        BY <1>1
    <2>2. CASE i <= node[n].commit
        <3>1. i \in 1..node[n].commit /\ i \in 0..node[n].commit
            BY <2>1, <2>2, <1>1
        <3>2. <<i, F[n][i].data>> \in history /\ G[n][i] = F[n][i]
            BY <3>1 DEF Told, Agree
        <3>3. QED BY <3>2 DEF HistoryStep
    <2>3. ASSUME NEW l \in Node, i <= node[l].commit, G[n][i] = F[l][i]
          PROVE  <<i, G[n][i].data>> \in history'
        <3>1. i \in 1..node[l].commit
            BY <2>1, <2>3, <1>1
        <3>2. <<i, F[l][i].data>> \in history
            BY <3>1 DEF Told
        <3>3. QED BY <3>2, <2>3 DEF HistoryStep
    <2>4. QED BY <2>2, <2>3 DEF HistoryStep
<1>4. QED BY <1>2, <1>3 DEF Past, Told

LEMMA AgreementKept ==
    ASSUME CInv, CInv', Elections, NEW F \in Logs, NEW G \in Logs, AgreementStep(F, G), Agreed(F)
    PROVE  Agreed(G)'
<1>1. /\ PledgeStep(F, G) /\ AckStep(F, G) /\ CommitStep(F, G) /\ Ends(G)' /\ HistoryStep(F, G)
      /\ Shape(F) /\ Pending(F) /\ AcksAgree(F) /\ Commits(F) /\ Past(F) /\ Told(F)
      /\ AcksTyped /\ Numbers /\ MInv /\ LogStep(F, G)
    BY StepAcksTyped, StepNumbers, StepParts DEF AgreementStep, Agreed, Elections
<1>2. Shape(G)'
    BY <1>1, ShapeKept
<1>3. Pending(G)'
    BY <1>1, PendingKept
<1>4. AcksAgree(G)'
    BY <1>1, AcksAgreeKept
<1>5. Commits(G)' /\ \A n \in Node : Agree(G[n], F[n], node[n].commit)
    BY <1>1, CommitsKept
<1>6. Past(G)' /\ Told(G)'
    BY <1>1, <1>5, HistoryKept DEF CommitStep
<1>7. QED BY <1>1, <1>2, <1>3, <1>4, <1>5, <1>6 DEF Agreed
-----------------------------------------------------------------------------
(***************************************************************************)
(* The turns of a step: what the Readys must carry for the logs to go from *)
(* F to G.                                                                 *)
(***************************************************************************)
\* A log with the entries of a Ready.
WithEntries(g, ents, h) ==
    \A i \in Nat : h[i] = IF ents # <<>> /\ i = ents[1].index THEN ents[1] ELSE g[i]

\* raft-rs leaves the storage, the store and applied_index to the turn.
Untouched(m, n) ==
    m.core = node[n].core /\ m.store = node[n].store /\ m.applied = node[n].applied

Fits(F, G, n, x) ==
    /\ Untouched(x[1], n)
    /\ x[3].index = 0 => WithEntries(F[n], x[2], G[n])
    /\ x[3].index # 0 =>
         /\ G[n][x[3].index].term = x[3].term
         /\ x[3].data \in Stores /\ Reflects(x[3].data, G[n], x[3].index)
         /\ \E l \in Node : x[3].index <= node[l].commit /\ Agree(G[n], F[l], x[3].index)

ReadyEnd(x) == IF x[3].index # 0 THEN x[3].index
               ELSE IF x[2] = <<>> THEN last_index(x[1].core) ELSE x[2][1].index

LEMMA PersistEnds ==
    ASSUME NEW x, SoundReady(x), NEW g, EndOf(x[1].core, g), NEW h,
           x[3].index = 0 => WithEntries(g, x[2], h),
           x[3].index # 0 => h[x[3].index].term = x[3].term,
           NEW d, d = Persist(x[1], x[2], x[3])
    PROVE  EndOf(d, h) /\ last_index(d) = ReadyEnd(x)
<1>1. PICK t : t = Turn(x[1], x[3], d)
    OBVIOUS
<1>2. /\ LogAfter(x[1].core, x[2], x[3], d) /\ d.offset \in Nat /\ last_index(d) \in Nat
    BY <1>1, TurnSettles
<1>3. x[1].core.offset \in Nat
    BY SoundParts, LogNumbers
<1>4. x[3].index \in Nat
    BY DEF SoundReady, NoSnapshot, Snapshot, SnapType
<1>5. ASSUME x[3].index = 0, NEW i \in Held(d)
      PROVE  h[i] = IF x[2] # <<>> /\ i = x[2][1].index THEN x[2][1] ELSE g[i]
    <2>1. i \in Nat
        BY <1>2 DEF Held
    <2>2. QED BY <2>1, <1>5 DEF WithEntries
<1>6. EndOf(d, h)
    BY <1>2, <1>3, <1>4, <1>5, EndAfter
<1>7. last_index(d) = ReadyEnd(x)
    BY <1>2 DEF LogAfter, ReadyEnd
<1>8. QED BY <1>6, <1>7

LEMMA ReadyEnds ==
    ASSUME NEW x, SoundReady(x), NEW g, EndOf(x[1].core, g), NEW h,
           x[3].index = 0 => WithEntries(g, x[2], h),
           x[3].index # 0 => h[x[3].index].term = x[3].term,
           NEW m, m = After(x)
    PROVE  /\ EndOf(m.core, h) /\ last_index(m.core) = ReadyEnd(x)
           /\ m.commit = (IF N = 1 /\ x[1].role = "leader" THEN ReadyEnd(x) ELSE x[1].commit)
           /\ \A y \in Recorded(Applied(x)) : y[1] \in 1..m.commit /\ y = <<y[1], h[y[1]].data>>
           /\ \A i \in 1..m.commit :
                i <= AppliesFrom(x) \/ <<i, h[i].data>> \in Recorded(Applied(x))
<1>1. PICK d : d = Persist(x[1], x[2], x[3])
    OBVIOUS
<1>2. EndOf(d, h) /\ last_index(d) = ReadyEnd(x)
    BY <1>1, PersistEnds
<1>3. LightCommit(x[1], d) = IF N = 1 /\ x[1].role = "leader" THEN ReadyEnd(x) ELSE x[1].commit
    BY <1>2 DEF LightCommit
<1>4. QED BY <1>1, <1>2, <1>3, TurnEnds

\* The store after a turn reflects the log after it.
LEMMA TurnReflects ==
    ASSUME NEW x, SoundReady(x), NEW g, EndOf(x[1].core, g), Reflecting(x[1], g),
           NEW h \in [Nat -> EntryType(Data)],
           x[3].index = 0 => WithEntries(g, x[2], h),
           x[3].index # 0 => /\ h[x[3].index].term = x[3].term
                             /\ x[3].data \in Stores /\ Reflects(x[3].data, h, x[3].index),
           NEW m, m = After(x)
    PROVE  Reflecting(m, h)
<1>1. PICK d : d = Persist(x[1], x[2], x[3])
    OBVIOUS
<1>2. PICK new : new = Applied(x)
    OBVIOUS
<1>3. PICK t : t = Turn(x[1], x[3], d)
    OBVIOUS
<1>4. /\ Settled(t) /\ t.commit = LightCommit(x[1], d) /\ t.core.hs.commit = t.commit
      /\ t.store = apply(restore(x[1].store, x[3].data), new)
      /\ t.applied = IF CommandsIn(new) = {} THEN x[1].applied
                     ELSE new[Max(CommandsIn(new))].index
      /\ t.core.offset = d.offset /\ t.core.snap = d.snap
      /\ LogAfter(x[1].core, x[2], x[3], d) /\ d.offset \in Nat /\ last_index(d) \in Nat
    <2>1. new = AppliedNow(x[1], x[3], d)
        BY <1>1, <1>2 DEF Applied
    <2>2. Settled(t) => t.core.hs.commit = t.commit
        BY DEF Settled, HardState
    <2>3. QED BY <2>1, <2>2, <1>1, <1>3, TurnSettles
<1>5. /\ x[1] \in NodeType /\ x[1].store \in Stores /\ x[1].applied \in Nat
      /\ x[1].core.offset \in Nat /\ x[1].core.hs.commit \in Nat
      /\ x[1].core.offset <= x[1].core.hs.commit /\ x[1].applied <= x[1].core.hs.commit
      /\ x[1].core.snap.index # 0 => x[1].core.snap.index = x[1].core.offset
    BY SoundParts, LogNumbers, NodeParts DEF Good
<1>6. EndOf(d, h)
    BY <1>1, PersistEnds
<1>7. PICK lo \in Nat, n \in Nat :
        /\ lo = AppliesFrom(x) /\ n = t.commit - lo /\ lo + n = t.commit /\ t.commit \in Nat
        /\ d.offset <= lo /\ OneByOne(new, d, lo, n)
    <2>1. PICK lo : lo = AppliesFrom(x)
        OBVIOUS
    <2>2. /\ lo \in Nat /\ t.commit \in Nat /\ lo <= t.commit /\ d.offset <= lo
          /\ t.commit - lo \in Nat /\ OneByOne(new, d, lo, t.commit - lo)
        BY <1>1, <1>2, <1>4, <2>1, AppliedOneByOne
    <2>3. lo + (t.commit - lo) = t.commit
        BY <2>2
    <2>4. QED BY <2>1, <2>2, <2>3
<1>8. DOMAIN new = 1..n /\ \A k \in 1..n : new[k] = h[lo + k] /\ new[k].index = lo + k
    <2>1. ASSUME NEW k \in 1..n PROVE new[k] = h[lo + k] /\ new[k].index = lo + k
        <3>1. lo + k \in Held(d) /\ new[k] = At(d, lo + k) /\ new[k].index = lo + k
            BY <1>7 DEF OneByOne
        <3>2. lo + k > d.offset
            BY <1>4, <1>7
        <3>3. QED BY <3>1, <3>2, <1>6 DEF EndOf
    <2>2. QED BY <2>1, <1>7 DEF OneByOne
\* Up to the commit index the log stays.
<1>9. ASSUME x[3].index = 0
      PROVE  /\ lo = x[1].core.hs.commit /\ x[3].data = NoData
             /\ x[1].core.offset <= d.offset
             /\ \A i \in 1..lo : h[i] = g[i]
    <2>1. x[3] = NoSnapshot
        BY <1>9, <1>5 DEF SoundReady, SnapType
    <2>2. lo = x[1].core.hs.commit /\ x[3].data = NoData
        BY <1>7, <1>9, <2>1 DEF AppliesFrom, NoSnapshot, Snapshot
    <2>3. x[2] = <<>> \/ (x[2] # <<>> /\ x[2][1].index > lo /\ x[2][1].index \in Nat)
        <3>1. CASE x[2] = <<>>
            BY <3>1
        <3>2. CASE x[2] # <<>>
            <4>1. PICK e \in EntryType(Data) : x[2] = <<e>> /\ x[1].core.hs.commit < e.index
                BY <3>2 DEF SoundReady
            <4>2. e.index \in Nat /\ x[2][1] = e
                BY <4>1 DEF EntryType
            <4>3. QED BY <4>1, <4>2, <3>2, <2>2, <1>5
        <3>3. QED BY <3>1, <3>2
    <2>4. ASSUME NEW i \in 1..lo PROVE h[i] = g[i]
        <3>1. i \in Nat /\ ~(x[2] # <<>> /\ i = x[2][1].index)
            BY <1>7, <2>3
        <3>2. QED BY <3>1, <1>9 DEF WithEntries
    <2>5. x[1].core.offset <= d.offset
        BY <1>4, <1>9 DEF LogAfter
    <2>6. QED BY <2>2, <2>4, <2>5
<1>10. PICK st : st = restore(x[1].store, x[3].data)
    OBVIOUS
<1>11. st \in Stores /\ Reflects(st, h, lo)
    <2>1. CASE x[3].index = 0
        <3>1. st = x[1].store
            BY <1>9, <1>10, <2>1 DEF restore
        <3>2. Reflects(st, g, lo)
            BY <1>9, <2>1, <3>1 DEF Reflecting
        <3>3. QED BY <1>5, <1>7, <1>9, <2>1, <3>1, <3>2, ReflectsOther
    <2>2. CASE x[3].index # 0
        <3>1. x[3].data # NoData
            BY <2>2, StoresAssumption
        <3>2. st = x[3].data
            BY <1>10, <3>1 DEF restore
        <3>3. lo = x[3].index
            BY <1>7, <2>2 DEF AppliesFrom
        <3>4. QED BY <2>2, <3>2, <3>3
    <2>3. QED BY <2>1, <2>2
<1>12. Reflects(t.store, h, t.core.hs.commit)
    <2>1. Reflects(t.store, h, lo + n)
        <3>1. t.store = apply(st, new)
            BY <1>4, <1>10
        <3>2. DOMAIN new = 1..n
            BY <1>7 DEF OneByOne
        <3>3. \A k \in 1..n : new[k] = h[lo + k]
            BY <1>8
        <3>4. QED BY <3>1, <3>2, <3>3, <1>7, <1>11, ApplyReflects
    <2>2. QED BY <1>4, <1>7, <2>1
<1>13. NoneWaits(t, h)
    <2> SUFFICES ASSUME NEW i \in 1..t.commit, i > t.applied, i > d.offset
                 PROVE  h[i].data = NoData
        BY <1>4 DEF NoneWaits
    <2>1. i \in Nat
        BY <1>7
    <2>2. CASE i <= lo
        <3>1. x[3].index = 0
            BY <1>4, <1>7, <2>1, <2>2 DEF LogAfter, AppliesFrom
        <3>2. CASE CommandsIn(new) = {}
            <4>1. i \in 1..x[1].core.hs.commit /\ i > x[1].applied /\ i > x[1].core.offset
                BY <1>4, <1>5, <1>9, <2>1, <2>2, <3>1, <3>2
            <4>2. QED BY <4>1, <1>7, <1>9, <3>1 DEF Reflecting, NoneWaits
        <3>3. CASE CommandsIn(new) # {}
            <4>1. Max(CommandsIn(new)) \in 1..n
                <5>1. CommandsIn(new) \subseteq 1..n
                    BY <1>8 DEF CommandsIn
                <5>2. Max(CommandsIn(new)) \in CommandsIn(new)
                    BY <5>1, <3>3, MaxPosition
                <5>3. QED BY <5>1, <5>2
            <4>2. PICK k \in 1..n : t.applied = lo + k
                BY <4>1, <1>4, <1>8, <3>3
            <4>3. QED BY <4>2, <1>7, <2>1, <2>2
        <3>4. QED BY <3>2, <3>3
    <2>3. CASE ~(i <= lo)
        <3>1. SUFFICES ASSUME h[i].data # NoData PROVE FALSE
            OBVIOUS
        <3>2. i - lo \in 1..n /\ lo + (i - lo) = i
            BY <1>7, <2>1, <2>3
        <3>3. i - lo \in CommandsIn(new) /\ new[i - lo].index = i
            BY <1>8, <3>1, <3>2 DEF CommandsIn
        <3>4. PICK k : k = Max(CommandsIn(new))
            OBVIOUS
        <3>5. k \in 1..n /\ i - lo <= k
            <4>1. CommandsIn(new) \in SUBSET (1..n) /\ CommandsIn(new) \in SUBSET Int
                BY <1>8 DEF CommandsIn
            <4>2. IsFiniteSet(1..n)
                BY FS_Interval
            <4>3. IsFiniteSet(CommandsIn(new))
                BY <4>1, <4>2, FS_Subset
            <4>4. QED BY <3>3, <3>4, <4>1, <4>3, MaxExists
        <3>6. t.applied = lo + k
            BY <1>4, <1>8, <3>3, <3>4, <3>5
        <3>7. QED BY <1>7, <2>1, <3>5, <3>6
    <2>4. QED BY <2>2, <2>3
<1>14. Carries(t.core.snap, h)
    <2>1. d.snap = IF x[3].index = 0 THEN x[1].core.snap ELSE x[3]
        BY <1>1, PersistSnap
    <2>2. CASE x[3].index = 0
        <3>1. PICK s : s = x[1].core.snap
            OBVIOUS
        <3>2. SUFFICES ASSUME s.index # 0 PROVE s.data \in Stores /\ Reflects(s.data, h, s.index)
            BY <1>4, <2>1, <2>2, <3>1 DEF Carries
        <3>3. s.index \in Nat /\ s.index <= lo
            BY <1>5, <1>9, <2>2, <3>1, <3>2
        <3>4. s.data \in Stores /\ Reflects(s.data, g, s.index)
            BY <3>1, <3>2 DEF Reflecting, Carries
        <3>5. \A i \in 1..s.index : h[i] = g[i]
            BY <1>7, <1>9, <2>2, <3>3
        <3>6. QED BY <3>3, <3>4, <3>5, ReflectsOther
    <2>3. CASE x[3].index # 0
        BY <1>4, <2>1, <2>3 DEF Carries
    <2>4. QED BY <2>2, <2>3
<1>15. Reflecting(t, h)
    BY <1>12, <1>13, <1>14 DEF Reflecting
<1>16. m = TriggerSnapshot(t)
    BY <1>1, <1>3 DEF After
<1>17. QED BY <1>4, <1>15, <1>16, TriggerReflects

LEMMA TurnsFit ==
    ASSUME CInv, NEW F, NEW G \in Logs, Ends(F), NEW t, SoundTurns(t), NEW wr, Turns(t, wr),
           \A n \in DOMAIN t : Fits(F, G, n, t[n]),
           \A n \in Node : n \notin DOMAIN t => G[n] = F[n]
    PROVE  /\ Ends(G)' /\ HistoryStep(F, G)
           /\ \A n \in DOMAIN t :
                /\ Last(n)' = ReadyEnd(t[n])
                /\ node'[n].commit = (IF N = 1 /\ t[n][1].role = "leader" THEN ReadyEnd(t[n])
                                      ELSE t[n][1].commit)
<1>1. ASSUME NEW n \in DOMAIN t, NEW x, x = t[n]
      PROVE  /\ n \in Node /\ EndOf(node'[n].core, G[n]) /\ Reflecting(node'[n], G[n])
             /\ last_index(node'[n].core) = ReadyEnd(x)
             /\ node'[n].commit = (IF N = 1 /\ x[1].role = "leader" THEN ReadyEnd(x)
                                   ELSE x[1].commit)
             /\ \A y \in Recorded(Applied(x)) :
                  y[1] \in 1..node'[n].commit /\ y = <<y[1], G[n][y[1]].data>>
             /\ \A i \in 1..node'[n].commit :
                  i <= AppliesFrom(x) \/ <<i, G[n][i].data>> \in Recorded(Applied(x))
    <2>1. n \in Node /\ SoundReady(x) /\ Fits(F, G, n, x)
        BY <1>1 DEF SoundTurns
    <2>2. node'[n] = After(x)
        BY <1>1, <2>1, TurnsEffect
    <2>3. EndOf(x[1].core, F[n]) /\ Reflecting(x[1], F[n])
        BY <2>1 DEF Ends, Fits, Untouched, Reflecting, NoneWaits
    <2>4. PICK g, h : g = F[n] /\ h = G[n] /\ h \in [Nat -> EntryType(Data)]
        BY <2>1 DEF Logs
    <2>5. /\ EndOf(x[1].core, g) /\ Reflecting(x[1], g)
          /\ x[3].index = 0 => WithEntries(g, x[2], h)
          /\ x[3].index # 0 => /\ h[x[3].index].term = x[3].term
                               /\ x[3].data \in Stores /\ Reflects(x[3].data, h, x[3].index)
        BY <2>1, <2>3, <2>4 DEF Fits
    <2>6. PICK m : m = node'[n] /\ m = After(x)
        BY <2>2
    <2>7. /\ EndOf(m.core, h) /\ last_index(m.core) = ReadyEnd(x)
          /\ m.commit = (IF N = 1 /\ x[1].role = "leader" THEN ReadyEnd(x) ELSE x[1].commit)
          /\ \A y \in Recorded(Applied(x)) : y[1] \in 1..m.commit /\ y = <<y[1], h[y[1]].data>>
          /\ \A i \in 1..m.commit :
               i <= AppliesFrom(x) \/ <<i, h[i].data>> \in Recorded(Applied(x))
        BY <2>1, <2>5, <2>6, ReadyEnds
    <2>8. Reflecting(m, h)
        BY <2>1, <2>4, <2>5, <2>6, TurnReflects
    <2>9. QED BY <2>1, <2>4, <2>6, <2>7, <2>8
<1>2. ASSUME NEW n \in Node, n \notin DOMAIN t PROVE node'[n] = node[n] /\ G[n] = F[n]
    BY <1>2, TurnsEffect
<1>3. history' = history \cup UNION {Recorded(Applied(t[n])) : n \in DOMAIN t}
    BY TurnsEffect
<1>4. Ends(G)'
    BY <1>1, <1>2 DEF Ends
<1>5. ASSUME NEW y \in history'
      PROVE  y \in history \/ \E n \in Node :
               y[1] \in 1..node'[n].commit /\ y = <<y[1], G[n][y[1]].data>>
    BY <1>1, <1>3
<1>6. ASSUME NEW n \in Node, NEW i \in 1..node'[n].commit
      PROVE  \/ i <= node[n].commit
             \/ <<i, G[n][i].data>> \in history'
             \/ \E l \in Node : i <= node[l].commit /\ G[n][i] = F[l][i]
    <2>1. CASE n \notin DOMAIN t
        BY <2>1, <1>2
    <2>2. CASE n \in DOMAIN t
        <3>1. PICK x : x = t[n]
            OBVIOUS
        <3>2. i <= AppliesFrom(x) \/ <<i, G[n][i].data>> \in Recorded(Applied(x))
            BY <2>2, <3>1, <1>1
        <3>3. CASE <<i, G[n][i].data>> \in Recorded(Applied(x))
            BY <2>2, <3>1, <3>3, <1>3
        <3>4. CASE i <= AppliesFrom(x) /\ x[3].index = 0
            <4>1. x[1].core.hs.commit = node[n].commit
                BY <2>2, <3>1, MemberParts DEF Fits, Untouched
            <4>2. QED BY <3>4, <4>1 DEF AppliesFrom
        <3>5. CASE i <= AppliesFrom(x) /\ x[3].index # 0
            <4>1. PICK l \in Node : x[3].index <= node[l].commit /\ Agree(G[n], F[l], x[3].index)
                BY <2>2, <3>1, <3>5 DEF Fits
            <4>2. i <= x[3].index /\ x[3].index \in Nat /\ node[l].commit \in Nat /\ i \in Nat
                  /\ SoundReady(x)
                <5>1. SoundReady(x)
                    BY <2>2, <3>1 DEF SoundTurns
                <5>2. x[3].index \in Nat
                    BY <5>1 DEF SoundReady, NoSnapshot, Snapshot, SnapType
                <5>3. QED BY <5>1, <5>2, <3>5, MemberParts DEF AppliesFrom
            <4>3. i <= node[l].commit /\ i \in 0..x[3].index
                BY <4>1, <4>2
            <4>4. QED BY <4>1, <4>3 DEF Agree
        <3>6. QED BY <3>2, <3>3, <3>4, <3>5
    <2>3. QED BY <2>1, <2>2
<1>7. HistoryStep(F, G)
    BY <1>3, <1>5, <1>6 DEF HistoryStep
<1>8. ASSUME NEW n \in DOMAIN t
      PROVE  /\ Last(n)' = ReadyEnd(t[n])
             /\ node'[n].commit = (IF N = 1 /\ t[n][1].role = "leader" THEN ReadyEnd(t[n])
                                   ELSE t[n][1].commit)
    <2>1. PICK x : x = t[n]
        OBVIOUS
    <2>2. QED BY <2>1, <1>1 DEF Last
<1>9. QED BY <1>4, <1>7, <1>8
-----------------------------------------------------------------------------
(***************************************************************************)
(* The actions.  First those in which no member hears from a leader: only  *)
(* a leader on its own commits, and nothing is acknowledged.               *)
(***************************************************************************)
\* F with one more entry, or another one, in n's log.
Entered(F, n, e) == [F EXCEPT ![n] = [F[n] EXCEPT ![e.index] = e]]

LEMMA EnteredIsLogs ==
    ASSUME NEW F \in Logs, NEW n \in Node, NEW e \in EntryType(Data), NEW G, G = Entered(F, n, e)
    PROVE  /\ G \in Logs /\ \A m \in Node : m # n => G[m] = F[m]
           /\ e.index \in Nat /\ G[n][e.index] = e
           /\ \A i \in Nat : i # e.index => G[n][i] = F[n][i]
           /\ WithEntries(F[n], <<e>>, G[n])
<1>1. e.index \in Nat
    BY DEF EntryType
<1>2. F[n] \in [Nat -> EntryType(Data)]
    BY DEF Logs
<1>3. PICK g : g = [F[n] EXCEPT ![e.index] = e]
    OBVIOUS
<1>4. /\ g \in [Nat -> EntryType(Data)] /\ g[e.index] = e
      /\ \A i \in Nat : i # e.index => g[i] = F[n][i]
    BY <1>1, <1>2, <1>3
<1>5. G = [F EXCEPT ![n] = g]
    BY <1>3 DEF Entered
<1>6. G \in Logs /\ G[n] = g /\ \A m \in Node : m # n => G[m] = F[m]
    BY <1>4, <1>5 DEF Logs
<1>7. WithEntries(F[n], <<e>>, G[n])
    BY <1>4, <1>6 DEF WithEntries
<1>8. QED BY <1>1, <1>4, <1>6, <1>7

LEMMA AloneIsMajority ==
    ASSUME N = 1, NEW n \in Node, NEW S \in SUBSET Node, n \in S
    PROVE  Majority(S)
<1>1. S = {n}
    <2>1. \A v \in Node : v = 1
        BY DEF Node
    <2>2. QED BY <2>1
<1>2. Cardinality(S) = 1
    BY <1>1, FS_Singleton
<1>3. QED BY <1>2 DEF Majority

LEMMA OwnCommits ==
    ASSUME NEW F, NEW G, PledgeStep(F, G),
           \A n \in Node : \/ node'[n].commit = node[n].commit
                           \/ N = 1 /\ Leading(n)' /\ node'[n].commit = Last(n)'
                              /\ Last(n) <= Last(n)'
    PROVE  CommitStep(F, G)
<1> SUFFICES ASSUME NEW n \in Node
             PROVE  /\ node[n].commit <= node'[n].commit
                    /\ \/ node'[n].commit = node[n].commit
                       \/ /\ Leading(n)' /\ G[n][node'[n].commit].term = node'[n].term
                          /\ Majority(Holders(n, node[n].commit)')
    BY DEF CommitStep
<1>1. /\ node[n].commit \in Nat /\ node'[n].commit \in Nat /\ node[n].commit <= Last(n)
      /\ Last(n) \in Nat /\ Last(n)' \in Nat
    BY StepParts DEF Numbers
<1>2. CASE node'[n].commit = node[n].commit
    BY <1>1, <1>2
<1>3. CASE N = 1 /\ Leading(n)' /\ node'[n].commit = Last(n)' /\ Last(n) <= Last(n)'
    <2>1. G[n][Last(n)'].term = node'[n].term
        BY <1>3, StepParts, OwnsKept DEF LastOwn
    <2>2. Holders(n, node[n].commit)' \in SUBSET Node /\ n \in Holders(n, node[n].commit)'
        BY DEF Holders
    <2>3. Majority(Holders(n, node[n].commit)')
        BY <1>3, <2>2, AloneIsMajority
    <2>4. node[n].commit <= node'[n].commit
        BY <1>1, <1>3
    <2>5. QED BY <1>3, <2>1, <2>3, <2>4
<1>4. QED BY <1>2, <1>3

LEMMA OwnAcks ==
    ASSUME NEW F, NEW G,
           \A l \in Node : Leading(l)' =>
               \/ Leading(l) /\ node'[l].matched = node[l].matched
               \/ ~Leading(l) /\ node'[l].matched = [f \in Node |-> 0]
    PROVE  AckStep(F, G)
    BY DEF AckStep

\* No step of raft-rs itself changes the store of the loop.
LEMMA RaftKeepsStore ==
    ASSUME NEW nd \in NodeType
    PROVE  /\ \A t, l : become_follower(nd, t, l).store = nd.store
           /\ \A n : become_candidate(nd, n).store = nd.store
           /\ \A n : become_leader(nd, n).store = nd.store
           /\ \A i : AtCommit(nd, i).store = nd.store
           /\ \A f, k : Heard(nd, f, k).store = nd.store
           /\ \A k : CommitTo(nd, k).store = nd.store
           /\ \A n : MaybeCommit(nd, n).store = nd.store
<1>1. \A t, l : become_follower(nd, t, l).store = nd.store
    BY DEF become_follower, NodeType
<1>2. \A n : become_candidate(nd, n).store = nd.store
    BY DEF become_candidate, become_follower, NodeType
<1>3. \A n : become_leader(nd, n).store = nd.store
    BY DEF become_leader, become_follower, NodeType
<1>4. \A i : AtCommit(nd, i).store = nd.store
    BY DEF AtCommit, NodeType
<1>5. \A f, k : Heard(nd, f, k).store = nd.store
    BY DEF Heard, NodeType
<1>6. \A k : CommitTo(nd, k).store = nd.store
    BY DEF CommitTo, NodeType
<1>7. ASSUME NEW n PROVE MaybeCommit(nd, n).store = nd.store
    <2> DEFINE held(i) == {n} \cup {g \in Node : nd.matched[g] >= i}
               able == {i \in nd.commit + 1 .. last_index(nd.core) :
                          Majority(held(i)) /\ term(nd.core, i) = nd.term}
    <2>1. MaybeCommit(nd, n) = IF able = {} THEN nd ELSE AtCommit(nd, Max(able))
        BY DEF MaybeCommit, AtCommit
    <2> HIDE DEF able
    <2>2. QED BY <2>1, <1>4
<1>8. QED BY <1>1, <1>2, <1>3, <1>4, <1>5, <1>6, <1>7

\* A turn of one member without a new entry, a snapshot or a commit index.
LEMMA QuietAgreement ==
    ASSUME CInv, CInv', Elections, VoteStep, NEW F \in Logs, Agreed(F), NEW n \in Node, NEW m,
           SoundTurns(One(n, Plain(m))), NEW wr, Turns(One(n, Plain(m)), wr),
           Untouched(m, n), m.commit = node[n].commit,
           m.role = "leader" => Leading(n) /\ m.matched = node[n].matched,
           LogKinds(F, F) => VotesEarned(F, F)
    PROVE  AgreementStep(F, F)
<1>1. /\ \A k \in Node : k # n => node'[k] = node[k]
      /\ node'[n].role = m.role /\ node'[n].matched = m.matched
    BY TurnOfOne DEF Plain
<1>2. PICK x : x = Plain(m)
    OBVIOUS
<1>3. x[1] = m /\ x[2] = <<>> /\ x[3] = NoSnapshot /\ x[3].index = 0
    BY <1>2 DEF Plain, NoSnapshot, Snapshot
<1>4. PICK t : t = One(n, x)
    OBVIOUS
<1>5. DOMAIN t = {n} /\ t[n] = x
    BY <1>4 DEF One
<1>6. Fits(F, F, n, x)
    BY <1>3 DEF Fits, WithEntries
<1>7. /\ Ends(F)' /\ HistoryStep(F, F)
      /\ Last(n)' = ReadyEnd(x)
      /\ node'[n].commit = (IF N = 1 /\ x[1].role = "leader" THEN ReadyEnd(x) ELSE x[1].commit)
    <2>1. SoundTurns(t) /\ Turns(t, wr) /\ Ends(F)
        BY <1>2, <1>4 DEF Agreed
    <2>2. \A k \in DOMAIN t : Fits(F, F, k, t[k])
        BY <1>5, <1>6
    <2>3. /\ Ends(F)' /\ HistoryStep(F, F)
          /\ \A k \in DOMAIN t :
               /\ Last(k)' = ReadyEnd(t[k])
               /\ node'[k].commit = (IF N = 1 /\ t[k][1].role = "leader" THEN ReadyEnd(t[k])
                                     ELSE t[k][1].commit)
        BY <2>1, <2>2, TurnsFit
    <2>4. QED BY <2>3, <1>5
<1>8. ReadyEnd(x) = Last(n) /\ Last(n)' = Last(n)
    BY <1>3, <1>7 DEF ReadyEnd, Last, Untouched
<1>9. \A k \in Node : Stays(F, F, k)
    BY <1>1, <1>8 DEF Stays, Leading, Last
<1>10. VotesEarned(F, F)
    BY <1>9 DEF LogKinds
<1>11. PledgeStep(F, F)
    BY <1>9, <1>10, KindsPledge DEF LogKinds, Agreed
<1>12. Numbers
    BY StepNumbers
<1>13. ASSUME NEW k \in Node
       PROVE  \/ node'[k].commit = node[k].commit
              \/ N = 1 /\ Leading(k)' /\ node'[k].commit = Last(k)' /\ Last(k) <= Last(k)'
    BY <1>1, <1>3, <1>7, <1>8, <1>12 DEF Leading, Numbers
<1>14. CommitStep(F, F)
    BY <1>11, <1>13, OwnCommits
<1>15. AckStep(F, F)
    BY <1>1, OwnAcks DEF Leading
<1>16. QED BY <1>7, <1>11, <1>14, <1>15 DEF AgreementStep

LEMMA TransferAgreement ==
    ASSUME CInv, CInv', Elections, NEW F \in Logs, Agreed(F), NEW n \in Node,
           TransferLeader(n) \/ TransferTimesOut(n)
    PROVE  AgreementStep(F, F)
<1>1. TermsTyped /\ Numbers
    BY StepTyped, StepNumbers
<1>2. Only(n, n) /\ Same(n)
    BY TransferEffect
<1>3. \A k \in Node : Calm(k)
    BY <1>2 DEF Only, Calm, Same
<1>4. VoteStep
    BY <1>1, <1>3, CalmIsVoteStep DEF Elections
<1>5. LogKinds(F, F) => VotesEarned(F, F)
    BY <1>1, <1>3, CalmVotes
<1>6. PICK b \in BOOLEAN : Turns(One(n, Plain([node[n] EXCEPT !.transferring = b])), write)
    BY DEF TransferLeader, TransferTimesOut
<1>7. PICK m : m = [node[n] EXCEPT !.transferring = b]
    OBVIOUS
<1>8. Untouched(m, n) /\ m.commit = node[n].commit /\ m.role = node[n].role
      /\ m.matched = node[n].matched
    BY <1>7, MemberParts DEF NodeType, Untouched
<1>9. SoundTurns(One(n, Plain(m))) /\ Turns(One(n, Plain(m)), write)
    BY <1>6, <1>7, TransferSound
<1>10. QED BY <1>4, <1>5, <1>8, <1>9, QuietAgreement DEF Leading

LEMMA CampaignAgreement ==
    ASSUME CInv, CInv', Elections, NEW F \in Logs, Agreed(F), NEW n \in Node, Campaign(n)
    PROVE  AgreementStep(F, F)
<1>1. TermsTyped /\ Numbers
    BY StepTyped, StepNumbers
<1>2. VoteStep
    BY <1>1, CampaignVotes DEF Elections
<1>3. PICK m : m = become_candidate(node[n], n)
    OBVIOUS
<1>4. SoundTurns(One(n, Plain(m))) /\ Turns(One(n, Plain(m)), write)
    BY <1>3, CampaignSound DEF Campaign
<1>5. /\ Untouched(m, n) /\ m.commit = node[n].commit /\ m.role = "candidate"
      /\ m.votes = {n}
    <2>1. /\ m.core = node[n].core /\ m.applied = node[n].applied /\ m.commit = node[n].commit
          /\ m.role = "candidate" /\ m.votes = {n}
        BY <1>3, MemberParts, CandidateEffect
    <2>2. m.store = node[n].store
        BY <1>3, MemberParts, RaftKeepsStore
    <2>3. QED BY <2>1, <2>2 DEF Untouched
<1>6. /\ \A k \in Node : k # n => node'[k] = node[k]
      /\ node'[n].role = "candidate" /\ node'[n].votes = {n}
    BY <1>4, <1>5, TurnOfOne DEF Plain
<1>7. ASSUME LogKinds(F, F) PROVE VotesEarned(F, F)
    <2>1. ASSUME NEW c \in Node, Standing(c)'
          PROVE  /\ Last(c)' = Last(c) /\ Agree(F[c], F[c], Last(c))
                 /\ \A v \in node'[c].votes : Earned(F, c, v)
        <3>1. Stays(F, F, c)
            BY <1>7, <2>1 DEF LogKinds, Grows, Copies, Standing, Leading
        <3>2. CASE c = n
            BY <1>1, <1>6, <3>1, <3>2 DEF Earned, Ahead, Stays, Agree, Numbers
        <3>3. CASE c # n
            BY <1>6, <2>1, <3>1, <3>3 DEF Earned, Stays, Agree, Standing
        <3>4. QED BY <3>2, <3>3
    <2>2. ASSUME NEW c \in Node, Leading(c)', ~Leading(c) PROVE FALSE
        BY <2>2, <1>6 DEF Leading
    <2>3. QED BY <2>1, <2>2 DEF VotesEarned
<1>8. QED BY <1>2, <1>4, <1>5, <1>7, QuietAgreement
-----------------------------------------------------------------------------
(***************************************************************************)
(* A leader's log grows: by a proposal, or by the entry of its election.   *)
(***************************************************************************)
LEMMA NewEntryLogs ==
    ASSUME CInv, NEW F \in Logs, NEW n \in Node, NEW tm \in Nat, NEW data \in Data,
           NEW e, e = Entry(last_index(node[n].core) + 1, tm, data), NEW G, G = Entered(F, n, e),
           NEW m, Untouched(m, n), NEW x, x = <<m, <<e>>, NoSnapshot>>
    PROVE  /\ G \in Logs /\ \A k \in Node : k # n => G[k] = F[k]
           /\ Fits(F, G, n, x) /\ ReadyEnd(x) = Last(n) + 1
           /\ G[n][Last(n) + 1].term = tm /\ Agree(G[n], F[n], Last(n))
<1>1. Last(n) \in Nat
    BY MemberParts DEF Last
<1>2. e \in EntryType(Data) /\ e.index = Last(n) + 1 /\ e.term = tm
    BY <1>1 DEF Entry, EntryType, Last
<1>3. /\ G \in Logs /\ \A k \in Node : k # n => G[k] = F[k]
      /\ G[n][e.index] = e /\ \A i \in Nat : i # e.index => G[n][i] = F[n][i]
      /\ WithEntries(F[n], <<e>>, G[n])
    BY <1>2, EnteredIsLogs
<1>4. Agree(G[n], F[n], Last(n))
    BY <1>1, <1>2, <1>3 DEF Agree
<1>5. Fits(F, G, n, x)
    BY <1>3 DEF Fits, NoSnapshot, Snapshot
<1>6. ReadyEnd(x) = Last(n) + 1
    BY <1>2 DEF ReadyEnd, NoSnapshot, Snapshot
<1>7. QED BY <1>2, <1>3, <1>4, <1>5, <1>6

LEMMA ProposeAgreement ==
    ASSUME CInv, CInv', Elections, NEW F \in Logs, Agreed(F), NEW n \in Node, Leading(n),
           NEW w \in Write, NEW wr,
           Turns(One(n, <<node[n], NextEntry(node[n], w), NoSnapshot>>), wr)
    PROVE  \E G \in Logs : AgreementStep(F, G)
<1>1. TermsTyped /\ Numbers
    BY StepTyped, StepNumbers
<1>2. Only(n, n) /\ Same(n) /\ node'[n].matched = node[n].matched
    BY ProposeEffect
<1>3. /\ \A k \in Node : Calm(k)
      /\ \A k \in Node : k # n => node'[k] = node[k]
    BY <1>2 DEF Only, Calm, Same
<1>4. VoteStep
    BY <1>1, <1>3, CalmIsVoteStep DEF Elections
<1>5. PICK e : e = Entry(last_index(node[n].core) + 1, node[n].term, w)
    OBVIOUS
<1>6. PICK x : x = <<node[n], <<e>>, NoSnapshot>>
    OBVIOUS
<1>7. x = <<node[n], NextEntry(node[n], w), NoSnapshot>>
    BY <1>5, <1>6 DEF NextEntry
<1>8. PICK G : G = Entered(F, n, e)
    OBVIOUS
<1>9. /\ G \in Logs /\ \A k \in Node : k # n => G[k] = F[k]
      /\ Fits(F, G, n, x) /\ ReadyEnd(x) = Last(n) + 1
      /\ G[n][Last(n) + 1].term = node[n].term /\ Agree(G[n], F[n], Last(n))
    <2>1. w \in Data /\ node[n].term \in Nat
        BY <1>1 DEF Data, TermsTyped
    <2>2. Untouched(node[n], n)
        BY DEF Untouched
    <2>3. QED BY <2>1, <2>2, <1>5, <1>6, <1>8, NewEntryLogs
<1>10. PICK t : t = One(n, x)
    OBVIOUS
<1>11. DOMAIN t = {n} /\ t[n] = x /\ Turns(t, wr) /\ SoundTurns(t)
    BY <1>7, <1>10, ProposeSound DEF One
<1>12. /\ Ends(G)' /\ HistoryStep(F, G)
       /\ Last(n)' = Last(n) + 1
       /\ node'[n].commit = (IF N = 1 /\ x[1].role = "leader" THEN Last(n) + 1 ELSE x[1].commit)
    <2>1. /\ \A k \in DOMAIN t : Fits(F, G, k, t[k])
          /\ \A k \in Node : k \notin DOMAIN t => G[k] = F[k]
        BY <1>9, <1>11
    <2>2. /\ Ends(G)' /\ HistoryStep(F, G)
          /\ \A k \in DOMAIN t :
               /\ Last(k)' = ReadyEnd(t[k])
               /\ node'[k].commit = (IF N = 1 /\ t[k][1].role = "leader" THEN ReadyEnd(t[k])
                                     ELSE t[k][1].commit)
        <3>1. Ends(F)
            BY DEF Agreed
        <3>2. QED BY <3>1, <2>1, <1>9, <1>11, TurnsFit
    <2>3. QED BY <2>2, <1>9, <1>11
<1>13. Leading(n)'
    BY <1>2 DEF Same, Leading
<1>14. LogKinds(F, G)
    <2>1. Grows(F, G, n)
        BY <1>9, <1>12, <1>13 DEF Grows
    <2>2. \A k \in Node : k # n => Stays(F, G, k)
        BY <1>3, <1>9 DEF Stays, Last, Leading
    <2>3. QED BY <2>1, <2>2 DEF LogKinds
<1>15. PledgeStep(F, G)
    BY <1>1, <1>3, <1>4, <1>9, <1>14, CalmVotes, KindsPledge DEF Agreed
<1>16. CommitStep(F, G)
    <2>1. ASSUME NEW k \in Node
          PROVE  \/ node'[k].commit = node[k].commit
                 \/ N = 1 /\ Leading(k)' /\ node'[k].commit = Last(k)' /\ Last(k) <= Last(k)'
        BY <1>1, <1>3, <1>6, <1>12, <1>13 DEF Numbers
    <2>2. QED BY <1>15, <2>1, OwnCommits
<1>17. AckStep(F, G)
    BY <1>2, <1>3, OwnAcks DEF Leading, Same
<1>18. QED BY <1>9, <1>12, <1>15, <1>16, <1>17 DEF AgreementStep

\* raft-rs's test for a vote compares the ends of the two logs.
LEMMA UpToDateIsAhead ==
    ASSUME CInv, NEW F, Ends(F), NEW c \in Node, NEW v \in Node, NEW nd,
           nd.core = node[v].core, UpToDate(node[c], nd)
    PROVE  Ahead(F, c, v)
<1>1. ASSUME NEW n \in Node
      PROVE  term(node[n].core, last_index(node[n].core)) = F[n][Last(n)].term
    <2>1. Good(Data, SnapData, node[n].core)
        BY MemberParts
    <2>2. last_index(node[n].core) \in Held(node[n].core)
        BY <2>1, LogNumbers DEF Held
    <2>3. PICK j : j = Last(n) /\ j \in Held(node[n].core)
        BY <2>2 DEF Last
    <2>4. term(node[n].core, j) = At(node[n].core, j).term
        BY <2>1, <2>3, LogNumbers
    <2>5. At(node[n].core, j).term = F[n][j].term
        BY <2>3 DEF Ends, EndOf
    <2>6. QED BY <2>3, <2>4, <2>5 DEF Last
<1>2. QED BY <1>1 DEF UpToDate, Ahead, Last

\* The members of a vote request as raft-rs leaves them, besides their votes.
LEMMA RequestLeavesLogs ==
    ASSUME CInv, NEW c \in Node, NEW v \in Node, node[c].term >= node[v].term
    PROVE  /\ Untouched(Voter(c, v), v) /\ Voter(c, v).commit = node[v].commit
           /\ Untouched(become_leader(node[c], c), c)
           /\ become_leader(node[c], c).commit = node[c].commit
           /\ become_leader(node[c], c).term = node[c].term
           /\ become_leader(node[c], c).role = "leader"
           /\ \A lost : /\ Untouched(Asked(c, v, lost), c)
                        /\ Asked(c, v, lost).commit = node[c].commit
                        /\ Asked(c, v, lost).role = node[c].role
                        /\ Asked(c, v, lost).votes = Votes(c, v, lost)
<1>1. PICK m : m = Requested(c, v)
    OBVIOUS
<1>2. /\ m \in NodeType /\ m.core = node[v].core /\ m.applied = node[v].applied
      /\ m.commit = node[v].commit /\ m.store = node[v].store
    <2>1. /\ m \in NodeType /\ m.core = node[v].core /\ m.applied = node[v].applied
          /\ m.commit = node[v].commit
        BY <1>1, RequestedEffect
    <2>2. m.store = node[v].store
        BY <1>1, MemberParts, RaftKeepsStore DEF Requested
    <2>3. QED BY <2>1, <2>2
<1>3. LET w == [m EXCEPT !.vote = c] IN
      w.core = m.core /\ w.commit = m.commit /\ w.store = m.store /\ w.applied = m.applied
    BY <1>2 DEF NodeType
<1>4. Untouched(Voter(c, v), v) /\ Voter(c, v).commit = node[v].commit
    BY <1>1, <1>2, <1>3 DEF Voter, Untouched
<1>5. PICK b : b = become_leader(node[c], c)
    OBVIOUS
<1>6. Untouched(b, c) /\ b.commit = node[c].commit /\ b.term = node[c].term
      /\ b.role = "leader"
    <2>1. /\ b.core = node[c].core /\ b.applied = node[c].applied /\ b.commit = node[c].commit
          /\ b.term = node[c].term /\ b.role = "leader"
        BY <1>5, LeaderEffect, MemberParts
    <2>2. b.store = node[c].store
        BY <1>5, MemberParts, RaftKeepsStore
    <2>3. QED BY <2>1, <2>2 DEF Untouched
<1>7. ASSUME NEW lost
      PROVE  /\ Untouched(Asked(c, v, lost), c)
             /\ Asked(c, v, lost).commit = node[c].commit
             /\ Asked(c, v, lost).role = node[c].role
             /\ Asked(c, v, lost).votes = Votes(c, v, lost)
    BY MemberParts DEF Asked, NodeType, Untouched
<1>8. QED BY <1>4, <1>5, <1>6, <1>7

\* The logs after a vote request, that a candidate's Ready y fits.
CandidateLogs(F, G, c, y, votes) ==
    /\ \A k \in Node : k # c => G[k] = F[k]
    /\ Fits(F, G, c, y) /\ y[1].commit = node[c].commit
    /\ \/ /\ Majority(votes) /\ y[1].role = "leader" /\ ReadyEnd(y) = Last(c) + 1
          /\ G[c][Last(c) + 1].term = node[c].term /\ Agree(G[c], F[c], Last(c))
       \/ /\ y[1].role = node[c].role /\ y[1].votes = votes /\ ReadyEnd(y) = Last(c)
          /\ G[c] = F[c]

LEMMA CandidateReady ==
    ASSUME CInv, NEW F \in Logs, NEW c \in Node, NEW v \in Node, node[c].term >= node[v].term,
           NEW lost, NEW y, y = Candidate(c, v, lost)
    PROVE  \E G \in Logs : CandidateLogs(F, G, c, y, Votes(c, v, lost))
<1>1. CASE Majority(Votes(c, v, lost))
    <2>1. PICK b : b = become_leader(node[c], c)
        OBVIOUS
    <2>2. Untouched(b, c) /\ b.commit = node[c].commit /\ b.term = node[c].term
          /\ b.role = "leader"
        BY <2>1, RequestLeavesLogs
    <2>3. PICK e : e = Entry(last_index(node[c].core) + 1, node[c].term, NoData)
        OBVIOUS
    <2>4. y = <<b, <<e>>, NoSnapshot>>
        BY <1>1, <2>1, <2>2, <2>3 DEF Candidate, Elected, NextEntry, Untouched
    <2>5. PICK G : G = Entered(F, c, e)
        OBVIOUS
    <2>6. /\ G \in Logs /\ \A k \in Node : k # c => G[k] = F[k]
          /\ Fits(F, G, c, y) /\ ReadyEnd(y) = Last(c) + 1
          /\ G[c][Last(c) + 1].term = node[c].term /\ Agree(G[c], F[c], Last(c))
        <3>1. node[c].term \in Nat /\ NoData \in Data
            BY MemberParts
        <3>2. QED BY <3>1, <2>2, <2>3, <2>4, <2>5, NewEntryLogs
    <2>7. y[1] = b
        BY <2>4
    <2>8. QED BY <1>1, <2>2, <2>6, <2>7 DEF CandidateLogs
<1>2. CASE ~Majority(Votes(c, v, lost))
    <2>1. PICK m : m = Asked(c, v, lost)
        OBVIOUS
    <2>2. Untouched(m, c) /\ m.commit = node[c].commit /\ m.role = node[c].role
          /\ m.votes = Votes(c, v, lost)
        BY <2>1, RequestLeavesLogs
    <2>3. y[1] = m /\ y[2] = <<>> /\ y[3] = NoSnapshot /\ y[3].index = 0
        BY <1>2, <2>1 DEF Candidate, Plain, NoSnapshot, Snapshot
    <2>4. Fits(F, F, c, y) /\ ReadyEnd(y) = Last(c)
        BY <2>2, <2>3 DEF Fits, WithEntries, ReadyEnd, Last, Untouched
    <2>5. QED BY <2>2, <2>3, <2>4 DEF CandidateLogs
<1>3. QED BY <1>1, <1>2

LEMMA RequestVoteAgreement ==
    ASSUME CInv, CInv', Elections, NEW F \in Logs, Agreed(F), NEW c \in Node, NEW v \in Node,
           RequestVote(c, v)
    PROVE  \E G \in Logs : AgreementStep(F, G)
<1>1. TermsTyped /\ Numbers /\ VInv
    BY StepTyped, StepNumbers DEF Elections
<1>2. VoteStep
    BY <1>1, RequestVoteVotes
<1>3. /\ c # v /\ Standing(c) /\ Only(c, v)
      /\ node'[v].term = node[c].term
      /\ Calm(v) \/ node'[v].role = "follower"
      /\ node'[c].term = node[c].term
    BY <1>1, RequestVoteEffect
<1>4. /\ Leading(v)' => Leading(v) /\ node'[v].matched = node[v].matched
      /\ Leading(c)' => node'[c].matched = [f \in Node |-> 0]
    BY <1>1, RequestVoteLogs DEF Leading
<1>5. PICK lost \in Lost : Turns(Two(v, Plain(Voter(c, v)), c, Candidate(c, v, lost)), write)
    BY RequestVoteParts
<1>6. PICK x, y : x = Plain(Voter(c, v)) /\ y = Candidate(c, v, lost)
    OBVIOUS
<1>7. PICK t : t = Two(v, x, c, y)
    OBVIOUS
<1>8. DOMAIN t = {v, c} /\ t[v] = x /\ t[c] = y /\ Turns(t, write) /\ SoundTurns(t)
    BY <1>3, <1>5, <1>6, <1>7, RequestVoteSound DEF Two
<1>9. node[c].term >= node[v].term
    BY RequestVoteParts
<1>10. PICK votes : votes = Votes(c, v, lost)
    OBVIOUS
<1>11. PICK G \in Logs : CandidateLogs(F, G, c, y, votes)
    BY <1>6, <1>9, <1>10, CandidateReady
<1>12. /\ Untouched(x[1], v) /\ x[1].commit = node[v].commit
       /\ x[2] = <<>> /\ x[3].index = 0
    BY <1>6, <1>9, RequestLeavesLogs DEF Plain, NoSnapshot, Snapshot
<1>13. Fits(F, G, v, x) /\ ReadyEnd(x) = Last(v)
    BY <1>3, <1>11, <1>12 DEF Fits, WithEntries, ReadyEnd, Last, CandidateLogs, Untouched
<1>14. /\ Ends(G)' /\ HistoryStep(F, G)
       /\ \A k \in DOMAIN t :
            /\ Last(k)' = ReadyEnd(t[k])
            /\ node'[k].commit = (IF N = 1 /\ t[k][1].role = "leader" THEN ReadyEnd(t[k])
                                  ELSE t[k][1].commit)
    <2>1. /\ \A k \in DOMAIN t : Fits(F, G, k, t[k])
          /\ \A k \in Node : k \notin DOMAIN t => G[k] = F[k]
        BY <1>8, <1>11, <1>13 DEF CandidateLogs
    <2>2. QED BY <2>1, <1>8, TurnsFit DEF Agreed
<1>15. N # 1
    BY <1>3 DEF Node
<1>16. /\ Last(v)' = Last(v) /\ Last(c)' = ReadyEnd(y)
       /\ \A k \in Node : node'[k].commit = node[k].commit
    BY <1>3, <1>8, <1>11, <1>12, <1>13, <1>14, <1>15 DEF CandidateLogs, Only
<1>17. /\ \A k \in Node : k # c /\ k # v => node'[k] = node[k]
       /\ node'[c].role = y[1].role /\ node'[c].votes = y[1].votes
    <2>1. SoundTurns(Two(v, x, c, y)) /\ Turns(Two(v, x, c, y), write)
        BY <1>7, <1>8
    <2>2. QED BY <2>1, <1>3, TurnOfTwo
\* Every vote counted was backed, or is given to a log that is ahead.
<1>18. votes \in SUBSET Node
       /\ \A u \in votes : Earned(F, c, u) /\ node'[u].term >= node'[c].term
    <2>1. votes \subseteq Node
        BY <1>1, <1>10 DEF Votes, TermsTyped
    <2>2. ASSUME NEW u \in votes PROVE Earned(F, c, u) /\ node'[u].term >= node'[c].term
        <3>1. CASE u \in node[c].votes
            <4>1. Earned(F, c, u)
                BY <1>3, <3>1 DEF Earned
            <4>2. Backs(u, c, node[c].term) /\ u \in Node
                BY <1>1, <1>3, <2>1, <3>1 DEF VInv, VotesBacked
            <4>3. node'[u].term >= node[u].term /\ node[u].term >= node[c].term
                BY <1>1, <1>2, <4>2 DEF Backs, VoteStep, TermsTyped
            <4>4. QED BY <1>1, <1>3, <4>1, <4>2, <4>3 DEF TermsTyped
        <3>2. CASE u \notin node[c].votes
            <4>1. u = v /\ UpToDate(node[c], Requested(c, v))
                BY <1>10, <2>2, <3>2 DEF Votes
            <4>2. Requested(c, v).core = node[v].core
                BY <1>9, RequestedEffect
            <4>3. Ahead(F, c, v)
                BY <4>1, <4>2, UpToDateIsAhead DEF Agreed
            <4>4. QED BY <1>1, <1>3, <4>1, <4>3 DEF Earned, TermsTyped
        <3>3. QED BY <3>1, <3>2
    <2>3. QED BY <2>1, <2>2
<1>19. Stays(F, G, c) \/ (Grows(F, G, c) /\ Majority(votes))
    <2>1. CASE /\ Majority(votes) /\ y[1].role = "leader" /\ ReadyEnd(y) = Last(c) + 1
               /\ G[c][Last(c) + 1].term = node[c].term /\ Agree(G[c], F[c], Last(c))
        <3>1. Leading(c)' /\ Last(c)' = Last(c) + 1
            BY <2>1, <1>16, <1>17 DEF Leading
        <3>2. Wins(c)
            BY <3>1, <1>2, <1>3 DEF VoteStep, Standing, Leading
        <3>3. QED BY <2>1, <3>1, <3>2 DEF Grows
    <2>2. CASE y[1].role = node[c].role /\ ReadyEnd(y) = Last(c) /\ G[c] = F[c]
        BY <2>2, <1>16, <1>17 DEF Stays, Leading
    <2>3. QED BY <2>1, <2>2, <1>11 DEF CandidateLogs
<1>20. ASSUME NEW k \in Node, k # c PROVE Stays(F, G, k)
    BY <1>4, <1>11, <1>16, <1>17, <1>20 DEF Stays, Last, Leading, CandidateLogs
<1>21. LogKinds(F, G)
    BY <1>19, <1>20 DEF LogKinds
<1>22. ASSUME NEW k \in Node, Standing(k)'
       PROVE  /\ Last(k)' = Last(k) /\ Agree(G[k], F[k], Last(k))
              /\ \A u \in node'[k].votes : Earned(F, k, u)
    <2>1. Stays(F, G, k)
        BY <1>19, <1>20, <1>22 DEF Grows, Standing, Leading
    <2>2. \A u \in node'[k].votes : Earned(F, k, u)
        <3>1. CASE k = c
            BY <1>11, <1>17, <1>18, <1>22, <3>1 DEF CandidateLogs, Standing
        <3>2. CASE k = v
            BY <1>3, <1>22, <3>2 DEF Calm, Same, Steps, Standing, Earned
        <3>3. CASE k # c /\ k # v
            BY <1>17, <1>22, <3>3 DEF Standing, Earned
        <3>4. QED BY <3>1, <3>2, <3>3
    <2>3. QED BY <2>1, <2>2 DEF Stays, Agree
<1>23. ASSUME NEW k \in Node, Leading(k)', ~Leading(k)
       PROVE  \E V \in SUBSET Node : /\ Majority(V)
                                     /\ \A u \in V : Earned(F, k, u) /\ node'[u].term >= node'[k].term
    <2>1. k = c
        BY <1>20, <1>23 DEF Stays
    <2>2. Majority(votes)
        BY <1>19, <1>23, <2>1 DEF Stays
    <2>3. QED BY <2>1, <2>2, <1>18
<1>24. VotesEarned(F, G)
    BY <1>22, <1>23 DEF VotesEarned
<1>25. PledgeStep(F, G)
    BY <1>2, <1>21, <1>24, KindsPledge DEF Agreed
<1>26. CommitStep(F, G)
    BY <1>16, <1>25, OwnCommits
<1>27. AckStep(F, G)
    <2>1. ~Leading(c)
        BY <1>3 DEF Leading, Standing
    <2>2. ASSUME NEW l \in Node, Leading(l)'
          PROVE  \/ Leading(l) /\ node'[l].matched = node[l].matched
                 \/ ~Leading(l) /\ node'[l].matched = [f \in Node |-> 0]
        BY <2>1, <2>2, <1>4, <1>17 DEF Leading
    <2>3. QED BY <2>2, OwnAcks
<1>28. QED BY <1>14, <1>25, <1>26, <1>27 DEF AgreementStep
-----------------------------------------------------------------------------
(***************************************************************************)
(* Messages.  After one, with its Ready x, the follower's log is the       *)
(* leader's up to k, which it acknowledges; it commits no more than that.  *)
(***************************************************************************)
\* f's log, up to e, is l's from now on; nothing they had in common is lost.
Replaced(F, G, l, f, e) ==
    /\ e <= Last(l) /\ Agree(G[f], F[l], e)
    /\ \A j \in 0..Last(f) : j <= Last(l) /\ F[f][j].term = F[l][j].term =>
           j <= e /\ Agree(G[f], F[f], j)

Message(F, G, l, f, x, k) ==
    /\ \A n \in Node : n # f => G[n] = F[n]
    /\ Fits(F, G, f, x)
    /\ k <= Last(l) /\ k <= ReadyEnd(x) /\ Agree(G[f], F[l], k)
    /\ \/ x[1].commit = node[f].commit
       \/ /\ node[f].commit < x[1].commit
          /\ x[1].commit <= k /\ x[1].commit <= node[l].commit
    /\ \/ G[f] = F[f] /\ ReadyEnd(x) = Last(f)
       \/ Replaced(F, G, l, f, ReadyEnd(x))

\* What the leader makes of the reply.
Noted(l, f, k) ==
    \/ node'[l].matched = node[l].matched
    \/ node'[l].matched = [node[l].matched EXCEPT ![f] = IF k > @ THEN k ELSE @]

\* The commit index of a leader stays, or is one of its own term's that a
\* majority holds.
Counts(F, l) ==
    \/ node'[l].commit = node[l].commit
    \/ /\ node[l].commit < node'[l].commit
       /\ F[l][node'[l].commit].term = node[l].term
       /\ Majority(Holders(l, node[l].commit)')

LEMMA DeliveredAgreement ==
    ASSUME CInv, CInv', Elections, NEW F \in Logs, NEW G \in Logs, Agreed(F),
           NEW l \in Node, NEW f \in Node, Replicated(l, f), NEW x, NEW k \in Nat,
           Message(F, G, l, f, x, k), Ends(G)', HistoryStep(F, G),
           Last(f)' = ReadyEnd(x), node'[f].commit = x[1].commit,
           Noted(l, f, k), Counts(F, l)
    PROVE  AgreementStep(F, G)
<1>1. TermsTyped /\ Numbers /\ AcksTyped
    BY StepTyped, StepNumbers, StepAcksTyped
<1>2. /\ l # f /\ Leading(l) /\ Same(l) /\ Kept(l) /\ Calm(f)
      /\ \A n \in Node : n # f /\ n # l => node'[n] = node[n]
      /\ node'[f].role = "follower" /\ node'[f].term = node[l].term
    BY DEF Replicated, Only
<1>3. \A n \in Node : Calm(n)
    BY <1>2 DEF Calm, Same
<1>4. VoteStep
    BY <1>1, <1>3, CalmIsVoteStep DEF Elections
<1>5. Last(l)' = Last(l) /\ Leading(l)' /\ node'[l].term = node[l].term /\ ~Leading(f)'
    BY <1>2 DEF Kept, Cut, Last, Same, Leading
<1>6. /\ \A n \in Node : n # f => G[n] = F[n]
      /\ k <= Last(l) /\ k <= Last(f)' /\ Agree(G[f], F[l], k)
      /\ \/ G[f] = F[f] /\ Last(f)' = Last(f)
         \/ Replaced(F, G, l, f, Last(f)')
    BY DEF Message
<1>7. LogKinds(F, G)
    <2>1. \A n \in Node : n # f => Stays(F, G, n)
        BY <1>2, <1>5, <1>6 DEF Stays, Leading, Last
    <2>2. node[f].term <= node[l].term
        BY <1>1, <1>2, <1>4 DEF VoteStep
    <2>3. Stays(F, G, f) \/ Copies(F, G, f)
        BY <1>2, <1>5, <1>6, <2>2 DEF Stays, Copies, Replaced
    <2>4. QED BY <2>1, <2>3 DEF LogKinds
<1>8. PledgeStep(F, G)
    BY <1>1, <1>3, <1>4, <1>7, CalmVotes, KindsPledge DEF Agreed
<1>9. CommitStep(F, G)
    <2>1. ASSUME NEW n \in Node
          PROVE  /\ node[n].commit <= node'[n].commit
                 /\ \/ node'[n].commit = node[n].commit
                    \/ /\ Leading(n)' /\ G[n][node'[n].commit].term = node'[n].term
                       /\ Majority(Holders(n, node[n].commit)')
                    \/ \E m \in Node : /\ Leading(m) /\ node'[n].term = node[m].term
                                       /\ node'[n].commit <= node[m].commit
                                       /\ Agree(G[n], F[m], node'[n].commit)
        <3>1. node[n].commit \in Nat /\ node'[n].commit \in Nat /\ node[l].commit \in Nat
            BY <1>1 DEF Numbers
        <3>2. CASE n # f /\ n # l
            BY <1>2, <3>1, <3>2
        <3>3. CASE n = l
            BY <1>2, <1>5, <1>6, <3>1, <3>3 DEF Counts
        <3>4. CASE n = f
            <4>1. CASE node'[f].commit = node[f].commit
                BY <3>1, <3>4, <4>1
            <4>2. CASE /\ node[f].commit < node'[f].commit
                       /\ node'[f].commit <= k /\ node'[f].commit <= node[l].commit
                <5>1. PICK c \in Nat : c = node'[f].commit
                    BY <3>1, <3>4
                <5>2. Agree(G[f], F[l], c)
                    BY <1>6, <4>2, <5>1, AgreeBelow
                <5>3. node[f].commit <= node'[f].commit
                    BY <3>1, <3>4, <4>2
                <5>4. QED BY <1>2, <3>4, <4>2, <5>1, <5>2, <5>3
            <4>3. QED BY <4>1, <4>2 DEF Message
        <3>5. QED BY <3>2, <3>3, <3>4
    <2>2. QED BY <2>1 DEF CommitStep
<1>10. AckStep(F, G)
    <2>1. ASSUME NEW g \in Node, g # l
          PROVE  \/ node'[l].matched[g] = node[l].matched[g]
                 \/ /\ node'[l].matched[g] > node[l].matched[g]
                    /\ node'[g].term = node'[l].term /\ Last(l)' = Last(l)
                    /\ node'[l].matched[g] <= Last(l)' /\ node'[l].matched[g] <= Last(g)'
                    /\ Agree(G[g], G[l], node'[l].matched[g])
        <3>1. node[l].matched \in [Node -> Nat] /\ node[l].matched[f] \in Nat
            BY <1>1 DEF AcksTyped
        <3>2. CASE node'[l].matched[g] = node[l].matched[g]
            BY <3>2
        <3>3. CASE node'[l].matched[g] # node[l].matched[g]
            <4>1. g = f /\ node'[l].matched[f] = k /\ k > node[l].matched[f]
                BY <3>1, <3>3 DEF Noted
            <4>2. QED BY <4>1, <1>2, <1>5, <1>6
        <3>4. QED BY <3>2, <3>3
    <2>2. ASSUME NEW n \in Node, n # l, Leading(n)'
          PROVE  Leading(n) /\ \A g \in Node : node'[n].matched[g] = node[n].matched[g]
        BY <1>2, <1>5, <2>2 DEF Leading
    <2>3. QED BY <1>2, <2>1, <2>2 DEF AckStep
<1>11. QED BY <1>8, <1>9, <1>10 DEF AgreementStep

\* The commit index that a leader chooses.
HeldBy(b, n, i) == {n} \cup {g \in Node : b.matched[g] >= i}

LEMMA MaybeCommitChoice ==
    ASSUME NEW b \in NodeType, Good(Data, SnapData, b.core), NEW n \in Node,
           NEW m, m = MaybeCommit(b, n)
    PROVE  /\ m.matched = b.matched
           /\ \/ m.commit = b.commit
              \/ /\ b.commit < m.commit /\ m.commit <= last_index(b.core)
                 /\ term(b.core, m.commit) = b.term
                 /\ Majority(HeldBy(b, n, m.commit))
<1> DEFINE held(i) == {n} \cup {g \in Node : b.matched[g] >= i}
           able == {i \in b.commit + 1 .. last_index(b.core) :
                      Majority(held(i)) /\ term(b.core, i) = b.term}
<1>1. b.commit \in Nat /\ last_index(b.core) \in Nat
    BY NodeParts, LogNumbers
<1>2. m = IF able = {} THEN b ELSE AtCommit(b, Max(able))
    BY DEF MaybeCommit, AtCommit
<1>3. CASE able = {}
    BY <1>2, <1>3, Zenon
<1>4. CASE able # {}
    <2>1. able \subseteq 1..last_index(b.core)
        BY <1>1
    <2>2. PICK i : i = Max(able)
        OBVIOUS
    <2>3. i \in able
        <3> HIDE DEF able
        <3>1. QED BY <2>1, <2>2, <1>1, <1>4, MaxPosition
    <2>4. /\ i \in b.commit + 1 .. last_index(b.core) /\ Majority(held(i))
          /\ term(b.core, i) = b.term
        BY <2>3
    <2>5. m = AtCommit(b, i)
        BY <1>2, <1>4, <2>2, Zenon
    <2> HIDE DEF able
    <2>6. i \in Nat /\ b.commit < i /\ i <= last_index(b.core)
        BY <2>4, <1>1
    <2>7. m.commit = i /\ m.matched = b.matched
        BY <2>5, <2>6, CommitMoves
    <2>8. QED BY <2>4, <2>6, <2>7 DEF HeldBy
<1>5. QED BY <1>3, <1>4

LEMMA AnsweredCounts ==
    ASSUME CInv, NEW F, Ends(F), NEW l \in Node, NEW f \in Node, NEW k \in Nat, NEW lost,
           NEW y, y = Answered(l, f, k, lost),
           node'[l].commit = y[1].commit, node'[l].matched = y[1].matched
    PROVE  Counts(F, l) /\ Noted(l, f, k)
<1>1. /\ node[l] \in NodeType /\ Good(Data, SnapData, node[l].core)
      /\ node[l].commit \in Nat /\ node[l].commit <= last_index(node[l].core)
      /\ node[l].core.offset \in Nat /\ node[l].core.offset <= node[l].commit
      /\ last_index(node[l].core) \in Nat
    BY MemberParts
<1>2. CASE lost
    BY <1>2 DEF Answered, Plain, Counts, Noted
<1>3. CASE ~lost
    <2>1. PICK b : b = Heard(node[l], f, k)
        OBVIOUS
    <2>2. /\ b \in NodeType /\ b.core = node[l].core /\ b.term = node[l].term
          /\ b.commit = node[l].commit
          /\ b.matched = [node[l].matched EXCEPT ![f] = IF k > @ THEN k ELSE @]
        BY <1>1, <2>1, HeardEffect
    <2>3. PICK m : m = MaybeCommit(b, l)
        OBVIOUS
    <2>4. /\ m.matched = b.matched
          /\ \/ m.commit = b.commit
             \/ /\ b.commit < m.commit /\ m.commit <= last_index(b.core)
                /\ term(b.core, m.commit) = b.term
                /\ Majority(HeldBy(b, l, m.commit))
        <3>1. Good(Data, SnapData, b.core)
            BY <1>1, <2>2
        <3>2. QED BY <2>2, <2>3, <3>1, MaybeCommitChoice
    <2>5. y[1] = m
        BY <1>3, <2>1, <2>3 DEF Answered, Acknowledged, Heard, Plain
    <2>6. m.commit \in Int
        <3>1. m \in NodeType
            BY <1>1, <2>2, <2>3, MaybeCommitEffect
        <3>2. QED BY <3>1, NodeParts
    <2>7. CASE /\ b.commit < m.commit /\ m.commit <= last_index(b.core)
               /\ term(b.core, m.commit) = b.term
               /\ Majority(HeldBy(b, l, m.commit))
        <3>1. m.commit \in Held(node[l].core)
            BY <1>1, <2>2, <2>6, <2>7 DEF Held
        <3>2. term(node[l].core, m.commit) = F[l][m.commit].term
            BY <1>1, <3>1, LogNumbers DEF Ends, EndOf
        <3>3. Holders(l, node[l].commit)' = HeldBy(b, l, m.commit)
            BY <2>4, <2>5 DEF Holders, HeldBy
        <3>4. QED BY <2>2, <2>4, <2>5, <2>7, <3>2, <3>3 DEF Counts, Noted
    <2>8. CASE m.commit = b.commit
        BY <2>2, <2>4, <2>5, <2>8 DEF Counts, Noted
    <2>9. QED BY <2>4, <2>7, <2>8
<1>4. QED BY <1>2, <1>3

LEMMA AnsweredUntouched ==
    ASSUME CInv, NEW l \in Node, NEW f \in Node, NEW k \in Nat, NEW lost,
           NEW y, y = Answered(l, f, k, lost)
    PROVE  y[1].store = node[l].store /\ y[1].applied = node[l].applied
<1>1. CASE lost
    BY <1>1 DEF Answered, Plain
<1>2. CASE ~lost
    <2>1. node[l] \in NodeType /\ Good(Data, SnapData, node[l].core)
          /\ node[l].commit <= last_index(node[l].core)
        BY MemberParts
    <2>2. PICK b : b = Heard(node[l], f, k)
        OBVIOUS
    <2>3. /\ b \in NodeType /\ b.core = node[l].core /\ b.applied = node[l].applied
          /\ b.commit = node[l].commit
          /\ b.matched = [node[l].matched EXCEPT ![f] = IF k > @ THEN k ELSE @]
        BY <2>1, <2>2, HeardEffect
    <2>4. b.store = node[l].store
        BY <2>1, <2>2, RaftKeepsStore
    <2>5. PICK m : m = MaybeCommit(b, l)
        OBVIOUS
    <2>6. m.applied = b.applied
        BY <2>1, <2>3, <2>5, MaybeCommitEffect
    <2>7. m.store = b.store
        BY <2>3, <2>5, RaftKeepsStore
    <2>8. y[1] = m
        BY <1>2, <2>2, <2>5 DEF Answered, Acknowledged, Heard, Plain
    <2>9. QED BY <2>3, <2>4, <2>6, <2>7, <2>8
<1>3. QED BY <1>1, <1>2

\* A message and its reply, as the turns of the two members.
LEMMA MessageAgreement ==
    ASSUME CInv, CInv', Elections, NEW F \in Logs, NEW G \in Logs, Agreed(F),
           NEW l \in Node, NEW f \in Node, Replicated(l, f), NEW k \in Nat, NEW lost,
           NEW x, x[1].role = "follower", Message(F, G, l, f, x, k),
           NEW y, y = Answered(l, f, k, lost), NEW wr,
           SoundTurns(Two(f, x, l, y)), Turns(Two(f, x, l, y), wr)
    PROVE  AgreementStep(F, G)
<1>1. l # f /\ N # 1
    BY DEF Replicated, Node
<1>2. PICK t : t = Two(f, x, l, y)
    OBVIOUS
<1>3. DOMAIN t = {f, l} /\ t[f] = x /\ t[l] = y /\ SoundTurns(t) /\ Turns(t, wr)
    BY <1>1, <1>2 DEF Two
<1>4. Untouched(y[1], l) /\ y[2] = <<>> /\ y[3] = NoSnapshot
    <2>1. PICK z : z = Answered(l, f, k, lost)
        OBVIOUS
    <2>2. /\ z[2] = <<>> /\ z[3] = NoSnapshot
          /\ z[1].core = node[l].core /\ z[1].role = node[l].role
          /\ z[1].term = node[l].term /\ z[1].vote = node[l].vote
          /\ z[1].votes = node[l].votes /\ z[1].asked = node[l].asked
          /\ \/ z[1].matched = node[l].matched
             \/ z[1].matched = [node[l].matched EXCEPT ![f] = IF k > @ THEN k ELSE @]
        BY <2>1, AnsweredEffect
    <2>3. y[1].store = node[l].store /\ y[1].applied = node[l].applied
        BY AnsweredUntouched
    <2>4. QED BY <2>1, <2>2, <2>3 DEF Untouched
<1>5. Fits(F, G, l, y)
    BY <1>1, <1>4 DEF Message, Fits, WithEntries, NoSnapshot, Snapshot
<1>6. /\ \A n \in DOMAIN t : Fits(F, G, n, t[n])
      /\ \A n \in Node : n \notin DOMAIN t => G[n] = F[n]
    BY <1>3, <1>5 DEF Message
<1>7. /\ Ends(G)' /\ HistoryStep(F, G)
      /\ \A n \in DOMAIN t :
           /\ Last(n)' = ReadyEnd(t[n])
           /\ node'[n].commit = (IF N = 1 /\ t[n][1].role = "leader" THEN ReadyEnd(t[n])
                                 ELSE t[n][1].commit)
    <2>1. SoundTurns(t) /\ Turns(t, wr) /\ Ends(F)
        BY <1>3 DEF Agreed
    <2>2. QED BY <2>1, <1>6, TurnsFit
<1>8. Last(f)' = ReadyEnd(x) /\ node'[f].commit = x[1].commit /\ node'[l].commit = y[1].commit
    BY <1>1, <1>3, <1>7
<1>9. node'[l].matched = y[1].matched
    BY <1>1, TurnOfTwo
<1>10. Counts(F, l) /\ Noted(l, f, k)
    BY <1>8, <1>9, AnsweredCounts DEF Agreed
<1>11. QED BY <1>7, <1>8, <1>10, DeliveredAgreement

\* A message without a reply.
LEMMA UnansweredAgreement ==
    ASSUME CInv, CInv', Elections, NEW F \in Logs, Agreed(F),
           NEW l \in Node, NEW f \in Node, Replicated(l, f), NEW k \in Nat,
           NEW x, x[1].role = "follower", Message(F, F, l, f, x, k), NEW wr,
           SoundTurns(One(f, x)), Turns(One(f, x), wr)
    PROVE  AgreementStep(F, F)
<1>1. l # f
    BY DEF Replicated
<1>2. PICK t : t = One(f, x)
    OBVIOUS
<1>3. DOMAIN t = {f} /\ t[f] = x /\ SoundTurns(t) /\ Turns(t, wr)
    BY <1>2 DEF One
<1>4. \A n \in DOMAIN t : Fits(F, F, n, t[n])
    BY <1>3 DEF Message
<1>5. /\ Ends(F)' /\ HistoryStep(F, F)
      /\ \A n \in DOMAIN t :
           /\ Last(n)' = ReadyEnd(t[n])
           /\ node'[n].commit = (IF N = 1 /\ t[n][1].role = "leader" THEN ReadyEnd(t[n])
                                 ELSE t[n][1].commit)
    BY <1>3, <1>4, TurnsFit DEF Agreed
<1>6. Last(f)' = ReadyEnd(x) /\ node'[f].commit = x[1].commit
    BY <1>3, <1>5
<1>7. node'[l] = node[l]
    BY <1>1, TurnOfOne
<1>8. Counts(F, l) /\ Noted(l, f, k)
    BY <1>7 DEF Counts, Noted
<1>9. QED BY <1>5, <1>6, <1>8, DeliveredAgreement

\* A message with neither an entry nor a snapshot leaves the logs alone.
LEMMA PlainMessage ==
    ASSUME NEW F, NEW l \in Node, NEW f \in Node, NEW x, NEW k,
           Untouched(x[1], f), x[2] = <<>>, x[3].index = 0,
           k <= Last(l), k <= Last(f), Agree(F[f], F[l], k),
           \/ x[1].commit = node[f].commit
           \/ /\ node[f].commit < x[1].commit
              /\ x[1].commit <= k /\ x[1].commit <= node[l].commit
    PROVE  Message(F, F, l, f, x, k)
<1>1. ReadyEnd(x) = Last(f)
    BY DEF ReadyEnd, Last, Untouched
<1>2. Fits(F, F, f, x)
    BY DEF Fits, WithEntries
<1>3. QED BY <1>1, <1>2 DEF Message

LEMMA FollowerStore ==
    ASSUME CInv, NEW l \in Node, NEW f \in Node
    PROVE  Follower(f, l).store = node[f].store
<1>1. node[f] \in NodeType
    BY MemberParts
<1>2. become_follower(node[f], node[l].term, l).store = node[f].store
    BY <1>1, RaftKeepsStore
<1>3. [node[f] EXCEPT !.lead = l].store = node[f].store
    BY <1>1 DEF NodeType
<1>4. QED BY <1>2, <1>3 DEF Follower

\* A commit index moved forward to c, no further than k or the leader's.
LEMMA CommitFollows ==
    ASSUME CInv, NEW l \in Node, NEW f \in Node, Hears(f, l), NEW c \in Nat, NEW k \in Nat,
           c <= k, c <= node[l].commit, NEW m, m = CommitTo(Follower(f, l), c)
    PROVE  /\ Untouched(m, f) /\ m.role = "follower"
           /\ \/ m.commit = node[f].commit
              \/ node[f].commit < m.commit /\ m.commit <= k /\ m.commit <= node[l].commit
<1>1. PICK fl : fl = Follower(f, l)
    OBVIOUS
<1>2. /\ fl \in NodeType /\ fl.core = node[f].core /\ fl.applied = node[f].applied
      /\ fl.commit = node[f].commit /\ fl.role = "follower" /\ fl.term = node[l].term
      /\ fl.lead = l
      /\ fl.vote = (IF node[l].term = node[f].term THEN node[f].vote ELSE NoNode)
    BY <1>1, FollowsEffect DEF Hears
<1>3. /\ m \in NodeType /\ m.core = fl.core /\ m.applied = fl.applied
      /\ m.role = fl.role /\ m.term = fl.term /\ m.vote = fl.vote /\ m.lead = fl.lead
      /\ m.votes = fl.votes /\ m.asked = fl.asked
      /\ m.commit = (IF c > fl.commit THEN c ELSE fl.commit)
    BY <1>1, <1>2, CommitToEffect
<1>4. m.store = fl.store /\ fl.store = node[f].store
    <2>1. m.store = fl.store
        BY <1>1, <1>2, RaftKeepsStore
    <2>2. fl.store = node[f].store
        BY <1>1, FollowerStore
    <2>3. QED BY <2>1, <2>2
<1>5. node[f].commit \in Nat
    BY MemberParts
<1>6. QED BY <1>2, <1>3, <1>4, <1>5 DEF Untouched

LEMMA HeartbeatAgreement ==
    ASSUME CInv, CInv', Elections, NEW F \in Logs, Agreed(F), NEW l \in Node, NEW f \in Node,
           Heartbeat(l, f)
    PROVE  AgreementStep(F, F)
<1>1. TermsTyped /\ Numbers /\ AcksTyped
    BY StepTyped, StepNumbers, StepAcksTyped
<1>2. Replicated(l, f) /\ Leading(l) /\ l # f
    BY <1>1, HeartbeatEffect DEF Replicated
<1>3. Hears(f, l) /\ node[l].term >= node[f].term
      /\ HeartbeatCommit(l, f) <= Last(f)
    BY DEF Heartbeat, Hears, Last
<1>4. PICK k : k = HeartbeatCommit(l, f)
    OBVIOUS
<1>5. /\ k \in Nat /\ k <= node[l].matched[f] /\ k <= node[l].commit /\ k <= Last(f)
      /\ node[l].matched[f] \in Nat
    BY <1>1, <1>3, <1>4 DEF HeartbeatCommit, LesserOf, Numbers, AcksTyped
<1>6. PICK m : m = Beaten(l, f)
    OBVIOUS
<1>7. PICK x : x = Plain(m)
    OBVIOUS
<1>8. x[1] = m /\ x[2] = <<>> /\ x[3].index = 0
    BY <1>7 DEF Plain, NoSnapshot, Snapshot
<1>9. SoundTurns(One(f, x)) /\ Turns(One(f, x), write)
    BY <1>6, <1>7, HeartbeatSound DEF Heartbeat, Beaten
<1>10. /\ Untouched(m, f) /\ m.role = "follower"
       /\ \/ m.commit = node[f].commit
          \/ node[f].commit < m.commit /\ m.commit <= k /\ m.commit <= node[l].commit
    <2>1. m = CommitTo(Follower(f, l), k)
        BY <1>4, <1>6 DEF Beaten
    <2>2. QED BY <1>3, <1>5, <2>1, CommitFollows
<1>11. k <= Last(l)
    BY <1>1, <1>5 DEF Numbers
<1>12. Agree(F[f], F[l], k)
    <2>1. CASE node[l].matched[f] = 0
        <3>1. k = 0
            BY <1>5, <2>1
        <3>2. F[f][0] = F[l][0]
            BY DEF Agreed, Shape, Rooted
        <3>3. QED BY <3>1, <3>2 DEF Agree
    <2>2. CASE node[l].matched[f] # 0
        <3>1. node[f].term = node[l].term
            BY <1>1, <1>2, <1>3, <2>2 DEF Elections, MInv, AcksInTerm, TermsTyped
        <3>2. Agree(F[f], F[l], node[l].matched[f])
            BY <1>2, <3>1 DEF Agreed, AcksAgree
        <3>3. QED BY <1>5, <3>2, AgreeBelow
    <2>3. QED BY <2>1, <2>2
<1>13. Message(F, F, l, f, x, k)
    BY <1>5, <1>8, <1>10, <1>11, <1>12, PlainMessage
<1>14. QED BY <1>2, <1>5, <1>8, <1>9, <1>10, <1>13, UnansweredAgreement

\* An append is anchored at the highest anchor.
LEMMA AppendEntryAnchored ==
    ASSUME NEW l, NEW f, AppendEntry(l, f)
    PROVE  /\ Hears(f, l)
           /\ \E p \in Anchors(l, f), lost \in Lost :
                /\ \A a \in Anchors(l, f) : a <= p
                /\ Turns(Two(f, Appending(l, f, p),
                             l, Answered(l, f, Upto(l, f, p), lost)), write)
BY DEF AppendEntry, Old, Sent, Upto, Appending, Answered

\* Two storages have the same term at an index that both hold if the logs do.
LEMMA SameTermHeld ==
    ASSUME CInv, NEW F, Ends(F), NEW l \in Node, NEW f \in Node,
           NEW j \in Held(node[f].core), j \in Held(node[l].core)
    PROVE  /\ term(node[f].core, j) = F[f][j].term
           /\ term(node[l].core, j) = F[l][j].term
<1>1. Good(Data, SnapData, node[f].core) /\ Good(Data, SnapData, node[l].core)
    BY MemberParts
<1>2. term(node[f].core, j) = At(node[f].core, j).term
    BY <1>1, LogNumbers
<1>3. term(node[l].core, j) = At(node[l].core, j).term
    BY <1>1, LogNumbers
<1>4. QED BY <1>2, <1>3 DEF Ends, EndOf

\* An index at which the logs agree, and that both storages hold, is an anchor
\* unless the member has acknowledged more.
LEMMA AgreeingIsAnchor ==
    ASSUME CInv, NEW F, Ends(F), NEW l \in Node, NEW f \in Node,
           NEW j \in Nat, node[l].core.offset <= j, j <= Last(l), node[l].matched[f] <= j,
           F[f][j].term = F[l][j].term, node[f].core.offset <= j, j <= Last(f)
    PROVE  j \in Anchors(l, f)
<1>1. /\ node[l].core.offset \in Nat /\ last_index(node[l].core) \in Nat
      /\ node[f].core.offset \in Nat /\ last_index(node[f].core) \in Nat
      /\ node[l].matched[f] \in Nat
    BY MemberParts
<1>2. j \in Held(node[f].core) /\ j \in Held(node[l].core)
    BY <1>1 DEF Held, Last
<1>3. term(node[f].core, j) = term(node[l].core, j)
    BY <1>2, SameTermHeld
<1>4. QED BY <1>1, <1>2, <1>3 DEF Anchors, Held

\* The log of a member that takes the leader's next entry after an anchor.
LEMMA EntryReplaces ==
    ASSUME CInv, Numbers, NEW F \in Logs, Agreed(F), NEW l \in Node, NEW f \in Node, l # f,
           NEW p \in Nat, p \in Held(node[f].core), p \in Held(node[l].core),
           p + 1 \in Held(node[l].core), node[l].matched[f] <= p,
           term(node[f].core, p) = term(node[l].core, p),
           \A a \in Anchors(l, f) : a <= p,
           NEW x, Untouched(x[1], f), x[2] = <<At(node[l].core, p + 1)>>, x[3].index = 0,
           \/ x[1].commit = node[f].commit
           \/ /\ node[f].commit < x[1].commit
              /\ x[1].commit <= p + 1 /\ x[1].commit <= node[l].commit
    PROVE  \E G \in Logs : Message(F, G, l, f, x, p + 1)
<1>1. /\ Good(Data, SnapData, node[l].core) /\ node[l].core.offset \in Nat
      /\ last_index(node[l].core) \in Nat
      /\ node[f].core.offset \in Nat /\ last_index(node[f].core) \in Nat
      /\ node[l].matched[f] \in Nat
    BY MemberParts
<1>2. PICK e : e = At(node[l].core, p + 1)
    OBVIOUS
<1>3. e \in EntryType(Data) /\ e.index = p + 1
    BY <1>1, <1>2, LogNumbers
<1>4. e = F[l][p + 1]
    <2>1. p + 1 > node[l].core.offset
        BY <1>1 DEF Held
    <2>2. QED BY <1>2, <2>1 DEF Agreed, Ends, EndOf
<1>5. PICK G : G = Entered(F, f, e)
    OBVIOUS
<1>6. /\ G \in Logs /\ \A n \in Node : n # f => G[n] = F[n]
      /\ G[f][p + 1] = e
      /\ \A i \in Nat : i # p + 1 => G[f][i] = F[f][i]
      /\ WithEntries(F[f], <<e>>, G[f])
    BY <1>3, <1>5, EnteredIsLogs
<1>7. Fits(F, G, f, x)
    BY <1>2, <1>6 DEF Fits
<1>8. ReadyEnd(x) = p + 1
    BY <1>2, <1>3 DEF ReadyEnd
<1>9. Agree(F[f], F[l], p)
    <2>1. F[f][p].term = F[l][p].term
        BY SameTermHeld DEF Agreed
    <2>2. p \in 0..Last(f) /\ p <= Last(l)
        BY <1>1 DEF Held, Last
    <2>3. QED BY <2>1, <2>2 DEF Agreed, Shape, Matching
<1>10. Agree(G[f], F[l], p + 1)
    <2>1. ASSUME NEW i \in 0..(p + 1) PROVE G[f][i] = F[l][i]
        <3>1. CASE i = p + 1
            BY <1>4, <1>6, <3>1
        <3>2. CASE i # p + 1
            BY <1>6, <1>9, <3>2 DEF Agree
        <3>3. QED BY <3>1, <3>2
    <2>2. QED BY <2>1 DEF Agree
<1>11. p + 1 <= Last(l)
    BY <1>1 DEF Held, Last
<1>12. ASSUME NEW j \in 0..Last(f), j <= Last(l), F[f][j].term = F[l][j].term
       PROVE  j <= p + 1 /\ Agree(G[f], F[f], j)
    <2>1. j \in Nat
        BY <1>1 DEF Last
    <2>2. j <= p
        <3>1. SUFFICES ASSUME j > p PROVE FALSE
            BY <2>1
        <3>2. /\ node[l].core.offset <= j /\ node[l].matched[f] <= j
              /\ node[f].core.offset <= j /\ j <= Last(f)
            BY <1>1, <2>1, <3>1 DEF Held, Last
        <3>3. j \in Anchors(l, f)
            BY <1>12, <2>1, <3>2, AgreeingIsAnchor DEF Agreed
        <3>4. QED BY <2>1, <3>1, <3>3
    <2>3. \A i \in 0..j : i \in Nat /\ i # p + 1
        BY <2>1, <2>2
    <2>4. QED BY <1>6, <2>1, <2>2, <2>3 DEF Agree
<1>13. Replaced(F, G, l, f, ReadyEnd(x))
    BY <1>8, <1>10, <1>11, <1>12 DEF Replaced
<1>14. Message(F, G, l, f, x, p + 1)
    BY <1>6, <1>7, <1>8, <1>10, <1>11, <1>13 DEF Message
<1>15. QED BY <1>6, <1>14

\* What a member has committed, a leader of its term or a later one has too.
LEMMA LeadersHaveIt ==
    ASSUME CInv, NEW F \in Logs, Agreed(F), NEW l \in Node, NEW f \in Node,
           Leading(l), node[f].term <= node[l].term
    PROVE  /\ node[f].commit \in Nat /\ node[f].commit <= Last(f)
           /\ node[f].commit <= Last(l) /\ Agree(F[f], F[l], node[f].commit)
<1>1. Measured /\ node[f].commit \in Nat /\ node[f].commit <= Last(f)
    BY MemberParts DEF Measured, Last
<1>2. Terms(F) /\ Secure(F, f, node[f].commit) /\ Shape(F)
    BY LogsHaveTerms DEF Agreed, Commits
<1>3. QED BY <1>1, <1>2, LeadersComplete

\* So whoever hears a leader can be told of its own commit index.
LEMMA CommittedIsLeaders ==
    ASSUME CInv, NEW F \in Logs, Agreed(F), NEW l \in Node, NEW f \in Node, Hears(f, l)
    PROVE  /\ node[f].commit \in Nat /\ node[f].commit <= Last(f)
           /\ node[f].commit <= Last(l) /\ Agree(F[f], F[l], node[f].commit)
<1>1. Leading(l) /\ node[f].term <= node[l].term
    BY MemberParts DEF Hears, Leads, Leading
<1>2. QED BY <1>1, LeadersHaveIt

LEMMA AppendMessage ==
    ASSUME CInv, CInv', NEW F \in Logs, Agreed(F), NEW l \in Node, NEW f \in Node, Hears(f, l),
           NEW p \in Anchors(l, f), \A a \in Anchors(l, f) : a <= p,
           NEW x, x = Appending(l, f, p), NEW k, k = Upto(l, f, p)
    PROVE  \E G \in Logs : Message(F, G, l, f, x, k)
<1>1. Numbers /\ l # f
    BY StepNumbers DEF Hears
<1>2. /\ x[3] = NoSnapshot /\ x[1].core = node[f].core
      /\ p \in Nat /\ node[l].matched[f] <= p /\ Upto(l, f, p) \in Nat
      /\ \/ x[2] = <<>> /\ Upto(l, f, p) <= last_index(node[f].core)
         \/ /\ x[2] = <<At(node[l].core, p + 1)>> /\ Upto(l, f, p) <= p + 1
            /\ p \in Held(node[l].core) /\ p + 1 \in Held(node[l].core)
            /\ p \in Held(node[f].core)
            /\ term(node[f].core, p) = term(node[l].core, p)
    BY AppendingSound
<1>3. x[3].index = 0 /\ k \in Nat
    BY <1>2 DEF NoSnapshot, Snapshot
<1>4. /\ Untouched(x[1], f)
      /\ \/ x[1].commit = node[f].commit
         \/ node[f].commit < x[1].commit /\ x[1].commit <= k /\ x[1].commit <= node[l].commit
    <2>1. PICK c : c = LesserOf(node[l].commit, k)
        OBVIOUS
    <2>2. c \in Nat /\ c <= k /\ c <= node[l].commit
        BY <1>1, <1>3, <2>1 DEF Numbers, LesserOf
    <2>3. PICK m : m = CommitTo(Follower(f, l), c)
        OBVIOUS
    <2>4. x[1] = m
        BY <2>1, <2>3 DEF Appending
    <2>5. /\ Untouched(m, f) /\ m.role = "follower"
          /\ \/ m.commit = node[f].commit
             \/ node[f].commit < m.commit /\ m.commit <= k /\ m.commit <= node[l].commit
        BY <1>3, <2>2, <2>3, CommitFollows
    <2>6. QED BY <2>4, <2>5
<1>5. Follower(f, l).commit = node[f].commit
    <2>1. PICK fl : fl = Follower(f, l)
        OBVIOUS
    <2>2. /\ fl \in NodeType /\ fl.core = node[f].core /\ fl.applied = node[f].applied
          /\ fl.commit = node[f].commit /\ fl.role = "follower" /\ fl.term = node[l].term
          /\ fl.lead = l
          /\ fl.vote = (IF node[l].term = node[f].term THEN node[f].vote ELSE NoNode)
        BY <2>1, FollowsEffect DEF Hears
    <2>3. QED BY <2>1, <2>2
<1>6. /\ Good(Data, SnapData, node[l].core) /\ node[l].core.offset \in Nat
      /\ last_index(node[l].core) \in Nat /\ node[l].core.offset <= node[l].commit
      /\ node[l].commit <= last_index(node[l].core) /\ node[l].commit \in Nat
      /\ node[f].core.offset \in Nat /\ last_index(node[f].core) \in Nat
      /\ node[f].commit \in Nat
    BY MemberParts
<1>7. x[2] = Sent(l, f, p)
    BY DEF Appending
<1>8. p \in Held(node[l].core) /\ (~Old(l, f, p) => p \in Held(node[f].core)
                                      /\ term(node[f].core, p) = term(node[l].core, p))
    BY <1>2, <1>5, <1>6 DEF Anchors, Held, Old
<1>9. CASE Old(l, f, p)
    <2>1. x[2] = <<>> /\ k = node[f].commit
        BY <1>5, <1>7, <1>9 DEF Sent, Upto
    <2>2. k <= Last(l) /\ k <= Last(f) /\ Agree(F[f], F[l], k)
        BY <2>1, CommittedIsLeaders
    <2>3. Message(F, F, l, f, x, k)
        BY <1>2, <1>3, <1>4, <2>1, <2>2, PlainMessage
    <2>4. QED BY <2>3
<1>10. CASE ~Old(l, f, p) /\ p = last_index(node[l].core)
    <2>1. x[2] = <<>> /\ k = p
        <3>1. Sent(l, f, p) = <<>> /\ Len(<<>>) = 0
            BY <1>10 DEF Sent
        <3>2. k = p + 0
            BY <1>10, <3>1 DEF Upto
        <3>3. QED BY <1>2, <1>7, <3>1, <3>2
    <2>2. k <= Last(l) /\ k <= Last(f)
        BY <1>6, <1>8, <1>10, <2>1 DEF Held, Last
    <2>3. Agree(F[f], F[l], k)
        <3>1. F[f][p].term = F[l][p].term
            BY <1>8, <1>10, SameTermHeld DEF Agreed
        <3>2. p \in 0..Last(f) /\ p <= Last(l)
            BY <1>2, <2>1, <2>2
        <3>3. QED BY <2>1, <3>1, <3>2 DEF Agreed, Shape, Matching
    <2>4. Message(F, F, l, f, x, k)
        BY <1>2, <1>3, <1>4, <2>1, <2>2, <2>3, PlainMessage
    <2>5. QED BY <2>4
<1>11. CASE ~Old(l, f, p) /\ p # last_index(node[l].core)
    <2>1. p < last_index(node[l].core)
        BY <1>6, <1>8, <1>11 DEF Held
    <2>2. Sent(l, f, p) = <<At(node[l].core, p + 1)>> /\ p + 1 \in Held(node[l].core)
        BY <1>2, <1>6, <1>8, <1>11, <2>1, OneEntry DEF Sent, Held
    <2>3. PICK e : e = At(node[l].core, p + 1)
        OBVIOUS
    <2>4. Len(<<e>>) = 1
        OBVIOUS
    <2>5. k = p + 1
        BY <1>11, <2>2, <2>3, <2>4 DEF Upto
    <2>6. QED BY <1>1, <1>2, <1>3, <1>4, <1>7, <1>8, <1>11, <2>2, <2>5, EntryReplaces
<1>12. QED BY <1>9, <1>10, <1>11

LEMMA AppendAgreement ==
    ASSUME CInv, CInv', Elections, NEW F \in Logs, Agreed(F), NEW l \in Node, NEW f \in Node,
           AppendEntry(l, f)
    PROVE  \E G \in Logs : AgreementStep(F, G)
<1>1. Replicated(l, f)
    BY StepTyped, AppendEntryEffect
<1>2. Hears(f, l)
    BY AppendEntryAnchored
<1>3. PICK p \in Anchors(l, f), lost \in Lost :
        /\ \A a \in Anchors(l, f) : a <= p
        /\ Turns(Two(f, Appending(l, f, p), l, Answered(l, f, Upto(l, f, p), lost)), write)
    BY AppendEntryAnchored
<1>4. PICK x : x = Appending(l, f, p)
    OBVIOUS
<1>5. PICK k : k = Upto(l, f, p)
    OBVIOUS
<1>6. PICK y : y = Answered(l, f, k, lost)
    OBVIOUS
<1>7. PICK G \in Logs : Message(F, G, l, f, x, k)
    BY <1>2, <1>3, <1>4, <1>5, AppendMessage
<1>8. SoundTurns(Two(f, x, l, y)) /\ Turns(Two(f, x, l, y), write)
    BY <1>2, <1>3, <1>4, <1>5, <1>6, AppendEntrySound
<1>9. x[1].role = "follower" /\ k \in Nat
    <2>1. /\ SoundReady(x) /\ x[3] = NoSnapshot
          /\ x[1].role = "follower" /\ x[1].term = node[l].term
          /\ x[1].core = node[f].core
          /\ p \in Nat /\ node[l].matched[f] <= p /\ Upto(l, f, p) \in Nat
        BY <1>2, <1>3, <1>4, AppendingSound
    <2>2. QED BY <1>5, <2>1
<1>10. AgreementStep(F, G)
    BY <1>1, <1>6, <1>7, <1>8, <1>9, MessageAgreement
<1>11. QED BY <1>7, <1>10

\* A snapshot is sent when there is no anchor.
LEMMA SendSnapshotUnanchored ==
    ASSUME NEW l, NEW f, SendSnapshot(l, f)
    PROVE  Hears(f, l) /\ Anchors(l, f) = {}
BY DEF SendSnapshot

\* The snapshot a storage holds is of the log's entry at its offset.
LEMMA SnapshotIsOffset ==
    ASSUME CInv, NEW F, Ends(F), NEW l \in Node, node[l].core.snap.index # 0
    PROVE  LET s == node[l].core.snap IN
           /\ s.index \in Nat /\ s.index = node[l].core.offset /\ s.index <= node[l].commit
           /\ s.index <= Last(l) /\ s.index \in Held(node[l].core)
           /\ s.term = F[l][s.index].term
<1>1. /\ Good(Data, SnapData, node[l].core) /\ node[l].core.offset \in Nat
      /\ last_index(node[l].core) \in Nat /\ node[l].core.offset <= node[l].commit
      /\ node[l].commit <= last_index(node[l].core) /\ node[l].commit \in Nat
    BY MemberParts
<1>2. /\ node[l].core.snap.index = node[l].core.offset
      /\ node[l].core.snap.term = node[l].core.entries[1].term
    BY <1>1 DEF Good
<1>3. PICK o : o = node[l].core.offset
    OBVIOUS
<1>4. o \in Nat /\ o \in Held(node[l].core) /\ o <= Last(l)
    BY <1>1, <1>3 DEF Held, Last
<1>5. At(node[l].core, o) = node[l].core.entries[1]
    <2>1. o - o + 1 = 1
        BY <1>4
    <2>2. QED BY <1>3, <2>1 DEF At
<1>6. At(node[l].core, o).term = F[l][o].term
    BY <1>4 DEF Ends, EndOf
<1>7. QED BY <1>1, <1>2, <1>3, <1>4, <1>5, <1>6

LEMMA SnapshotMessage ==
    ASSUME CInv, CInv', NEW F \in Logs, Agreed(F), NEW l \in Node, NEW f \in Node, Hears(f, l),
           Anchors(l, f) = {}, node[l].matched[f] < node[l].core.offset,
           NEW x, x = Installing(l, f), NEW k, k = Taken(l, f).commit
    PROVE  \E G \in Logs : Message(F, G, l, f, x, k)
<1>1. Numbers /\ l # f
    BY StepNumbers DEF Hears
<1>2. PICK s : s = node[l].core.snap
    OBVIOUS
<1>3. s.index \in Nat
    <2>1. node[l].core \in CoreType(Data, SnapData)
        BY MemberParts DEF Good
    <2>2. QED BY <1>2, <2>1, CoreParts
<1>4. x[2] = <<>> /\ x[1] = Taken(l, f)
    BY DEF Installing
<1>5. PICK fl : fl = Follower(f, l)
    OBVIOUS
<1>6. /\ fl \in NodeType /\ fl.core = node[f].core /\ fl.applied = node[f].applied
      /\ fl.commit = node[f].commit /\ fl.role = "follower" /\ fl.term = node[l].term
      /\ fl.lead = l
      /\ fl.vote = (IF node[l].term = node[f].term THEN node[f].vote ELSE NoNode)
    BY <1>5, FollowsEffect DEF Hears
<1>7. /\ node[f].core.offset \in Nat /\ last_index(node[f].core) \in Nat
      /\ node[f].core.offset <= node[f].commit /\ node[f].commit \in Nat
      /\ node[l].core.offset \in Nat /\ node[l].matched[f] \in Nat
      /\ last_index(node[l].core) \in Nat
    BY MemberParts
<1>8. k = (IF s.index <= node[f].commit THEN node[f].commit ELSE s.index)
    <2>1. k = (IF s.index <= fl.commit THEN fl ELSE [fl EXCEPT !.commit = s.index]).commit
        BY <1>2, <1>5 DEF Taken
    <2>2. [fl EXCEPT !.commit = s.index].commit = s.index
        BY <1>6 DEF NodeType
    <2>3. QED BY <1>6, <2>1, <2>2
<1>9. Untouched(x[1], f)
    <2>1. fl.store = node[f].store
        BY <1>5, FollowerStore
    <2>2. x[1] = IF s.index <= fl.commit THEN fl ELSE AtCommit(fl, s.index)
        BY <1>2, <1>4, <1>5 DEF Taken, AtCommit
    <2>3. AtCommit(fl, s.index).store = fl.store
        BY <1>6, RaftKeepsStore
    <2>4. AtCommit(fl, s.index).core = fl.core /\ AtCommit(fl, s.index).applied = fl.applied
        BY <1>3, <1>6, CommitMoves
    <2>5. QED BY <1>6, <2>1, <2>2, <2>3, <2>4 DEF Untouched
<1>10. x[3] = IF s.index <= node[f].commit \/ Has(l, f) THEN NoSnapshot ELSE s
    BY <1>2, <1>5, <1>6 DEF Installing, Skipped
<1>11. Has(l, f) => s.index <= Last(f) /\ term(node[f].core, s.index) = s.term
    BY <1>2, <1>5, <1>6 DEF Has, Last
<1>12. ASSUME s.index > node[f].commit
       PROVE  /\ s.index = node[l].core.offset /\ s.index <= node[l].commit
              /\ s.index <= Last(l) /\ s.index \in Held(node[l].core)
              /\ s.term = F[l][s.index].term /\ s.index # 0
    <2>1. s.index # 0
        BY <1>3, <1>7, <1>12
    <2>2. QED BY <1>2, <2>1, SnapshotIsOffset DEF Agreed
<1>13. CASE s.index <= node[f].commit
    <2>1. k = node[f].commit /\ x[1].commit = node[f].commit /\ x[3].index = 0
        BY <1>4, <1>8, <1>10, <1>13 DEF NoSnapshot, Snapshot
    <2>2. k <= Last(l) /\ k <= Last(f) /\ Agree(F[f], F[l], k)
        BY <2>1, CommittedIsLeaders
    <2>3. Message(F, F, l, f, x, k)
        BY <1>4, <1>9, <2>1, <2>2, PlainMessage
    <2>4. QED BY <2>3
<1>14. CASE s.index > node[f].commit /\ Has(l, f)
    <2>1. k = s.index /\ x[1].commit = s.index /\ x[3].index = 0
        BY <1>3, <1>4, <1>7, <1>8, <1>10, <1>14 DEF NoSnapshot, Snapshot
    <2>2. k <= Last(l) /\ k <= Last(f) /\ s.index \in Held(node[f].core)
        BY <1>3, <1>7, <1>11, <1>12, <1>14, <2>1 DEF Held, Last
    <2>3. Agree(F[f], F[l], k)
        <3>1. F[f][s.index].term = F[l][s.index].term
            BY <1>11, <1>12, <1>14, <2>2, SameTermHeld DEF Agreed
        <3>2. s.index \in 0..Last(f) /\ s.index <= Last(l)
            BY <1>3, <1>7, <2>1, <2>2 DEF Last
        <3>3. QED BY <2>1, <3>1, <3>2 DEF Agreed, Shape, Matching
    <2>4. node[f].commit < x[1].commit /\ x[1].commit <= k /\ x[1].commit <= node[l].commit
        BY <1>3, <1>7, <1>12, <1>14, <2>1
    <2>5. Message(F, F, l, f, x, k)
        BY <1>4, <1>9, <2>1, <2>2, <2>3, <2>4, PlainMessage
    <2>6. QED BY <2>5
<1>15. CASE s.index > node[f].commit /\ ~Has(l, f)
    <2>1. k = s.index /\ x[1].commit = s.index /\ x[3] = s
        BY <1>3, <1>4, <1>7, <1>8, <1>10, <1>15
    <2>2. PICK G : G = [F EXCEPT ![f] = F[l]]
        OBVIOUS
    <2>3. G \in Logs /\ G[f] = F[l] /\ \A n \in Node : n # f => G[n] = F[n]
        BY <2>2 DEF Logs
    <2>4. Agree(G[f], F[l], k)
        BY <2>3 DEF Agree
    <2>5. Fits(F, G, f, x)
        <3>1. s.data \in Stores /\ Reflects(s.data, F[l], s.index)
            BY <1>2, <1>12, <1>15 DEF Agreed, Ends, Reflecting, Carries
        <3>2. QED BY <3>1, <1>9, <1>12, <1>15, <2>1, <2>3, <2>4 DEF Fits
    <2>6. ReadyEnd(x) = k
        BY <1>12, <1>15, <2>1 DEF ReadyEnd
    <2>7. ASSUME NEW j \in 0..Last(f), j <= Last(l), F[f][j].term = F[l][j].term
          PROVE  j <= k /\ Agree(G[f], F[f], j)
        <3>1. j \in Nat
            BY <1>7 DEF Last
        <3>2. j <= k
            <4>1. SUFFICES ASSUME j > k PROVE FALSE
                BY <1>3, <2>1, <3>1
            <4>2. /\ node[l].core.offset <= j /\ node[l].matched[f] <= j
                  /\ node[f].core.offset <= j /\ j <= Last(f)
                BY <1>3, <1>7, <1>12, <1>15, <2>1, <3>1, <4>1 DEF Last
            <4>3. j \in Anchors(l, f)
                BY <2>7, <3>1, <4>2, AgreeingIsAnchor DEF Agreed
            <4>4. QED BY <4>3
        <3>3. Agree(F[f], F[l], j)
            BY <2>7 DEF Agreed, Shape, Matching
        <3>4. QED BY <2>3, <3>2, <3>3 DEF Agree
    <2>8. k <= Last(l) /\ k <= k
        BY <1>3, <1>12, <1>15, <2>1
    <2>9. Replaced(F, G, l, f, ReadyEnd(x))
        BY <2>4, <2>6, <2>7, <2>8 DEF Replaced
    <2>10. node[f].commit < x[1].commit /\ x[1].commit <= k /\ x[1].commit <= node[l].commit
        BY <1>3, <1>7, <1>12, <1>15, <2>1
    <2>11. Message(F, G, l, f, x, k)
        BY <2>3, <2>4, <2>5, <2>6, <2>8, <2>9, <2>10 DEF Message
    <2>12. QED BY <2>3, <2>11
<1>16. QED BY <1>3, <1>7, <1>13, <1>14, <1>15

LEMMA SnapshotAgreement ==
    ASSUME CInv, CInv', Elections, NEW F \in Logs, Agreed(F), NEW l \in Node, NEW f \in Node,
           SendSnapshot(l, f)
    PROVE  \E G \in Logs : AgreementStep(F, G)
<1>1. Replicated(l, f)
    BY StepTyped, SendSnapshotEffect
<1>2. Hears(f, l) /\ Anchors(l, f) = {} /\ node[l].matched[f] < node[l].core.offset
    BY SendSnapshotParts, SendSnapshotUnanchored
<1>3. PICK lost \in Lost :
        Turns(Two(f, Installing(l, f), l, Answered(l, f, Taken(l, f).commit, lost)), write)
    BY SendSnapshotParts
<1>4. PICK x : x = Installing(l, f)
    OBVIOUS
<1>5. PICK k : k = Taken(l, f).commit
    OBVIOUS
<1>6. PICK y : y = Answered(l, f, k, lost)
    OBVIOUS
<1>7. PICK G \in Logs : Message(F, G, l, f, x, k)
    BY <1>2, <1>4, <1>5, SnapshotMessage
<1>8. SoundTurns(Two(f, x, l, y)) /\ Turns(Two(f, x, l, y), write)
    BY <1>2, <1>3, <1>4, <1>5, <1>6, SendSnapshotSound
<1>9. x[1].role = "follower" /\ k \in Nat
    <2>1. /\ SoundReady(x) /\ x[2] = <<>>
          /\ x[1].role = "follower" /\ x[1].term = node[l].term
          /\ x[1].core = node[f].core
          /\ Taken(l, f).commit \in Nat
        BY <1>2, <1>4, InstallingSound
    <2>2. QED BY <1>5, <2>1
<1>10. AgreementStep(F, G)
    BY <1>1, <1>6, <1>7, <1>8, <1>9, MessageAgreement
<1>11. QED BY <1>7, <1>10
-----------------------------------------------------------------------------
(***************************************************************************)
(* The whole invariant, and every action.                                  *)
(***************************************************************************)
AInv == restarts = 0 => \E F \in Logs : Agreed(F)

\* A step that leaves the members and the history alone.
LEMMA IdleAgreement ==
    ASSUME NEW F, Agreed(F), node' = node, history' = history
    PROVE  Agreed(F)'
<1>1. Ends(F)' /\ Past(F)' /\ Told(F)'
    BY DEF Agreed, Ends, Past, Told
<1>2. Rooted(F)' /\ Matching(F)' /\ Ordered(F)' /\ Runs(F)' /\ Owns(F)' /\ LastOwn(F)'
    BY DEF Agreed, Shape, Rooted, Matching, Ordered, Runs, Owns, LastOwn, Last, Leading, Holds
<1>3. TermsWon(F)'
    <2>1. \A v, n, t : Backs(v, n, t) => Backs(v, n, t)'
        BY DEF Backs
    <2>2. \A v, x, t : Unrivalled(v, x, t) => Unrivalled(v, x, t)'
        BY DEF Unrivalled, Standing
    <2>3. \A t, x : Won(t, x) => Won(t, x)'
        BY <2>1, <2>2 DEF Won, Leading
    <2>4. QED BY <2>3 DEF Agreed, Shape, TermsWon, Last
<1>4. \A v \in Node : \A j, t : Pledges(F, v, j, t) => Pledges(F, v, j, t)'
    BY DEF Pledges, Holds, Last, Standing, Later
<1>5. \A j, t : BelowLater(F, j, t) => BelowLater(F, j, t)'
    BY DEF BelowLater, Holds, Last
<1>6. Pending(F)'
    BY <1>4, <1>5 DEF Agreed, Pending, Leading, Last, Blocked, Holders
<1>7. AcksAgree(F)'
    BY DEF Agreed, AcksAgree, Leading, Last
<1>8. \A g, j : Chosen(F, g, j) => Chosen(F, g, j)'
    BY <1>4, <1>5 DEF Chosen, Holds, Last
<1>9. Commits(F)'
    BY <1>8 DEF Agreed, Commits, Secure
<1>10. QED BY <1>1, <1>2, <1>3, <1>6, <1>7, <1>9 DEF Agreed, Shape

\* At the start: empty logs, or that of a member on its own, which has elected itself.
NoLog    == [i \in Nat |-> Entry(0, 0, NoData)]
FirstLog == [i \in Nat |-> IF i = 1 THEN Entry(1, 1, NoData) ELSE Entry(0, 0, NoData)]

\* A log without commands asks nothing of a store.
LEMMA NothingToReflect ==
    ASSUME NEW m, NEW g, m.core.hs.commit \in Nat, m.core.snap.index = 0,
           \A i \in Nat : g[i].data = NoData
    PROVE  Reflecting(m, g)
BY DEF Reflecting, Reflects, NoneWaits, Carries

LEMMA NewLogIsEmpty == EndOf(New(0), NoLog)
<1>1. Held(New(0)) = 0..0 /\ New(0).offset = 0
    BY NewStorage DEF Held
<1>2. At(New(0), 0) = Entry(0, 0, NoData)
    <2>1. 0 - 0 + 1 = 1
        OBVIOUS
    <2>2. QED BY <1>1, <2>1 DEF At, New
<1>3. NoLog[0] = Entry(0, 0, NoData)
    BY DEF NoLog
<1>4. QED BY <1>1, <1>2, <1>3 DEF EndOf

LEMMA StartedLog ==
    ASSUME NEW n \in Node, N = 1, NEW m, m = Started(n, New(0), EmptyStore)
    PROVE  /\ EndOf(m.core, FirstLog) /\ last_index(m.core) = 1 /\ m.commit = 1
           /\ Reflecting(m, FirstLog)
<1> DEFINE nd == BootNode(New(0), EmptyStore)
           cd == become_candidate(nd, n)
           ld == become_leader(cd, n)
           x  == <<ld, NextEntry(ld, NoData), NoSnapshot>>
<1>1. EmptyStore \in Stores /\ NoData \in Data
    BY DEF EmptyStore, Stores, Data
<1>2. /\ Settled(nd) /\ nd \in NodeType /\ nd.term = 0 /\ nd.core = New(0)
    <2>1. New(0).offset <= New(0).hs.commit /\ New(0).hs.commit <= last_index(New(0))
        BY NewStorage
    <2>2. QED BY <1>1, <2>1, NewStorage, BootEffect
<1> HIDE DEF nd
<1>3. /\ cd \in NodeType /\ cd.core = nd.core /\ cd.applied = nd.applied
      /\ cd.commit = nd.commit /\ cd.term = 1 /\ cd.vote = n
    BY <1>2, CandidateEffect
<1> HIDE DEF cd
<1>4. /\ ld \in NodeType /\ ld.core = nd.core /\ ld.applied = nd.applied
      /\ ld.commit = nd.commit /\ ld.role = "leader" /\ ld.term = 1 /\ ld.vote = n
    BY <1>3, LeaderEffect
<1> HIDE DEF ld
<1>5. PICK e : e = Entry(1, 1, NoData)
    OBVIOUS
<1>6. SoundReady(x) /\ NextEntry(ld, NoData) = <<e>>
    <2>1. /\ SoundReady(x)
          /\ NextEntry(ld, NoData) = <<Entry(last_index(nd.core) + 1, ld.term, NoData)>>
        BY <1>1, <1>2, <1>4, NextEntryReady
    <2>2. last_index(nd.core) + 1 = 1 /\ ld.term = 1
        BY <1>2, <1>4, NewStorage
    <2>3. QED BY <1>5, <2>1, <2>2
<1>7. x[1] = ld /\ x[2] = <<e>> /\ x[3].index = 0
    BY <1>6 DEF NoSnapshot, Snapshot
<1>8. m = After(x)
    BY <1>3 DEF Started, After, nd, cd, ld
<1> HIDE DEF x
<1>9. EndOf(x[1].core, NoLog)
    BY <1>2, <1>4, <1>7, NewLogIsEmpty
<1>10. WithEntries(NoLog, x[2], FirstLog) /\ ReadyEnd(x) = 1
    BY <1>5, <1>7 DEF WithEntries, NoLog, FirstLog, Entry, ReadyEnd
<1>11. /\ EndOf(m.core, FirstLog) /\ last_index(m.core) = ReadyEnd(x)
       /\ m.commit = (IF N = 1 /\ x[1].role = "leader" THEN ReadyEnd(x) ELSE x[1].commit)
    <2>1. PICK g, h : g = NoLog /\ h = FirstLog
        OBVIOUS
    <2>2. /\ EndOf(x[1].core, g)
          /\ x[3].index = 0 => WithEntries(g, x[2], h)
          /\ x[3].index # 0 => h[x[3].index].term = x[3].term
        BY <1>7, <1>9, <1>10, <2>1
    <2>3. EndOf(m.core, h) /\ last_index(m.core) = ReadyEnd(x)
          /\ m.commit = (IF N = 1 /\ x[1].role = "leader" THEN ReadyEnd(x) ELSE x[1].commit)
        BY <1>6, <1>8, <2>2, ReadyEnds
    <2>4. QED BY <2>1, <2>3
<1>12. Reflecting(m, FirstLog)
    <2>1. PICK g, h \in [Nat -> EntryType(Data)] : g = NoLog /\ h = FirstLog
        BY <1>1 DEF NoLog, FirstLog, EntryType, Entry
    <2>2. Reflecting(x[1], g)
        <3>1. x[1].core.hs.commit \in Nat /\ x[1].core.snap.index = 0
            BY <1>2, <1>4, <1>7, NewStorage DEF New, Snapshot
        <3>2. \A i \in Nat : g[i].data = NoData
            BY <2>1 DEF NoLog, Entry
        <3>3. QED BY <3>1, <3>2, NothingToReflect
    <2>3. /\ EndOf(x[1].core, g)
          /\ x[3].index = 0 => WithEntries(g, x[2], h)
          /\ x[3].index # 0 => /\ h[x[3].index].term = x[3].term
                               /\ x[3].data \in Stores /\ Reflects(x[3].data, h, x[3].index)
        BY <1>7, <1>9, <1>10, <2>1
    <2>4. Reflecting(m, h)
        BY <1>6, <1>8, <2>1, <2>2, <2>3, TurnReflects
    <2>5. QED BY <2>1, <2>4
<1>13. QED BY <1>4, <1>7, <1>10, <1>11, <1>12

LEMMA InitAgreement ==
    ASSUME Init
    PROVE  \E F \in Logs : Agreed(F)
<1>1. CInv /\ AllUp /\ Elections
    BY InitSound, InitElections
<1>2. CASE N # 1
    <2>1. PICK F : F = [n \in Node |-> NoLog]
        OBVIOUS
    <2>2. NoLog \in [Nat -> EntryType(Data)] /\ \A i \in Nat : NoLog[i] = Entry(0, 0, NoData)
        BY DEF NoLog, EntryType, Entry, Data
    <2>3. F \in Logs /\ \A n \in Node : \A i \in Nat : F[n][i] = Entry(0, 0, NoData)
        BY <2>1, <2>2 DEF Logs
    <2>4. Entry(0, 0, NoData).term = 0
        BY DEF Entry
    <2>5. \A n \in Node : node[n] = BootNode(New(0), EmptyStore)
        BY <1>2 DEF Init, Started
    <2>6. \A n \in Node : node[n].core = New(0) /\ node[n].commit = 0 /\ node[n].term = 0
                          /\ node[n].role = "follower"
        BY <2>5, NewStorage DEF BootNode
    <2>7. \A n \in Node : Last(n) = 0 /\ ~Leading(n)
        BY <2>6, NewStorage DEF Last, Leading
    <2>8. Ends(F)
        <3>1. New(0).hs.commit \in Nat /\ New(0).snap.index = 0
            BY NewStorage DEF New, Snapshot
        <3>2. \A n \in Node : Reflecting(node[n], F[n])
            <4>1. ASSUME NEW n \in Node, NEW i \in Nat PROVE F[n][i].data = NoData
                BY <2>3 DEF Entry
            <4>2. ASSUME NEW n \in Node
                  PROVE  node[n].core.hs.commit \in Nat /\ node[n].core.snap.index = 0
                BY <2>6, <3>1
            <4>3. QED BY <4>1, <4>2, NothingToReflect
        <3>3. QED BY <2>1, <2>6, <3>2, NewLogIsEmpty DEF Ends
    <2>9. history = {}
        BY <1>2 DEF Init
    <2>10. Past(F) /\ Told(F)
        BY <2>6, <2>9 DEF Past, Told
    <2>11. Pending(F) /\ AcksAgree(F)
        BY <2>7 DEF Pending, AcksAgree
    <2>12. Commits(F)
        BY <2>6 DEF Commits, Secure
    <2>13. Rooted(F) /\ Matching(F)
        BY <2>3, <2>7 DEF Rooted, Matching, Agree
    <2>14. Ordered(F) /\ TermsWon(F) /\ Runs(F)
        BY <2>3, <2>4, <2>6, <2>7 DEF Ordered, TermsWon, Runs
    <2>15. Owns(F) /\ LastOwn(F)
        BY <2>7 DEF Owns, LastOwn
    <2>16. QED BY <2>3, <2>8, <2>10, <2>11, <2>12, <2>13, <2>14, <2>15 DEF Agreed, Shape
<1>3. CASE N = 1
    <2>1. Node = {1}
        BY <1>3 DEF Node
    <2>2. PICK F : F = [n \in Node |-> FirstLog]
        OBVIOUS
    <2>3. FirstLog \in [Nat -> EntryType(Data)]
        BY DEF FirstLog, EntryType, Entry, Data
    <2>4. /\ FirstLog[1] = Entry(1, 1, NoData) /\ FirstLog[0] = Entry(0, 0, NoData)
          /\ FirstLog[1].term = 1 /\ FirstLog[0].term = 0 /\ FirstLog[1].data = NoData
        BY DEF FirstLog, Entry
    <2>5. F \in Logs /\ F[1] = FirstLog
        BY <2>1, <2>2, <2>3 DEF Logs
    <2>6. node[1] = Started(1, New(0), EmptyStore)
        BY <2>1 DEF Init
    <2>7. /\ EndOf(node[1].core, FirstLog) /\ Reflecting(node[1], FirstLog) /\ Last(1) = 1 /\ node[1].commit = 1
          /\ Leading(1) /\ node[1].term = 1 /\ ~Standing(1)
        <3>1. /\ EndOf(node[1].core, FirstLog) /\ last_index(node[1].core) = 1
              /\ node[1].commit = 1 /\ Reflecting(node[1], FirstLog)
            BY <1>3, <2>1, <2>6, StartedLog
        <3>2. node[1].role = "leader" /\ node[1].term = 1
            BY <1>3, <2>1, <2>6, StartedAlone
        <3>3. QED BY <3>1, <3>2 DEF Last, Leading, Standing
    <2>8. 0..1 = {0, 1} /\ 1..1 = {1}
        OBVIOUS
    <2>9. history = {<<1, NoData>>}
        BY <1>3 DEF Init
    <2>10. Ends(F)
        BY <2>1, <2>5, <2>7 DEF Ends
    <2>11. Past(F) /\ Told(F)
        BY <2>1, <2>4, <2>5, <2>7, <2>8, <2>9 DEF Past, Told
    <2>12. Rooted(F) /\ Matching(F) /\ Runs(F) /\ Owns(F) /\ LastOwn(F)
        BY <2>1, <2>4, <2>5, <2>7, <2>8
        DEF Rooted, Matching, Agree, Runs, Owns, LastOwn, Holds
    <2>13. Ordered(F)
        <3>1. ASSUME NEW i \in 0..1, NEW j \in 0..i
              PROVE  FirstLog[i].term <= 1 /\ FirstLog[j].term <= FirstLog[i].term
            BY <2>4
        <3>2. QED BY <2>1, <2>5, <2>7, <3>1 DEF Ordered
    <2>14. TermsWon(F)
        BY <1>1, <2>1, <2>4, <2>5, <2>7, <2>8 DEF TermsWon, Elections, VInv, LeadersWon
    <2>15. Pledges(F, 1, 1, 1) /\ BelowLater(F, 1, 1)
        <3>1. Pledges(F, 1, 1, 1)
            BY <2>1, <2>4, <2>5, <2>7 DEF Pledges, Holds
        <3>2. \A k \in 0..1 : ~(FirstLog[k].term > 1)
            BY <2>4, <2>8
        <3>3. QED BY <2>1, <2>5, <2>7, <3>1, <3>2 DEF BelowLater
    <2>16. AcksAgree(F)
        BY <2>1 DEF AcksAgree
    <2>17. Pending(F)
        <3>1. \A j \in 0..1 : FirstLog[j].term = 1 => j = 1
            BY <2>4, <2>8
        <3>2. \A j : Holders(1, j) = {1}
            BY <2>1 DEF Holders
        <3>3. QED BY <2>1, <2>5, <2>7, <2>15, <3>1, <3>2 DEF Pending
    <2>18. Chosen(F, FirstLog, 1)
        <3>1. Majority({1})
            BY <1>3, <2>1, AloneIsMajority
        <3>2. \E Q \in SUBSET Node : Majority(Q) /\ \A v \in Q : Pledges(F, v, 1, 1)
            BY <2>1, <2>15, <3>1
        <3>3. \A m \in Node : Agree(F[m], FirstLog, 1)
            BY <2>1, <2>5 DEF Agree
        <3>4. QED BY <2>4, <2>15, <3>2, <3>3 DEF Chosen
    <2>19. Commits(F)
        <3>1. Agree(F[1], FirstLog, 1)
            BY <2>5 DEF Agree
        <3>2. Secure(F, 1, 1)
            <4>1. FirstLog[1].term <= node[1].term /\ 1 <= 1
                BY <2>4, <2>7
            <4>2. QED BY <2>3, <2>18, <3>1, <4>1 DEF Secure
        <3>3. QED BY <2>1, <2>7, <3>2 DEF Commits
    <2>20. QED BY <2>5, <2>10, <2>11, <2>12, <2>13, <2>14, <2>16, <2>17, <2>19 DEF Agreed, Shape
<1>4. QED BY <1>2, <1>3

LEMMA CommittedAgree ==
    ASSUME CInv, NEW F \in Logs, Agreed(F), NEW m \in Node, NEW n \in Node,
           NEW i \in Nat, i <= node[m].commit, i <= node[n].commit
    PROVE  F[m][i] = F[n][i]
<1>1. Numbered
    BY MemberParts DEF Numbered, Last
<1>2. Terms(F)
    BY LogsHaveTerms
<1>3. QED BY <1>1, <1>2, CommitsAgree DEF Agreed

LEMMA NextAgreement ==
    ASSUME CInv, CInv', EInv, AInv, [Next]_vars
    PROVE  AInv'
<1> SUFFICES ASSUME restarts' = 0 PROVE \E F \in Logs : Agreed(F)'
    BY DEF AInv
<1>1. restarts = 0 /\ \A n \in Node : ~Restart(n)
    <2>1. restarts \in Nat
        BY BoundsAssumption DEF CInv, TypeOK
    <2>2. \A n \in Node : ~Restart(n)
        BY <2>1 DEF Restart
    <2>3. QED BY <2>2 DEF Next, vars, Campaign, RequestVote, TransferLeader, TransferTimesOut,
        AppendEntry, Heartbeat, HeartbeatPanics, SendSnapshot, PutFlagfile, ForwardWrite,
        ProposeAsLeader, ProposeAsFollower, ProposalDropped, ProbePeer, BootstrapAndStart
<1>2. AllUp /\ Elections
    BY <1>1 DEF EInv, Elections
<1>3. PICK F \in Logs : Agreed(F)
    BY <1>1 DEF AInv
<1>4. ASSUME \E G \in Logs : AgreementStep(F, G) PROVE \E G \in Logs : Agreed(G)'
    <2>1. PICK G \in Logs : AgreementStep(F, G)
        BY <1>4
    <2>2. Agreed(G)'
        BY <1>2, <1>3, <2>1, AgreementKept
    <2>3. QED BY <2>2
<1>5. \A n \in Node : ~ProbePeer(n) /\ ~BootstrapAndStart(n)
    BY <1>2 DEF AllUp, ProbePeer, BootstrapAndStart
<1>6. \A l, f \in Node : ~HeartbeatPanics(l, f)
    BY <1>2, NoHeartbeatPanics DEF Elections
<1>7. ASSUME NEW n \in Node, Campaign(n) PROVE \E G \in Logs : Agreed(G)'
    BY <1>2, <1>3, <1>4, <1>7, CampaignAgreement
<1>8. ASSUME NEW c \in Node, NEW v \in Node, RequestVote(c, v) PROVE \E G \in Logs : Agreed(G)'
    BY <1>2, <1>3, <1>4, <1>8, RequestVoteAgreement
<1>9. ASSUME NEW n \in Node, TransferLeader(n) \/ TransferTimesOut(n)
      PROVE  \E G \in Logs : Agreed(G)'
    BY <1>2, <1>3, <1>4, <1>9, TransferAgreement
<1>10. ASSUME NEW l \in Node, NEW f \in Node, AppendEntry(l, f) PROVE \E G \in Logs : Agreed(G)'
    BY <1>2, <1>3, <1>4, <1>10, AppendAgreement
<1>11. ASSUME NEW l \in Node, NEW f \in Node, Heartbeat(l, f) PROVE \E G \in Logs : Agreed(G)'
    BY <1>2, <1>3, <1>4, <1>11, HeartbeatAgreement
<1>12. ASSUME NEW l \in Node, NEW f \in Node, SendSnapshot(l, f) PROVE \E G \in Logs : Agreed(G)'
    BY <1>2, <1>3, <1>4, <1>12, SnapshotAgreement
<1>13. ASSUME NEW w \in Write, ProposeAsLeader(w) \/ ProposeAsFollower(w)
       PROVE  \E G \in Logs : Agreed(G)'
    <2>1. \/ \E n \in Node :
                 /\ Leads(n)
                 /\ Turns(One(n, <<node[n], NextEntry(node[n], w), NoSnapshot>>), Proposed(w))
          \/ Turns(<<>>, Proposed(w))
        BY <1>13, ProposalTurns
    <2>2. ASSUME NEW n \in Node, Leads(n),
                 Turns(One(n, <<node[n], NextEntry(node[n], w), NoSnapshot>>), Proposed(w))
          PROVE  \E G \in Logs : AgreementStep(F, G)
        BY <2>2, <1>2, <1>3, ProposeAgreement DEF Leads, Leading
    <2>3. ASSUME Turns(<<>>, Proposed(w)) PROVE Agreed(F)'
        <3>1. /\ node' = [n \in Node |-> node[n]]
              /\ history' = history \cup UNION {Recorded(Applied(<<>>[n])) : n \in {}}
            BY <2>3, TurnsEffect
        <3>2. node' = node
            <4>1. node = [n \in Node |-> node[n]]
                BY DEF CInv, TypeOK
            <4>2. QED BY <3>1, <4>1, Zenon
        <3>3. history' = history
            BY <3>1
        <3>4. QED BY <1>3, <3>2, <3>3, IdleAgreement
    <2>4. QED BY <2>1, <2>2, <2>3, <1>4
<1>14. ASSUME node' = node, history' = history PROVE \E G \in Logs : Agreed(G)'
    BY <1>3, <1>14, IdleAgreement
<1>15. QED
    BY <1>1, <1>5, <1>6, <1>7, <1>8, <1>9, <1>10, <1>11, <1>12, <1>13, <1>14
    DEF Next, vars, PutFlagfile, ForwardWrite, ProposalDropped
-----------------------------------------------------------------------------
(***************************************************************************)
(* The theorems.                                                           *)
(***************************************************************************)
LEMMA AgreementHolds == Spec => []AInv
<1>1. Init => AInv
    BY InitAgreement DEF AInv
<1>2. CInv /\ CInv' /\ EInv /\ AInv /\ [Next]_vars => AInv'
    BY NextAgreement
<1>3. QED BY <1>1, <1>2, MembersSettled, ElectionsKept, PTL DEF Spec

\* As long as no member was restarted, a leader's log has all that members of
\* its term or an earlier one have committed.
THEOREM LeadersHaveCommitted == Spec => [](restarts = 0 => LeaderComplete)
<1>1. CInv /\ AInv => (restarts = 0 => LeaderComplete)
    <2> SUFFICES ASSUME CInv, AInv, restarts = 0, NEW l \in Node, NEW n \in Node,
                        Leads(l), node[n].term <= node[l].term,
                        NEW k, k = node[n].commit
                 PROVE  /\ k <= last_index(node[l].core)
                        /\ k >= node[l].core.offset =>
                               term(node[l].core, k) = term(node[n].core, k)
        BY DEF LeaderComplete
    <2>1. PICK F \in Logs : Agreed(F)
        BY DEF AInv
    <2>2. k \in Nat /\ k <= Last(l) /\ k <= Last(n) /\ Agree(F[n], F[l], k)
        BY <2>1, LeadersHaveIt DEF Leads, Leading
    <2>3. ASSUME k >= node[l].core.offset
          PROVE  term(node[l].core, k) = term(node[n].core, k)
        <3>1. k \in Held(node[l].core) /\ k \in Held(node[n].core)
            BY <2>2, <2>3, MemberParts DEF Held, Last
        <3>2. /\ term(node[n].core, k) = F[n][k].term
              /\ term(node[l].core, k) = F[l][k].term
            BY <2>1, <3>1, SameTermHeld DEF Agreed
        <3>3. F[n][k] = F[l][k]
            BY <2>2 DEF Agree
        <3>4. QED BY <3>2, <3>3
    <2>4. QED BY <2>2, <2>3 DEF Last
<1>2. QED BY <1>1, MembersSettled, AgreementHolds, PTL

\* As long as no member was restarted, no two members ever apply different
\* commands at the same index, whatever elections, lost or late messages,
\* compaction and snapshots there are.
THEOREM CommandsAgree == Spec => [](restarts = 0 => AppliedAgree)
<1>1. CInv /\ AInv => (restarts = 0 => AppliedAgree)
    <2> SUFFICES ASSUME CInv, AInv, restarts = 0, NEW x \in history, NEW y \in history,
                        x[1] = y[1]
                 PROVE  x = y
        BY DEF AppliedAgree
    <2>1. PICK F \in Logs : Agreed(F)
        BY DEF AInv
    <2>2. PICK m \in Node : x[1] \in 1..node[m].commit /\ x = <<x[1], F[m][x[1]].data>>
        BY <2>1 DEF Agreed, Past
    <2>3. PICK n \in Node : y[1] \in 1..node[n].commit /\ y = <<y[1], F[n][y[1]].data>>
        BY <2>1 DEF Agreed, Past
    <2>4. PICK i : i = x[1]
        OBVIOUS
    <2>5. i \in Nat /\ i <= node[m].commit /\ i <= node[n].commit
        BY <2>2, <2>3, <2>4, MemberParts
    <2>6. F[m][i] = F[n][i]
        BY <2>1, <2>5, CommittedAgree
    <2>7. QED BY <2>2, <2>3, <2>4, <2>6, Zenon
<1>2. QED BY <1>1, MembersSettled, AgreementHolds, PTL

\* As long as no member was restarted, a member's store has, for each namespace,
\* the last write applied anywhere at or below its commit index, or a later one,
\* whether its turns applied it or a snapshot brought it.
THEOREM StoresComplete == Spec => [](restarts = 0 => NoMissedWrites)
<1>1. CInv /\ AInv => (restarts = 0 => NoMissedWrites)
    <2> SUFFICES ASSUME CInv, AInv, restarts = 0, NEW n \in Node, NEW ns \in Namespace,
                        NEW x \in history, x[2] # NoData, NsOf[x[2]] = ns,
                        x[1] <= node[n].commit,
                        \A y \in history : y[2] = node[n].store[ns] => y[1] < x[1]
                 PROVE  FALSE
        BY DEF NoMissedWrites, Missing
    <2>1. PICK F \in Logs : Agreed(F)
        BY DEF AInv
    <2>2. PICK m \in Node : x[1] \in 1..node[m].commit /\ x = <<x[1], F[m][x[1]].data>>
        BY <2>1 DEF Agreed, Past
    <2>3. PICK i : i = x[1]
        OBVIOUS
    <2>4. /\ node[m].commit \in Nat /\ node[n].commit \in Nat
          /\ node[n].core.hs.commit = node[n].commit
        BY MemberParts
    <2>5. i \in Nat /\ i <= node[m].commit /\ i <= node[n].commit /\ i \in 1..node[n].commit
        BY <2>2, <2>3, <2>4
    <2>6. F[m][i] = F[n][i]
        BY <2>1, <2>5, CommittedAgree
    <2>7. x[2] = F[n][i].data
        <3>1. x = <<i, F[n][i].data>>
            BY <2>2, <2>3, <2>6, Zenon
        <3>2. QED BY <3>1
    <2>8. PICK j \in i..node[n].commit : F[n][j].data = node[n].store[NsOf[F[n][i].data]]
        <3>1. Reflects(node[n].store, F[n], node[n].commit)
            BY <2>1, <2>4 DEF Agreed, Ends, Reflecting
        <3>2. QED BY <3>1, <2>5, <2>7 DEF Reflects
    <2>9. j \in 1..node[n].commit /\ j >= i
        BY <2>4, <2>5
    <2>10. PICK y : y = <<j, F[n][j].data>>
        OBVIOUS
    <2>11. y \in history
        BY <2>1, <2>9, <2>10 DEF Agreed, Told
    <2>12. y[1] = j /\ y[2] = node[n].store[ns]
        BY <2>7, <2>8, <2>10
    <2>13. j < i
        BY <2>3, <2>11, <2>12
    <2>14. QED BY <2>5, <2>9, <2>13
<1>2. QED BY <1>1, MembersSettled, AgreementHolds, PTL
=============================================================================
