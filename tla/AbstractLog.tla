----------------------------- MODULE AbstractLog -----------------------------
(***************************************************************************)
(* What raft-rs relies on in its Storage: a log that is a map from the     *)
(* indices it still holds to terms, and a commit index under which nothing *)
(* is ever rewritten.  RaftLog is shown to implement it.                   *)
(***************************************************************************)
EXTENDS Integers, Sequences

VARIABLES
    first,      \* the lowest index whose term is still known
    last,       \* the highest index
    logTerm,    \* [first..last -> terms]
    committed   \* the commit index

absVars == <<first, last, logTerm, committed>>

AbsInit == /\ first \in Nat
           /\ last = first
           /\ committed = first
           /\ DOMAIN logTerm = first..first

\* Entries arrive from k on: everything above k goes, committed entries stay.
\* With nothing new (last' = last = k - 1) only the commit index may move.
Persist == \E k \in committed + 1 .. last + 1 :
    /\ last' >= k - 1
    /\ first' = first
    /\ committed' >= committed /\ committed' <= last'
    /\ DOMAIN logTerm' = first'..last'
    /\ \A i \in first..(k - 1) : logTerm'[i] = logTerm[i]

\* The log is cut at a committed index: the rest keeps its terms.
Discard ==
    /\ first' > first /\ first' <= committed
    /\ UNCHANGED <<last, committed>>
    /\ logTerm' = [i \in first'..last |-> logTerm[i]]

\* The whole log is replaced by a snapshot above the commit index.
Install ==
    /\ first' > committed
    /\ last' = first'
    /\ committed' = first'
    /\ DOMAIN logTerm' = first'..last'

AbsNext == Persist \/ Discard \/ Install

AbsSpec == AbsInit /\ [][AbsNext]_absVars
=============================================================================
