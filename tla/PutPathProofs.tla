----------------------------- MODULE PutPathProofs -----------------------------
(***************************************************************************)
(* Proofs about PutPath, for any number of PUTs, edits, stops and crashes. *)
(***************************************************************************)
EXTENDS PutPath, TLAPS

USE DEF Content, Writing, InFlight, Done, Finished, Accepting, Last, NoRequest, Empty

\* What reads of the store see is what the last insert left.
LEMMA LastOfAppend ==
    ASSUME NEW S, NEW s \in Seq(S), NEW x \in S
    PROVE  /\ Append(s, x) \in Seq(S) /\ Append(s, x) # <<>>
           /\ Len(Append(s, x)) = Len(s) + 1
           /\ Append(s, x)[Len(s) + 1] = x
           /\ \A k \in 1..Len(s) : Append(s, x)[k] = s[k]
  OBVIOUS

\* A nonempty sequence has a last element.
LEMMA LastOfNonempty ==
    ASSUME NEW S, NEW s \in Seq(S), s # <<>>
    PROVE  Len(s) \in Nat /\ Len(s) >= 1 /\ s[Len(s)] \in S
  OBVIOUS

\* Every step keeps every variable in its type (routes.rs:104-359 and
\* sled_store.rs:41-63, whatever the handlers interleave).
LEMMA PutTypeStep == PutTypeOK /\ [PutNext]_putVars => PutTypeOK'
<1> SUFFICES ASSUME PutTypeOK, [PutNext]_putVars PROVE PutTypeOK'
  OBVIOUS
<1> USE ContentsDiffer DEF PutTypeOK, Step
<1>0. Len(disk) \in Nat /\ Len(disk) >= 1 /\ Last(disk) \in StoreState
  BY LastOfNonempty
<1>1. ASSUME NEW p \in Put, PutStart(p) PROVE PutTypeOK'
  BY <1>1 DEF PutStart
<1>2. ASSUME NEW p \in Put, PutRefused(p) PROVE PutTypeOK'
  BY <1>2 DEF PutRefused
<1>3. ASSUME NEW p \in Put, StoreFlags(p) PROVE PutTypeOK'
  <2>1. [Last(disk) EXCEPT !.flags = p] \in StoreState
    BY <1>0 DEF StoreState
  <2>2. disk' \in Seq(StoreState) /\ disk' # <<>>
    BY <1>3, <2>1, LastOfAppend DEF StoreFlags
  <2> QED BY <1>3, <2>2, SMTT(30) DEF StoreFlags
<1>4. ASSUME NEW p \in Put, StoreMeta(p) PROVE PutTypeOK'
  <2>1. [Last(disk) EXCEPT !.meta = p] \in StoreState
    BY <1>0 DEF StoreState
  <2>2. disk' \in Seq(StoreState) /\ disk' # <<>>
    BY <1>4, <2>1, LastOfAppend DEF StoreMeta
  <2> QED BY <1>4, <2>2, SMTT(30) DEF StoreMeta
<1>5. ASSUME NEW p \in Put, Flush(p) PROVE PutTypeOK'
  BY <1>0, <1>5 DEF Flush
<1>6. ASSUME NEW p \in Put, StoreFails(p) PROVE PutTypeOK'
  BY <1>6 DEF StoreFails
<1>7. ASSUME NEW p \in Put, Insert(p) PROVE PutTypeOK'
  BY <1>7 DEF Insert
<1>8. ASSUME NEW p \in Put, Announce(p) PROVE PutTypeOK'
  BY <1>8 DEF Announce
<1>9. ASSUME NEW s \in Save \cup {First}, Edit(s) \/ Reload(s) PROVE PutTypeOK'
  <2>1. CASE Edit(s)
    BY <2>1 DEF Edit
  <2>2. CASE Reload(s)
    <3>1. mem' \in [content : Content \cup {None}, env : BOOLEAN]
      BY <2>2 DEF Reload
    <3> QED BY <2>2, <3>1 DEF Reload
  <2> QED BY <1>9, <2>1, <2>2
<1>10. CASE Signal \/ Close
  BY <1>10 DEF Signal, Close
<1>11. CASE Stop
  BY <1>0, <1>11 DEF Stop
<1>12. CASE Crash
  <2>1. PICK k \in 1..Len(disk) : disk' = <<disk[k]>>
    BY <1>12 DEF Crash
  <2>2. disk' \in Seq(StoreState) /\ disk' # <<>>
    <3>1. disk[k] \in StoreState
      OBVIOUS
    <3> QED BY <2>1, <3>1
  <2>3. put' \in [Put -> [pc : {"idle", "refused"} \cup InFlight \cup Done, env : BOOLEAN,
                          before : SUBSET Put]]
    BY <1>12, SMTT(30) DEF Crash
  <2> QED BY <1>12, <2>2, <2>3, SMTT(30) DEF Crash
<1>13. CASE Start
  BY <1>0, <1>13 DEF Start, Loaded, StoreState
<1>14. CASE UNCHANGED putVars
  BY <1>14 DEF putVars
<1> QED BY <1>1, <1>2, <1>3, <1>4, <1>5, <1>6, <1>7, <1>8, <1>9, <1>10, <1>11,
           <1>12, <1>13, <1>14 DEF PutNext

\* Every variable keeps its type, for any number of PUTs.
THEOREM PutTypeCorrect == PutSpec => []PutTypeOK
<1>1. PutInit => PutTypeOK
  BY ContentsDiffer DEF PutInit, PutTypeOK, InitStore, StoreState
<1> QED BY <1>1, PutTypeStep, PTL DEF PutSpec

\* The invariant that orders what is stored and served by the PUTs' beginnings
\* is inductive: a body is written or served only while its PUT is unfinished,
\* when no other PUT can have it in its `before`.
LEMMA PutInvStep == PutInv /\ [PutNext]_putVars => PutInv'
<1> SUFFICES ASSUME PutInv, [PutNext]_putVars PROVE PutInv'
  OBVIOUS
<1> DEFINE Rest == History /\ Written /\ Begun /\ Served /\ AtRest
<1> USE DEF PutInv
<1>0. PutTypeOK'
  BY PutTypeStep
<1>d. /\ Len(disk) \in Nat /\ Len(disk) >= 1 /\ Last(disk) \in StoreState
      /\ \A k \in 1..Len(disk) : disk[k] \in StoreState
  BY LastOfNonempty DEF PutTypeOK
<1> USE ContentsDiffer DEF PutTypeOK, Step, StoreState, History, Written, Begun, Served, AtRest
<1>1. ASSUME NEW p \in Put, PutStart(p) PROVE Rest'
  BY <1>1, <1>d DEF PutStart
<1>2. ASSUME NEW p \in Put, PutRefused(p) PROVE Rest'
  BY <1>2, <1>d DEF PutRefused
<1>3. ASSUME NEW p \in Put, StoreFlags(p) PROVE Rest'
  BY <1>3, <1>d, LastOfAppend, SMTT(30) DEF StoreFlags
<1>4. ASSUME NEW p \in Put, StoreMeta(p) PROVE Rest'
  BY <1>4, <1>d, LastOfAppend, SMTT(60) DEF StoreMeta
<1>5. ASSUME NEW p \in Put, Flush(p) PROVE Rest'
  BY <1>5, <1>d, SMTT(30) DEF Flush
<1>6. ASSUME NEW p \in Put, StoreFails(p) PROVE Rest'
  BY <1>6, <1>d DEF StoreFails
<1>7. ASSUME NEW p \in Put, Insert(p) PROVE Rest'
  BY <1>7, <1>d DEF Insert
<1>8. ASSUME NEW p \in Put, Announce(p) PROVE Rest'
  BY <1>8, <1>d DEF Announce
<1>9. ASSUME NEW s \in Save \cup {First}, Edit(s) \/ Reload(s) PROVE Rest'
  BY <1>9, <1>d DEF Edit, Reload
<1>10. CASE Signal \/ Close
  BY <1>10, <1>d DEF Signal, Close
<1>11. CASE Stop
  BY <1>11, <1>d DEF Stop
<1>12. CASE Crash
  <2>1. PICK k \in 1..Len(disk) : disk' = <<disk[k]>>
    BY <1>12 DEF Crash
  <2>2. /\ status' = "down" /\ mem' = Empty
        /\ put' = [p \in Put |-> IF put[p].pc \in InFlight
                                 THEN [put[p] EXCEPT !.pc = "lost"] ELSE put[p]]
    BY <1>12 DEF Crash
  <2>3. Len(disk') = 1 /\ disk'[1] = disk[k] /\ Last(disk') = disk[k]
    BY <2>1
  <2>4. \A p \in Put : /\ put'[p].before = put[p].before
                       /\ put'[p].pc \notin InFlight
                       /\ put[p].pc \in Done \cup {"idle", "refused"} => put'[p].pc = put[p].pc
                       /\ put[p].pc \in InFlight => put'[p].pc = "lost"
    BY <2>2
  <2> HIDE DEF Last
  <2>5. History'
    BY <2>4
  <2>6. Written'
    BY <2>3, <2>4
  <2>7. Begun'
    BY <1>d, <2>2, <2>3, <2>4
  <2>8. Served'
    BY <2>2, <2>4
  <2>9. AtRest'
    BY <2>3, <2>4
  <2> HIDE DEF PutTypeOK, History, Written, Begun, Served, AtRest
  <2> QED BY <1>0, <2>5, <2>6, <2>7, <2>8, <2>9
<1>13. CASE Start
  <2>1. Stored => Last(disk) = disk[Len(disk)] /\ Last(disk) \in StoreState
    BY <1>d
  <2>2. /\ status = "down" /\ status' = "up" /\ mem' = Loaded
        /\ UNCHANGED <<disk, file, put, stops>>
    BY <1>13 DEF Start
  <2>3. History' /\ Written' /\ AtRest'
    BY <2>2, <1>d
  <2>4. CASE Stored
    <3> DEFINE c == disk[1].flags
    <3>1. Len(disk) = 1 /\ Last(disk) = disk[1] /\ c \in Put \cup {None}
      BY <2>2, <1>d
    <3>2. mem'.content = c
      BY <2>2, <2>4, <3>1 DEF Loaded
    <3>3. c # None => put[c].pc \notin {"idle", "refused"} /\ c \notin put[c].before
      BY <3>1
    <3>4. \A p \in Put : put[p].pc = "ok" => c \notin put[p].before
      BY <2>4, <3>1
    <3>5. \A p \in Put : put[p].pc # "announce"
      BY <2>2
    <3>6. Begun'
      BY <2>2, <3>1, <3>2, <3>3
    <3>7. Served'
      BY <2>2, <2>4, <3>1, <3>2, <3>3, <3>4, <3>5
    <3> HIDE DEF PutTypeOK, History, Written, Begun, Served, AtRest
    <3> QED BY <1>0, <2>3, <3>6, <3>7
  <2>5. CASE ~Stored
    <3>1. mem'.content = file /\ file \notin Put
      BY <2>2, <2>5, <1>d DEF Loaded
    <3>2. Begun' /\ Served'
      BY <2>2, <2>5, <3>1
    <3> HIDE DEF PutTypeOK, History, Written, Begun, Served, AtRest
    <3> QED BY <1>0, <2>3, <3>2
  <2> QED BY <2>4, <2>5
<1>14. CASE UNCHANGED putVars
  BY <1>14, <1>d DEF putVars
<1> QED BY <1>0, <1>1, <1>2, <1>3, <1>4, <1>5, <1>6, <1>7, <1>8, <1>9, <1>10, <1>11,
           <1>12, <1>13, <1>14 DEF PutNext

\* The inductive invariant holds of every behaviour.
THEOREM PutInvariant == PutSpec => []PutInv
<1>1. PutInit => PutInv
  <2> SUFFICES ASSUME PutInit PROVE PutInv
    OBVIOUS
  <2>1. PutTypeOK
    BY ContentsDiffer DEF PutInit, PutTypeOK, InitStore, StoreState
  <2>2. History /\ Written /\ Begun /\ AtRest
    BY ContentsDiffer DEF PutInit, InitStore, History, Written, Begun, AtRest
  <2>3. Served
    BY ContentsDiffer DEF PutInit, InitStore, Served
  <2> QED BY <2>1, <2>2, <2>3 DEF PutInv
<1> QED BY <1>1, PutInvStep, PTL DEF PutSpec

\* An answered PUT survives every crash, with its flagfile or a later one and
\* a meta (sled_store.rs:41, called from routes.rs:294 without a lock).
THEOREM AnsweredIsDurable == PutSpec => []AckedIsDurable
<1>1. PutInv => AckedIsDurable
  BY DEF PutInv, PutTypeOK, Written, AckedIsDurable
<1> QED BY <1>1, PutInvariant, PTL

\* PUTs that do not overlap take effect in their order (routes.rs:285-358).
THEOREM LaterWins == PutSpec => []LaterPutWins
<1>1. PutInv => LaterPutWins
  BY DEF PutInv, Served, LaterPutWins
<1> QED BY <1>1, PutInvariant, PTL

\* What is served is never ahead of what a crash leaves (routes.rs:294, 313).
THEOREM ServedFromDisk == PutSpec => []ServedIsDurable
<1>1. PutInv => ServedIsDurable
  BY DEF PutInv, PutTypeOK, Served, ServedIsDurable
<1> QED BY <1>1, PutInvariant, PTL

\* The env a PUT in flight has read is the one that is served.
LEMMA EnvReadStep == PutInv /\ EnvRead /\ [PutNext]_putVars => EnvRead'
<1> SUFFICES ASSUME PutInv, EnvRead, [PutNext]_putVars PROVE EnvRead'
  OBVIOUS
<1> USE ContentsDiffer DEF PutInv, PutTypeOK, AtRest, EnvRead, Step
<1>1. ASSUME NEW p \in Put, PutStart(p) PROVE EnvRead'
  BY <1>1 DEF PutStart
<1>2. ASSUME NEW p \in Put, PutRefused(p) PROVE EnvRead'
  BY <1>2 DEF PutRefused
<1>3. ASSUME NEW p \in Put, StoreFlags(p) \/ StoreMeta(p) \/ Flush(p) PROVE EnvRead'
  <2>1. mem' = mem /\ status' = status /\ put[p].pc \in InFlight
    BY <1>3 DEF StoreFlags, StoreMeta, Flush, InFlight, Writing
  <2>2. PICK pc : put' = [put EXCEPT ![p].pc = pc]
    BY <1>3 DEF StoreFlags, StoreMeta, Flush
  <2>3. ASSUME NEW q \in Put, put'[q].pc \in InFlight PROVE put'[q].env = mem'.env
    <3>1. put'[q].env = put[q].env /\ put[q].pc \in InFlight
      BY <2>1, <2>2, <2>3
    <3> QED BY <2>1, <3>1
  <2> QED BY <2>1, <2>3
<1>4. ASSUME NEW p \in Put, StoreFails(p) PROVE EnvRead'
  BY <1>4 DEF StoreFails
<1>5. ASSUME NEW p \in Put, Insert(p) PROVE EnvRead'
  BY <1>5 DEF Insert
<1>6. ASSUME NEW p \in Put, Announce(p) PROVE EnvRead'
  BY <1>6 DEF Announce
<1>7. ASSUME NEW s \in Save \cup {First}, Edit(s) \/ Reload(s) PROVE EnvRead'
  <2>1. CASE Edit(s)
    BY <2>1 DEF Edit
  <2>2. CASE Reload(s)
    <3>1. ~Stored /\ mem'.env = TRUE /\ status' = status /\ put' = put
      BY <2>2 DEF Reload
    <3>2. \A p \in Put : put[p].pc \in InFlight => put[p].env = TRUE
      <4>1. CASE status = "down"
        BY <4>1
      <4>2. CASE status # "down"
        BY <4>2, <3>1
      <4> QED BY <4>1, <4>2
    <3> QED BY <3>1, <3>2
  <2> QED BY <1>7, <2>1, <2>2
<1>8. CASE Signal \/ Close
  BY <1>8 DEF Signal, Close
<1>9. CASE Stop
  BY <1>9 DEF Stop
<1>10. CASE Crash
  <2>1. status' = "down" /\ mem'.env = FALSE
    BY <1>10 DEF Crash
  <2>2. \A p \in Put : put'[p].pc \notin InFlight
    BY <1>10 DEF Crash
  <2> QED BY <2>1, <2>2
<1>11. CASE Start
  BY <1>11 DEF Start, Loaded
<1>12. CASE UNCHANGED putVars
  BY <1>12 DEF putVars
<1> QED BY <1>1, <1>2, <1>3, <1>4, <1>5, <1>6, <1>7, <1>8, <1>9, <1>10, <1>11, <1>12
        DEF PutNext

\* No PUT drops the env a namespace is served with (routes.rs:288, 322).
THEOREM EnvIsKept == PutSpec => EnvKept
<1>1. PutInit => EnvRead
  <2> SUFFICES ASSUME PutInit PROVE EnvRead
    OBVIOUS
  <2>1. \A p \in Put : put[p].pc \notin InFlight
    BY DEF PutInit
  <2>2. status = "up" /\ (~Stored => mem.env = TRUE)
    BY DEF PutInit
  <2> QED BY <2>1, <2>2 DEF EnvRead
<1>2. PutInv /\ EnvRead /\ [PutNext]_putVars => [mem.env /\ status' # "down" => mem'.env]_putVars
  <2> SUFFICES ASSUME PutInv, EnvRead, PutNext, mem.env, status' # "down" PROVE mem'.env
    BY DEF putVars
  <2> USE ContentsDiffer DEF PutInv, PutTypeOK, EnvRead
  <2>1. ASSUME NEW p \in Put, Insert(p) PROVE mem'.env
    BY <2>1 DEF Insert
  <2>2. ASSUME NEW s \in Save \cup {First}, Reload(s) PROVE mem'.env
    BY <2>2 DEF Reload
  <2>3. CASE Start
    BY <2>3 DEF Start, Loaded
  <2>4. CASE UNCHANGED mem
    BY <2>4
  <2> QED BY <2>1, <2>2, <2>3, <2>4
          DEF PutNext, PutStart, PutRefused, StoreFlags, StoreMeta, Flush, StoreFails, Announce,
              Edit, Signal, Close, Stop, Crash
<1> QED BY <1>1, <1>2, PutInvariant, EnvReadStep, PTL DEF PutSpec, EnvKept
================================================================================
