----------------------------- MODULE FlagSyncProofs -----------------------------
(***************************************************************************)
(* The flag server with its watcher, streams and followers implements the  *)
(* write path of PutPath, and its Rust client the library's LibState: what *)
(* is proved of the parts holds of the whole.  The proofs about LibState    *)
(* itself come first.                                                      *)
(***************************************************************************)
EXTENDS FlagSync, PutPathProofs

(***************************************************************************)
(* The library's state, for any number of threads and of flagfiles.        *)
(***************************************************************************)
\* The length of what a reader has read is a number.
LEMMA LenIsNat == ASSUME NEW s \in Seq(Nat) PROVE Len(s) \in Nat
  OBVIOUS

\* Every step of the storing thread and of the readers keeps the invariant.
LEMMA LibInvStep == LibInv /\ [LibNext]_libVars => LibInv'
<1> SUFFICES ASSUME LibInv, [LibNext]_libVars PROVE LibInv'
  OBVIOUS
<1> USE DEF LibInv, LibTypeOK, Globals, Holds
<1>1. CASE BeginStore
  BY <1>1 DEF BeginStore
<1>2. CASE StoreGlobal
  BY <1>2, SMTT(30) DEF StoreGlobal
<1>3. ASSUME NEW r \in Reader, ReadLock(r) PROVE LibInv'
  <2> DEFINE n == Len(reader[r])
             s == Append(reader[r], global[n + 1])
  <2>1. n \in 0..3 /\ reader[r] \in Seq(Nat) /\ global[n + 1] \in Nat
    <3>1. reader[r] \in Seq(Nat) /\ n < 4
      BY <1>3 DEF ReadLock
    <3>2. n \in Nat
      BY <3>1, LenIsNat
    <3> HIDE DEF n
    <3>3. n \in 0..3 /\ n + 1 \in 1..4
      BY <3>1, <3>2
    <3>4. global[n + 1] \in Nat
      BY <3>3
    <3> QED BY <3>1, <3>3, <3>4
  <2>2. reader' = [reader EXCEPT ![r] = s] /\ UNCHANGED <<global, version, storing>>
    BY <1>3 DEF ReadLock
  <2>3. s \in Seq(Nat) /\ Len(s) = n + 1
    BY <2>1
  <2>4. \A g \in 1..Len(s) : s[g] = global[g]
    <3>1. /\ n \in Nat /\ s[n + 1] = global[n + 1]
          /\ \A g \in 1..n : s[g] = reader[r][g]
      BY <2>1, SMTT(30)
    <3>2. \A g \in 1..n : reader[r][g] = global[g]
      OBVIOUS
    <3> HIDE DEF n, s
    <3>3. \A g \in 1..(n + 1) : g = n + 1 \/ g \in 1..n
      BY <3>1
    <3> QED BY <2>3, <3>1, <3>2, <3>3
  <2> HIDE DEF s
  <2>5. reader'[r] = s /\ \A q \in Reader : q # r => reader'[q] = reader[q]
    BY <2>2
  <2>6. /\ reader' \in [Reader -> Seq(Nat)]
        /\ \A q \in Reader : Len(reader'[q]) <= 4
    <3>1. \A q \in Reader : reader'[q] \in Seq(Nat) /\ Len(reader'[q]) <= 4
      <4> TAKE q \in Reader
      <4>1. CASE q = r
        <5>1. n + 1 <= 4
          <6> HIDE DEF n
          <6> QED BY <2>1
        <5> QED BY <4>1, <2>3, <2>5, <5>1
      <4>2. CASE q # r
        BY <4>2, <2>5
      <4> QED BY <4>1, <4>2
    <3> QED BY <2>2, <3>1
  <2>7. \A q \in Reader : \A g \in 1..Len(reader'[q]) : reader'[q][g] = global'[g]
    BY <2>2, <2>4, <2>5
  <2> QED BY <2>2, <2>6, <2>7
<1>4. ASSUME NEW r \in Reader, ReadDone(r) PROVE LibInv'
  BY <1>4 DEF ReadDone
<1>5. CASE UNCHANGED libVars
  BY <1>5 DEF libVars
<1> QED BY <1>1, <1>2, <1>3, <1>4, <1>5 DEF LibNext

\* The invariant that ties the readers' locks to the storing thread's progress.
THEOREM LibInvariant == LibSpec => []LibInv
<1>1. LibInit => LibInv
  BY DEF LibInit, LibInv, LibTypeOK, Globals
<1> QED BY <1>1, LibInvStep, PTL DEF LibSpec

\* What ff reads of the four globals is a prefix of one flagfile's followed by
\* the rest of its predecessor's (lib.rs:98-113, lib.rs:128-147).
THEOREM ReadersSeePrefix == LibSpec => []SnapshotPrefix
<1>1. LibInv => SnapshotPrefix
  <2> SUFFICES ASSUME LibInv, NEW r \in Reader, NEW i \in 1..Len(reader[r]),
                      NEW j \in 1..Len(reader[r]), i <= j
               PROVE  reader[r][i] - reader[r][j] \in {0, 1}
    BY DEF SnapshotPrefix
  <2> USE DEF LibInv, LibTypeOK, Globals
  <2>1. reader[r] \in Seq(Nat) /\ Len(reader[r]) \in 0..4
    <3>1. reader[r] \in Seq(Nat) /\ Len(reader[r]) <= 4
      OBVIOUS
    <3> DEFINE n == Len(reader[r])
    <3>2. n \in Nat /\ n <= 4
      BY <3>1, LenIsNat
    <3> HIDE DEF n
    <3>3. n \in 0..4
      BY <3>2
    <3> QED BY <3>1, <3>3 DEF n
  <2>2. i \in Globals /\ j \in Globals
    BY <2>1, SMTT(30)
  <2>3. reader[r][i] = global[i] /\ reader[r][j] = global[j]
    OBVIOUS
  <2>4. version \in Nat /\ storing \in 0..4 /\ (storing # 0 => version > 0)
    OBVIOUS
  <2>5. /\ global[i] = IF storing = 0 \/ i < storing THEN version ELSE version - 1
        /\ global[j] = IF storing = 0 \/ j < storing THEN version ELSE version - 1
    BY <2>2
  <2> HIDE DEF LibInv, LibTypeOK
  <2> QED BY <2>2, <2>3, <2>4, <2>5
<1> QED BY <1>1, LibInvariant, PTL
-----------------------------------------------------------------------------
(***************************************************************************)
(* The server and its followers.                                           *)
(***************************************************************************)

\* The Flagfile, and what the watcher is about to serve, are contents of edits.
FileRead ==
    /\ file \in Save \cup {First}
    /\ watcher.pc = "insert" => watcher.got \in Save \cup {First} /\ Watch
    /\ watcher.pc # "off" => Watch
    /\ watcher \in [pc : {"off", "idle", "read", "insert", "announce"},
                    got : Save \cup {First, None}, recent : BOOLEAN, missed : BOOLEAN]

\* Every step of the server is a step of the write path, or none of its business.
LEMMA ServerStepPuts == FileRead /\ ServerNext => [PutNext]_putVars
<1> SUFFICES ASSUME FileRead, ServerNext PROVE [PutNext]_putVars
  OBVIOUS
<1>1. ASSUME NEW p \in Put, PutStep(p) PROVE PutNext
  BY <1>1 DEF PutStep, PutNext
<1>2. ASSUME NEW s \in Save, SaveFile(s) PROVE PutNext
  BY <1>2 DEF SaveFile, PutNext
<1>3. CASE TouchOther \/ Elapse
  BY <1>3 DEF TouchOther, Elapse
<1>4. CASE WatchStep
  <2>1. CASE WatchInsert
    BY <2>1 DEF WatchInsert, FileRead, PutNext
  <2>2. CASE WatchBegins \/ WatchTake \/ WatchRead \/ WatchAnnounce
    BY <2>2 DEF WatchBegins, WatchTake, WatchRead, WatchAnnounce
  <2> QED BY <1>4, <2>1, <2>2 DEF WatchStep
<1>5. ASSUME NEW c \in Sub, StreamRecv(c) \/ StreamShuts(c) PROVE UNCHANGED putVars
  BY <1>5 DEF StreamRecv, StreamShuts
<1>6. CASE ServerSignal \/ ServerClose \/ ServerStop \/ ServerCrash \/ ServerStart
  BY <1>6 DEF ServerSignal, ServerClose, ServerStop, ServerCrash, ServerStart, PutNext
<1> QED BY <1>1, <1>2, <1>3, <1>4, <1>5, <1>6 DEF ServerNext

\* The followers leave the server's variables other than the streams alone.
LEMMA FollowersKeep ==
    Next => \/ ServerNext /\ UNCHANGED <<libVars, sub, hiccups>>
            \/ UNCHANGED <<putVars, events, saves, watcher>>
<1> SUFFICES ASSUME Next, ~(ServerNext /\ UNCHANGED serverOnly)
             PROVE  UNCHANGED <<putVars, events, saves, watcher>>
  BY DEF serverOnly
<1> USE DEF serverVars
<1>1. ASSUME NEW c \in Sub, LinkStep(c) \/ ConnectRefused(c) \/ Cut(c)
      PROVE  UNCHANGED <<putVars, events, saves, watcher>>
  BY <1>1 DEF LinkStep, Connect, ConnectFails, StreamOver, Wake, ConnectRefused, Cut
<1>2. ASSUME NEW c \in Sub, SidecarStep(c) PROVE UNCHANGED <<putVars, events, saves, watcher>>
  BY <1>2 DEF SidecarStep, SidecarEvent, SidecarFetch, SidecarFetchFails, SidecarInsert,
              SidecarAnnounce
<1>3. ASSUME NEW c \in Sub, RustStep(c) PROVE UNCHANGED <<putVars, events, saves, watcher>>
  BY <1>3 DEF RustStep, RustEvent, RustFetch, RustFetchFails, RustStore, RustStored
<1>4. ASSUME NEW c \in Sub, TsStep(c) \/ TsDisconnect(c)
      PROVE  UNCHANGED <<putVars, events, saves, watcher>>
  BY <1>4 DEF TsStep, TsEvent, TsFetch, TsFetchFails, TsDisconnect
<1>5. ASSUME NEW r \in Reader, RustRead(r) PROVE UNCHANGED <<putVars, events, saves, watcher>>
  BY <1>5 DEF RustRead
<1> QED BY <1>1, <1>2, <1>3, <1>4, <1>5 DEF Next, OfKind

\* What the watcher reads is the Flagfile of that moment.
LEMMA FileReadStep == FileRead /\ [Next]_vars => FileRead'
<1> SUFFICES ASSUME FileRead, [Next]_vars PROVE FileRead'
  OBVIOUS
<1> USE DEF FileRead, NotWatching
<1>1. CASE ServerNext
  <2>1. ASSUME NEW p \in Put, PutStep(p) PROVE FileRead'
    BY <2>1 DEF PutStep, others, PutStart, PutRefused, StoreFlags, StoreMeta, Flush, StoreFails,
                Insert, Announce
  <2>2. ASSUME NEW s \in Save, SaveFile(s) PROVE FileRead'
    BY <2>2 DEF SaveFile, Edit
  <2>3. CASE TouchOther \/ Elapse
    BY <2>3 DEF TouchOther, Elapse, putVars
  <2>4. CASE WatchBegins \/ WatchAnnounce
    BY <2>4 DEF WatchBegins, WatchAnnounce, putVars
  <2>5. CASE WatchTake
    BY <2>5 DEF WatchTake, putVars
  <2>6. CASE WatchRead
    BY <2>6 DEF WatchRead, putVars
  <2>7. CASE WatchInsert
    BY <2>7 DEF WatchInsert, Reload
  <2>8. ASSUME NEW c \in Sub, StreamRecv(c) \/ StreamShuts(c) PROVE FileRead'
    BY <2>8 DEF StreamRecv, StreamShuts, putVars
  <2>9. CASE ServerSignal \/ ServerClose
    BY <2>9 DEF ServerSignal, ServerClose, Signal, Close, others
  <2>10. CASE ServerStop \/ ServerCrash \/ ServerStart
    <3>1. file' = file /\ watcher' = NotWatching
      BY <2>10 DEF ServerStop, ServerCrash, ServerStart, Stop, Crash, Start
    <3> QED BY <3>1
  <2> QED BY <1>1, <2>1, <2>2, <2>3, <2>4, <2>5, <2>6, <2>7, <2>8, <2>9, <2>10
          DEF ServerNext, WatchStep
<1>2. CASE UNCHANGED <<putVars, events, saves, watcher>>
  BY <1>2 DEF putVars
<1>3. CASE UNCHANGED vars
  BY <1>3 DEF vars, serverVars, putVars
<1> QED BY <1>1, <1>2, <1>3, FollowersKeep

\* The whole implements the write path: whatever the watcher, the streams and
\* the followers do, the theorems of PutPathProofs hold of it.
THEOREM ImplementsPutPath == Spec => PutSpec
<1>1. Init => PutInit /\ FileRead
  BY ContentsDiffer DEF Init, ServerInit, PutInit, FileRead, NotWatching
<1>2. FileRead /\ [Next]_vars => [PutNext]_putVars
  BY ServerStepPuts, FollowersKeep DEF vars, serverVars
<1> QED BY <1>1, <1>2, FileReadStep, PTL DEF Spec, PutSpec

\* Its Rust client implements the library's state: what ff reads while the
\* listener reloads is a prefix of one flagfile's globals.
THEOREM ImplementsLibState == Spec => LibSpec
<1>1. Init => LibInit
  BY DEF Init
<1>2. [Next]_vars => [LibNext]_libVars
  <2> SUFFICES ASSUME Next PROVE [LibNext]_libVars
    BY DEF vars
  <2>1. CASE ServerNext /\ UNCHANGED serverOnly
    BY <2>1 DEF serverOnly
  <2>2. ASSUME NEW c \in Sub, LinkStep(c) \/ ConnectRefused(c) \/ Cut(c) PROVE UNCHANGED libVars
    BY <2>2 DEF LinkStep, Connect, ConnectFails, StreamOver, Wake, ConnectRefused, Cut
  <2>3. ASSUME NEW c \in Sub, SidecarStep(c) PROVE UNCHANGED libVars
    BY <2>3 DEF SidecarStep, SidecarEvent, SidecarFetch, SidecarFetchFails, SidecarInsert,
                SidecarAnnounce
  <2>4. ASSUME NEW c \in Sub, RustStep(c) PROVE [LibNext]_libVars
    BY <2>4 DEF RustStep, RustEvent, RustFetch, RustFetchFails, RustStore, RustStored, LibNext
  <2>5. ASSUME NEW c \in Sub, TsStep(c) \/ TsDisconnect(c) PROVE UNCHANGED libVars
    BY <2>5 DEF TsStep, TsEvent, TsFetch, TsFetchFails, TsDisconnect
  <2>6. ASSUME NEW r \in Reader, RustRead(r) PROVE LibNext
    BY <2>6 DEF RustRead, LibNext
  <2> QED BY <2>1, <2>2, <2>3, <2>4, <2>5, <2>6 DEF Next, OfKind
<1> QED BY <1>1, <1>2, PTL DEF Spec, LibSpec

\* So, with every follower, edit, stop and crash: an answered PUT is durable, a
\* later PUT wins, nothing is served ahead of the disk, ff reads a prefix.
THEOREM WholeIsSafe ==
    Spec => [](AckedIsDurable /\ LaterPutWins /\ ServedIsDurable /\ SnapshotPrefix)
BY ImplementsPutPath, ImplementsLibState, AnsweredIsDurable, LaterWins, ServedFromDisk,
   ReadersSeePrefix, PTL
-----------------------------------------------------------------------------
(***************************************************************************)
(* What the followers are owed.                                            *)
(***************************************************************************)

\* A library that fetches or stores does so for a reason it goes on from.
Reasons == {"boot", "flag_update", "server_shutdown"}
Reasoned(c, f) ==
    /\ Kind[c] = "rust" /\ f.pc \in {"fetch", "store"} => f.event \in Reasons
    /\ Kind[c] = "ts" /\ f.pc = "fetch" => f.event \in Reasons \cup {"disconnect"}

FollowersTyped ==
    /\ sub \in [Sub -> Follower] /\ \A c \in Sub : Reasoned(c, sub[c])
    /\ hiccups \in 0..MaxHiccups

\* A receiver lags only behind a full channel, and a process that is down has
\* no open response.
StreamSound(s) == s \in Stream /\ Len(s.wire) <= WireCap /\ (s.lagged => s.unread = Capacity)
StreamsSound ==
    /\ stream \in [Sub -> Stream] /\ \A c \in Sub : StreamSound(stream[c])
    /\ status = "down" => \A c \in Sub : OfServer(c) => ~IsOpen(stream[c])

\* The events a follower fetches on.
Acts(c) == IF Kind[c] = "sidecar" THEN {"connected", "flag_update", "server_shutdown"}
           ELSE {"flag_update", "server_shutdown"}

\* Something makes the follower fetch again, or connect first.
Signalled(c, s) == ~IsOpen(s) \/ s.unread > 0 \/ \E i \in 1..Len(s.wire) : s.wire[i] \in Acts(c)
Returning(f) == f.pc \in {"fetch", "connect", "sleep", "stopped"}

\* The content it has, or is about to have.
Coming(f) == IF f.pc \in {"insert", "store"} THEN f.got ELSE f.content

\* Whoever is owed no further word has the upstream's content, or is storing it.
Informed(c) ==
    (Kind[c] = "sidecar" \/ sub[c].heard) =>
        \/ sub[c].failed \/ Returning(sub[c])
        \/ Signalled(c, stream[c]) \/ Unannounced(c)
        \/ Coming(sub[c]) = ServedTo(c)

AllInformed == \A c \in Sub : Informed(c)
-----------------------------------------------------------------------------
\* What the channel, the response and the client do to one stream.
LEMMA WireAppend ==
    ASSUME NEW w \in Seq(EventType), NEW e \in EventType, Len(w) < WireCap
    PROVE  /\ Append(w, e) \in Seq(EventType) /\ Len(Append(w, e)) <= WireCap
           /\ Len(Append(w, e)) = Len(w) + 1 /\ Append(w, e)[Len(w) + 1] = e
           /\ Len(w) \in Nat /\ Len(w) + 1 \in 1..Len(Append(w, e))
  BY Capacities

LEMMA ConnectedStream ==
    ASSUME NEW late \in BOOLEAN
    PROVE  /\ StreamSound(subscribe(late)) /\ IsOpen(subscribe(late))
           /\ \A c : Kind[c] = "sidecar" => Signalled(c, subscribe(late))
           /\ StreamSound(NoStream) /\ ~IsOpen(NoStream)
<1> DEFINE w == <<"connected">>
<1>1. /\ w \in Seq(EventType) /\ Len(w) = 1 /\ w[1] = "connected" /\ <<>> \in Seq(EventType)
      /\ Len(<<>>) = 0
  BY DEF EventType
<1>2. NoStream \in Stream /\ NoStream.wire = <<>> /\ NoStream.lagged = FALSE /\ NoStream.st = "none"
  BY <1>1, Capacities DEF NoStream, Stream
<1>3. /\ subscribe(late).wire = w /\ subscribe(late).st = "open"
      /\ subscribe(late) \in Stream /\ subscribe(late).lagged = FALSE
  <2>1. subscribe(late) = [NoStream EXCEPT !.st = "open", !.late = late, !.wire = w]
    BY DEF subscribe
  <2> HIDE DEF w
  <2> QED BY <1>1, <1>2, <2>1 DEF Stream
<1>4. StreamSound(subscribe(late)) /\ IsOpen(subscribe(late))
  BY <1>1, <1>3, Capacities DEF StreamSound, IsOpen
<1>5. \A c : Kind[c] = "sidecar" => Signalled(c, subscribe(late))
  BY <1>1, <1>3 DEF Signalled, Acts
<1>6. StreamSound(NoStream) /\ ~IsOpen(NoStream)
  BY <1>1, <1>2, Capacities DEF StreamSound, IsOpen
<1> QED BY <1>4, <1>5, <1>6

LEMMA BroadcastStream ==
    ASSUME NEW s, StreamSound(s)
    PROVE  /\ StreamSound(broadcast(s)) /\ (IsOpen(broadcast(s)) <=> IsOpen(s))
           /\ \A c : Signalled(c, broadcast(s))
<1>1. CASE ~IsOpen(s)
  BY <1>1 DEF broadcast, Signalled
<1>2. CASE IsOpen(s)
  <2>1. s \in Stream /\ s.unread \in 0..Capacity /\ s.wire \in Seq(EventType)
    BY DEF StreamSound, Stream
  <2>2. CASE s.unread < Capacity
    <3>1. broadcast(s) = [s EXCEPT !.unread = s.unread + 1]
      BY <1>2, <2>2 DEF broadcast
    <3>2. s.unread + 1 \in 1..Capacity /\ ~s.lagged
      BY <2>1, <2>2, Capacities DEF StreamSound
    <3>3. broadcast(s).unread = s.unread + 1 /\ broadcast(s).wire = s.wire /\ broadcast(s).st = s.st
          /\ broadcast(s).lagged = s.lagged /\ broadcast(s) \in Stream
      BY <3>1, <3>2, <2>1, Capacities DEF Stream
    <3> QED BY <3>2, <3>3, <1>2 DEF StreamSound, Signalled, IsOpen
  <2>3. CASE s.unread >= Capacity
    <3>1. broadcast(s) = [s EXCEPT !.lagged = TRUE] /\ s.unread = Capacity /\ s.unread > 0
      BY <1>2, <2>1, <2>3, Capacities DEF broadcast
    <3>2. broadcast(s).unread = s.unread /\ broadcast(s).wire = s.wire /\ broadcast(s).st = s.st
          /\ broadcast(s) \in Stream
      BY <3>1, <2>1 DEF Stream
    <3> QED BY <3>1, <3>2, <1>2 DEF StreamSound, Signalled, IsOpen
  <2> QED BY <2>1, <2>2, <2>3, Capacities
<1> QED BY <1>1, <1>2

LEMMA RecvStream ==
    ASSUME NEW s, StreamSound(s), HasRoom(s), s.lagged \/ s.unread > 0
    PROVE  StreamSound(recv(s)) /\ (IsOpen(recv(s)) <=> IsOpen(s)) /\ \A c : Signalled(c, recv(s))
<1>1. s \in Stream /\ s.unread \in 0..Capacity /\ s.wire \in Seq(EventType) /\ Len(s.wire) < WireCap
  BY DEF StreamSound, Stream, HasRoom
<1>2. CASE s.lagged
  <2> DEFINE w == Append(s.wire, "lag_warning")
  <2>1. w \in Seq(EventType) /\ Len(w) <= WireCap
    BY <1>1, WireAppend DEF EventType
  <2>2. recv(s) = [[s EXCEPT !.lagged = FALSE] EXCEPT !.wire = w]
    BY <1>2, <1>1 DEF recv, Yield, Stream
  <2> HIDE DEF w
  <2>3. recv(s).lagged = FALSE /\ recv(s).wire = w /\ recv(s).unread = s.unread
        /\ recv(s).st = s.st /\ recv(s) \in Stream
    BY <2>1, <2>2, <1>1 DEF Stream
  <2>4. s.unread > 0
    BY <1>2, Capacities DEF StreamSound
  <2> QED BY <2>1, <2>3, <2>4 DEF StreamSound, IsOpen, Signalled
<1>3. CASE ~s.lagged
  <2> DEFINE w == Append(s.wire, "flag_update")
  <2>1. /\ w \in Seq(EventType) /\ Len(w) <= WireCap
        /\ \E i \in 1..Len(w) : w[i] = "flag_update"
    BY <1>1, WireAppend DEF EventType
  <2>2. recv(s) = [[s EXCEPT !.unread = s.unread - 1] EXCEPT !.wire = w]
    BY <1>3, <1>1 DEF recv, Yield, Stream
  <2>3. s.unread - 1 \in 0..Capacity
    BY <1>1, <1>3, Capacities
  <2> HIDE DEF w
  <2>4. recv(s).lagged = s.lagged /\ recv(s).wire = w /\ recv(s).st = s.st /\ recv(s) \in Stream
    BY <2>1, <2>2, <2>3, <1>1 DEF Stream
  <2> QED BY <2>1, <2>4, <1>3 DEF StreamSound, IsOpen, Signalled, Acts
<1> QED BY <1>2, <1>3

LEMMA ShutStream ==
    ASSUME NEW s, StreamSound(s)
    PROVE  /\ StreamSound(shutdown(s)) /\ (IsOpen(shutdown(s)) <=> IsOpen(s))
           /\ \A c : Signalled(c, s) => Signalled(c, shutdown(s))
           /\ HasRoom(s) => StreamSound(recvShutdown(s)) /\ ~IsOpen(recvShutdown(s))
<1>1. s \in Stream /\ s.wire \in Seq(EventType)
  BY DEF StreamSound, Stream
<1>2. shutdown(s) \in Stream /\ shutdown(s).st = s.st /\ shutdown(s).unread = s.unread
      /\ shutdown(s).wire = s.wire /\ shutdown(s).lagged = s.lagged
  BY <1>1 DEF shutdown, Stream, IsOpen
<1>3. ASSUME HasRoom(s) PROVE StreamSound(recvShutdown(s)) /\ ~IsOpen(recvShutdown(s))
  <2> DEFINE w == Append(s.wire, "server_shutdown")
  <2>1. w \in Seq(EventType) /\ Len(w) <= WireCap
    BY <1>1, <1>3, WireAppend DEF EventType, HasRoom
  <2>2. recvShutdown(s) = [[s EXCEPT !.st = "ended", !.shut = FALSE] EXCEPT !.wire = w]
    BY <1>1 DEF recvShutdown, Yield, Stream
  <2> HIDE DEF w
  <2>3. recvShutdown(s) \in Stream /\ recvShutdown(s).wire = w /\ recvShutdown(s).st = "ended"
        /\ recvShutdown(s).lagged = s.lagged /\ recvShutdown(s).unread = s.unread
    BY <2>1, <2>2, <1>1 DEF Stream
  <2> QED BY <2>1, <2>3 DEF StreamSound, IsOpen
<1>4. StreamSound(shutdown(s))
  BY <1>2 DEF StreamSound
<1> QED BY <1>2, <1>3, <1>4 DEF IsOpen, Signalled

\* Reading an event the follower does not act upon loses no other.
LEMMA ReadStream ==
    ASSUME NEW s, StreamSound(s), s.wire # <<>>, NEW t, t = [s EXCEPT !.wire = Tail(s.wire)]
    PROVE  /\ StreamSound(t) /\ (IsOpen(t) <=> IsOpen(s)) /\ Head(s.wire) \in EventType
           /\ \A c : Signalled(c, s) /\ Head(s.wire) \notin Acts(c) => Signalled(c, t)
<1> DEFINE w == Tail(s.wire)
<1>1. s \in Stream /\ s.wire \in Seq(EventType)
  BY DEF StreamSound, Stream
<1>2. /\ w \in Seq(EventType) /\ Len(w) = Len(s.wire) - 1 /\ Head(s.wire) = s.wire[1]
      /\ s.wire[1] \in EventType
      /\ \A i \in 1..Len(w) : w[i] = s.wire[i + 1]
  BY <1>1
<1>3. \A i \in 1..Len(s.wire) : i = 1 \/ (i - 1 \in 1..Len(w) /\ w[i - 1] = s.wire[i])
  BY <1>1
<1>4. Len(w) <= WireCap
  BY <1>1, <1>2, Capacities DEF StreamSound
<1> HIDE DEF w
<1>5. t \in Stream /\ t.wire = w /\ t.st = s.st /\ t.unread = s.unread /\ t.lagged = s.lagged
  BY <1>1, <1>2 DEF w, Stream
<1>6. StreamSound(t)
  BY <1>4, <1>5 DEF StreamSound
<1>7. ASSUME NEW c, Signalled(c, s), Head(s.wire) \notin Acts(c) PROVE Signalled(c, t)
  BY <1>7, <1>2, <1>3, <1>5 DEF Signalled, IsOpen
<1> QED BY <1>2, <1>5, <1>6, <1>7 DEF IsOpen
-----------------------------------------------------------------------------
(***************************************************************************)
(* The server's steps.                                                     *)
(***************************************************************************)
ServerOwes == watcher.pc = "announce" \/ \E p \in Put : put[p].pc = "announce"

\* A stream stays sound and keeps its word; a change of the server's content is
\* followed by an announcement, or closes the stream.
Carried(c) ==
    /\ StreamSound(stream'[c])
    /\ Signalled(c, stream[c]) => Signalled(c, stream'[c])
    /\ OfServer(c) =>
        /\ status' = "down" => ~IsOpen(stream'[c])
        /\ ServerOwes => ServerOwes' \/ Signalled(c, stream'[c])
        /\ mem'.content = mem.content \/ ServerOwes' \/ Signalled(c, stream'[c])

LEMMA ClosedIsSignalled == ASSUME NEW s, ~IsOpen(s) PROVE \A c : Signalled(c, s)
  BY DEF Signalled

LEMMA OneStream ==
    ASSUME StreamsSound, NEW c \in Sub, NEW t, StreamSound(t), stream' = [stream EXCEPT ![c] = t]
    PROVE  /\ stream' \in [Sub -> Stream] /\ stream'[c] = t
           /\ \A d \in Sub : d # c => stream'[d] = stream[d]
  BY DEF StreamsSound, StreamSound

LEMMA PutStepCarries ==
    ASSUME PutTypeOK, StreamsSound, NEW p \in Put, PutStep(p)
    PROVE  stream' \in [Sub -> Stream] /\ \A c \in Sub : Carried(c)
<1>1. CASE Announce(p) /\ stream' = Broadcast(Origin) /\ UNCHANGED <<events, saves, watcher>>
  <2>1. status' = status /\ mem' = mem
    BY <1>1 DEF Announce
  <2>2. ASSUME NEW c \in Sub
        PROVE  /\ OfServer(c) => stream'[c] = broadcast(stream[c])
               /\ ~OfServer(c) => stream'[c] = stream[c]
    BY <1>1 DEF Broadcast, OfServer
  <2>3. ASSUME NEW c \in Sub PROVE Carried(c)
    BY <2>1, <2>2, <2>3, BroadcastStream DEF Carried, StreamsSound
  <2>4. stream' = [c \in Sub |-> IF Upstream[c] = Origin THEN broadcast(stream[c]) ELSE stream[c]]
    BY <1>1 DEF Broadcast
  <2> QED BY <2>3, <2>4 DEF Carried, StreamSound
<1>2. CASE /\ UNCHANGED <<stream, events, saves, watcher>>
           /\ \/ PutStart(p) \/ PutRefused(p) \/ StoreFlags(p) \/ StoreMeta(p) \/ Flush(p)
              \/ StoreFails(p) \/ Insert(p)
  <2>1. status' = status
    BY <1>2 DEF PutStart, PutRefused, StoreFlags, StoreMeta, Flush, StoreFails, Insert
  <2>2. ServerOwes => ServerOwes'
    <3>1. \A q \in Put : q # p => put'[q] = put[q]
      BY <1>2 DEF PutTypeOK, PutStart, PutRefused, StoreFlags, StoreMeta, Flush, StoreFails,
                  Insert, Step
    <3>2. put[p].pc # "announce"
      BY <1>2 DEF PutStart, PutRefused, StoreFlags, StoreMeta, Flush, StoreFails, Insert, Writing
    <3> QED BY <1>2, <3>1, <3>2 DEF ServerOwes
  <2>3. mem'.content = mem.content \/ ServerOwes'
    <3>1. CASE Insert(p)
      <4>1. put'[p].pc = "announce"
        BY <3>1 DEF Insert, Step, PutTypeOK
      <4> QED BY <4>1 DEF ServerOwes
    <3>2. CASE ~Insert(p)
      BY <1>2, <3>2 DEF PutStart, PutRefused, StoreFlags, StoreMeta, Flush, StoreFails
    <3> QED BY <3>1, <3>2
  <2> QED BY <1>2, <2>1, <2>2, <2>3 DEF Carried, StreamsSound
<1> QED BY <1>1, <1>2 DEF PutStep, others

LEMMA ServerStepCarries ==
    ASSUME PutTypeOK, FileRead, StreamsSound, ServerNext
    PROVE  stream' \in [Sub -> Stream] /\ \A c \in Sub : Carried(c)
<1>1. ASSUME NEW p \in Put, PutStep(p)
      PROVE  stream' \in [Sub -> Stream] /\ \A c \in Sub : Carried(c)
  BY <1>1, PutStepCarries
<1>2. ASSUME stream' = stream, status' = status, mem' = mem, ServerOwes => ServerOwes'
      PROVE  stream' \in [Sub -> Stream] /\ \A c \in Sub : Carried(c)
  BY <1>2 DEF Carried, StreamsSound
<1>3. ASSUME stream' = stream, status' = status, ServerOwes'
      PROVE  stream' \in [Sub -> Stream] /\ \A c \in Sub : Carried(c)
  BY <1>3 DEF Carried, StreamsSound
<1>4. ASSUME NEW s \in Save, SaveFile(s)
      PROVE  stream' \in [Sub -> Stream] /\ \A c \in Sub : Carried(c)
  <2>1. stream' = stream /\ status' = status /\ mem' = mem /\ put' = put
        /\ watcher'.pc = watcher.pc
    BY <1>4 DEF SaveFile, Edit, FileRead
  <2> QED BY <1>2, <2>1 DEF ServerOwes
<1>5. CASE TouchOther \/ Elapse \/ WatchBegins \/ WatchTake \/ WatchRead
  <2>1. stream' = stream /\ status' = status /\ mem' = mem /\ put' = put
        /\ (watcher.pc = "announce" => watcher'.pc = "announce")
    BY <1>5 DEF TouchOther, Elapse, WatchBegins, WatchTake, WatchRead, putVars, FileRead
  <2> QED BY <1>2, <2>1 DEF ServerOwes
<1>6. CASE WatchInsert
  <2>1. stream' = stream /\ status' = status /\ watcher'.pc = "announce"
    BY <1>6 DEF WatchInsert, Reload, FileRead
  <2> QED BY <1>3, <2>1 DEF ServerOwes
<1>7. CASE WatchAnnounce
  <2>1. status' = status /\ mem' = mem /\ stream' = Broadcast(Origin)
    BY <1>7 DEF WatchAnnounce, putVars
  <2>2. ASSUME NEW c \in Sub
        PROVE  /\ OfServer(c) => stream'[c] = broadcast(stream[c])
               /\ ~OfServer(c) => stream'[c] = stream[c]
    BY <2>1 DEF Broadcast, OfServer
  <2>3. ASSUME NEW c \in Sub PROVE Carried(c)
    BY <2>1, <2>2, <2>3, BroadcastStream DEF Carried, StreamsSound
  <2>4. stream' = [c \in Sub |-> IF Upstream[c] = Origin THEN broadcast(stream[c]) ELSE stream[c]]
    BY <2>1 DEF Broadcast
  <2> QED BY <2>3, <2>4 DEF Carried, StreamSound
<1>8. ASSUME NEW d \in Sub, StreamRecv(d) \/ StreamShuts(d)
      PROVE  stream' \in [Sub -> Stream] /\ \A c \in Sub : Carried(c)
  <2>1. status' = status /\ mem' = mem /\ put' = put /\ watcher' = watcher
    BY <1>8 DEF StreamRecv, StreamShuts, putVars
  <2>2. PICK t : /\ stream' = [stream EXCEPT ![d] = t]
                 /\ StreamSound(t) /\ Signalled(d, t) /\ (IsOpen(t) => IsOpen(stream[d]))
    <3>1. StreamSound(stream[d])
      BY DEF StreamsSound
    <3>2. CASE StreamRecv(d)
      BY <3>1, <3>2, RecvStream DEF StreamRecv
    <3>3. CASE StreamShuts(d)
      BY <3>1, <3>3, ShutStream, ClosedIsSignalled DEF StreamShuts
    <3> QED BY <1>8, <3>2, <3>3
  <2>3. stream' \in [Sub -> Stream] /\ stream'[d] = t
        /\ \A c \in Sub : c # d => stream'[c] = stream[c]
    BY <2>2, OneStream
  <2> QED BY <2>1, <2>2, <2>3 DEF Carried, StreamsSound, ServerOwes
<1>9. CASE ServerSignal
  <2>1. status' = "draining" /\ mem' = mem /\ put' = put /\ watcher' = watcher
    BY <1>9 DEF ServerSignal, Signal
  <2>2. stream' = [c \in Sub |-> IF OfServer(c) THEN shutdown(stream[c]) ELSE stream[c]]
    BY <1>9 DEF ServerSignal
  <2>3. ASSUME NEW c \in Sub PROVE Carried(c)
    BY <2>1, <2>2, <2>3, ShutStream DEF Carried, StreamsSound, ServerOwes
  <2> QED BY <2>2, <2>3 DEF Carried, StreamSound
<1>10. CASE ServerClose
  <2>1. status' = "closing" /\ mem' = mem /\ put' = put /\ watcher' = watcher /\ stream' = stream
    BY <1>10 DEF ServerClose, Close, others
  <2> QED BY <2>1 DEF Carried, StreamsSound, ServerOwes
<1>11. CASE ServerStop
  <2>1. stream' = stream /\ \A c \in Sub : OfServer(c) => ~IsOpen(stream[c])
    BY <1>11 DEF ServerStop
  <2> QED BY <2>1, ClosedIsSignalled DEF Carried, StreamsSound
<1>12. CASE ServerCrash
  <2>1. stream' = [c \in Sub |-> IF OfServer(c) THEN NoStream ELSE stream[c]]
    BY <1>12 DEF ServerCrash
  <2>2. ASSUME NEW c \in Sub PROVE Carried(c)
    BY <2>1, ConnectedStream, ClosedIsSignalled DEF Carried, StreamsSound
  <2> QED BY <2>1, <2>2 DEF Carried, StreamSound
<1>13. CASE ServerStart
  <2>1. stream' = stream /\ status = "down"
    BY <1>13 DEF ServerStart, Start
  <2> QED BY <2>1, ClosedIsSignalled DEF Carried, StreamsSound
<1> QED BY <1>1, <1>4, <1>5, <1>6, <1>7, <1>8, <1>9, <1>10, <1>11, <1>12, <1>13
        DEF ServerNext, WatchStep

LEMMA ServerInforms ==
    ASSUME StreamsSound, AllInformed, sub' = sub,
           stream' \in [Sub -> Stream], \A c \in Sub : Carried(c)
    PROVE  StreamsSound' /\ AllInformed'
<1>1. StreamsSound'
  BY DEF StreamsSound, Carried
<1>2. ASSUME NEW c \in Sub, OfServer(c) PROVE Informed(c)'
  <2>1. /\ ServedTo(c) = mem.content /\ ServedTo(c)' = mem'.content
        /\ (Unannounced(c) <=> ServerOwes) /\ (Unannounced(c)' <=> ServerOwes')
    BY <1>2 DEF OfServer, ServedTo, Unannounced, ServerOwes
  <2>2. Carried(c) /\ Informed(c)
    BY DEF AllInformed
  <2> QED BY <1>2, <2>1, <2>2 DEF Carried, Informed
<1>3. ASSUME NEW c \in Sub, ~OfServer(c) PROVE Informed(c)'
  <2>1. ServedTo(c)' = ServedTo(c) /\ (Unannounced(c)' <=> Unannounced(c))
    BY <1>3 DEF OfServer, ServedTo, Unannounced, At
  <2>2. Carried(c) /\ Informed(c)
    BY DEF AllInformed
  <2> QED BY <2>1, <2>2 DEF Carried, Informed
<1> QED BY <1>1, <1>2, <1>3 DEF AllInformed
-----------------------------------------------------------------------------
(***************************************************************************)
(* The followers' steps.                                                   *)
(***************************************************************************)
Tracking == PutTypeOK /\ FollowersTyped /\ StreamsSound /\ AllInformed

\* What a step of follower c may do to it and to its stream.
Moves(c) ==
    LET f == sub'[c]
        t == stream'[c]
    IN  /\ sub' \in [Sub -> Follower] /\ \A d \in Sub : d # c => sub'[d] = sub[d]
        /\ stream' \in [Sub -> Stream] /\ \A d \in Sub : d # c => stream'[d] = stream[d]
        /\ hiccups' \in 0..MaxHiccups /\ Reasoned(c, f)
        /\ StreamSound(t) /\ (IsOpen(t) => IsOpen(stream[c]) \/ Answers(c))
        /\ Kind[c] = "sidecar" =>
             /\ f.content = sub[c].content \/ f.pc = "announce"
             /\ sub[c].pc = "announce" => f.pc = "announce"
        /\ Kind[c] = "sidecar" \/ f.heard =>
             \/ f.failed \/ Returning(f) \/ Signalled(c, t) \/ Unannounced(c)
             \/ Coming(f) = ServedTo(c)

LEMMA MovesKeep ==
    ASSUME Tracking, NEW c \in Sub, Moves(c), UNCHANGED <<putVars, watcher>>
    PROVE  FollowersTyped' /\ StreamsSound' /\ AllInformed'
<1> USE DEF Tracking
<1>1. FollowersTyped'
  BY DEF FollowersTyped, Moves
<1>2. StreamsSound'
  <2>1. status' = status
    BY DEF putVars
  <2>2. OfServer(c) /\ Answers(c) => status # "down"
    BY DEF OfServer, Answers, Accepting
  <2> QED BY <2>1, <2>2 DEF StreamsSound, Moves
<1>3. ASSUME NEW d \in Sub
      PROVE  /\ Unannounced(d) => Unannounced(d)'
             /\ ServedTo(d)' = ServedTo(d) \/ Unannounced(d)'
  <2>1. CASE Upstream[d] = Origin
    BY <2>1 DEF Unannounced, ServedTo, putVars
  <2>2. CASE Upstream[d] # Origin
    <3>1. Upstream[d] \in Sub /\ Kind[Upstream[d]] = "sidecar"
      BY <2>2, Subscriptions, OneRustClient
    <3>2. /\ Unannounced(d) <=> sub[Upstream[d]].pc = "announce"
          /\ Unannounced(d)' <=> sub'[Upstream[d]].pc = "announce"
          /\ ServedTo(d) = sub[Upstream[d]].content /\ ServedTo(d)' = sub'[Upstream[d]].content
      BY <2>2 DEF Unannounced, ServedTo, At
    <3> QED BY <3>1, <3>2 DEF Moves
  <2> QED BY <2>1, <2>2
<1>4. Informed(c)'
  BY <1>3 DEF Moves, Informed
<1>5. ASSUME NEW d \in Sub, d # c PROVE Informed(d)'
  BY <1>3, <1>5 DEF Moves, Informed, AllInformed
<1> QED BY <1>1, <1>2, <1>4, <1>5 DEF AllInformed

\* The two ways to state such a step: the follower moves, with its stream or not.
LEMMA MoveOf ==
    ASSUME Tracking, NEW c \in Sub, NEW f \in Follower, sub' = [sub EXCEPT ![c] = f],
           NEW t, StreamSound(t), stream' = [stream EXCEPT ![c] = t],
           hiccups' \in 0..MaxHiccups, Reasoned(c, f), IsOpen(t) => IsOpen(stream[c]) \/ Answers(c),
           Kind[c] = "sidecar" => /\ f.content = sub[c].content \/ f.pc = "announce"
                                  /\ sub[c].pc = "announce" => f.pc = "announce",
           Kind[c] = "sidecar" \/ f.heard =>
             \/ f.failed \/ Returning(f) \/ Signalled(c, t) \/ Unannounced(c)
             \/ Coming(f) = ServedTo(c)
    PROVE  Moves(c)
<1>1. /\ sub' \in [Sub -> Follower] /\ sub'[c] = f
      /\ \A d \in Sub : d # c => sub'[d] = sub[d]
  BY DEF Tracking, FollowersTyped
<1>2. /\ stream' \in [Sub -> Stream] /\ stream'[c] = t
      /\ \A d \in Sub : d # c => stream'[d] = stream[d]
  BY OneStream DEF Tracking
<1> QED BY <1>1, <1>2 DEF Moves

LEMMA Untouched ==
    ASSUME Tracking, NEW c \in Sub
    PROVE  /\ sub = [sub EXCEPT ![c] = sub[c]] /\ stream = [stream EXCEPT ![c] = stream[c]]
           /\ StreamSound(stream[c]) /\ sub[c] \in Follower /\ Reasoned(c, sub[c])
           /\ Informed(c) /\ hiccups \in 0..MaxHiccups /\ ServedTo(c) \in Shown
           /\ (Hiccup => hiccups' \in 0..MaxHiccups)
<1>1. sub \in [Sub -> Follower] /\ stream \in [Sub -> Stream]
  BY DEF Tracking, FollowersTyped, StreamsSound
<1>2. ServedTo(c) \in Shown
  <2>1. CASE Upstream[c] = Origin
    BY <2>1 DEF ServedTo, Tracking, PutTypeOK, Shown
  <2>2. CASE Upstream[c] # Origin
    BY <2>2, <1>1, Subscriptions DEF ServedTo, Follower
  <2> QED BY <2>1, <2>2
<1>3. hiccups \in 0..MaxHiccups /\ (Hiccup => hiccups' \in 0..MaxHiccups)
  BY HiccupsAssumption DEF Tracking, FollowersTyped, Hiccup
<1> QED BY <1>1, <1>2, <1>3 DEF Tracking, FollowersTyped, StreamsSound, AllInformed

\* Connections: a new stream begins with `connected`, which a sidecar acts upon
\* and a library does not.
LEMMA LinkMoves ==
    ASSUME Tracking, NEW c \in Sub, LinkStep(c) \/ ConnectRefused(c) \/ Cut(c)
    PROVE  Moves(c)
<1> DEFINE s == stream[c]
<1>0. /\ sub = [sub EXCEPT ![c] = sub[c]] /\ stream = [stream EXCEPT ![c] = s]
      /\ StreamSound(s) /\ sub[c] \in Follower /\ Reasoned(c, sub[c])
      /\ hiccups \in 0..MaxHiccups /\ (Hiccup => hiccups' \in 0..MaxHiccups)
  BY Untouched
<1>1. CASE Connect(c)
  <2> DEFINE t == subscribe(Upstream[c] = Origin /\ status = "draining")
             f == [sub[c] EXCEPT !.pc = "read", !.heard = FALSE]
  <2>1. sub' = [sub EXCEPT ![c] = f] /\ stream' = [stream EXCEPT ![c] = t]
        /\ hiccups' = hiccups /\ Answers(c)
    BY <1>1, <1>0 DEF Connect
  <2>2. StreamSound(t) /\ (Kind[c] = "sidecar" => Signalled(c, t))
    BY ConnectedStream
  <2>3. sub[c].pc = "connect"
    BY <1>1 DEF Connect, At
  <2>4. f \in Follower /\ Reasoned(c, f) /\ ~f.heard /\ f.content = sub[c].content
    BY <1>0 DEF Follower, Reasoned
  <2> HIDE DEF f, t
  <2> QED BY <2>1, <2>2, <2>3, <2>4, <1>0, MoveOf
<1>2. ASSUME NEW pc \in {"sleep", "connect", "stopped"}, sub' = [sub EXCEPT ![c].pc = pc],
             NEW t, StreamSound(t), stream' = [stream EXCEPT ![c] = t], IsOpen(t) => t = s,
             hiccups' \in 0..MaxHiccups, sub[c].pc # "announce"
      PROVE  Moves(c)
  <2> DEFINE f == [sub[c] EXCEPT !.pc = pc]
  <2>1. /\ sub' = [sub EXCEPT ![c] = f] /\ f \in Follower /\ Reasoned(c, f) /\ Returning(f)
        /\ f.content = sub[c].content
    BY <1>0, <1>2 DEF Follower, Reasoned, Returning
  <2> HIDE DEF f
  <2> QED BY <2>1, <1>2, MoveOf
<1>3. CASE ConnectFails(c) \/ Wake(c)
  BY <1>0, <1>2, <1>3 DEF ConnectFails, Wake, Goto, At, serverVars
<1>4. CASE ConnectRefused(c)
  <2>1. sub[c].pc # "announce" /\ stream' = stream /\ hiccups' \in 0..MaxHiccups
    BY <1>0, <1>4 DEF ConnectRefused, At, serverVars
  <2>2. PICK pc \in {"sleep", "stopped"} : sub' = [sub EXCEPT ![c].pc = pc]
    BY <1>4 DEF ConnectRefused, Goto
  <2> QED BY <1>0, <1>2, <2>1, <2>2
<1>5. CASE StreamOver(c)
  BY <1>0, <1>2, <1>5, ConnectedStream DEF StreamOver, Goto, At
<1>6. CASE Cut(c)
  <2>1. /\ sub' = sub /\ stream' = [stream EXCEPT ![c] = NoStream] /\ hiccups' \in 0..MaxHiccups
        /\ StreamSound(NoStream) /\ ~IsOpen(NoStream) /\ Signalled(c, NoStream)
    BY <1>0, <1>6, ConnectedStream, ClosedIsSignalled DEF Cut
  <2> QED BY <2>1, <1>0, MoveOf
<1> QED BY <1>1, <1>3, <1>4, <1>5, <1>6 DEF LinkStep

\* A sidecar: what it has fetched is what it will serve, unless its upstream
\* has announced something since.
LEMMA SidecarMoves ==
    ASSUME Tracking, NEW c \in OfKind("sidecar"), SidecarStep(c), ~SidecarAnnounce(c)
    PROVE  Moves(c)
<1> DEFINE s == stream[c]
<1>0. /\ stream = [stream EXCEPT ![c] = s] /\ sub = [sub EXCEPT ![c] = sub[c]]
      /\ StreamSound(s) /\ sub[c] \in Follower /\ Reasoned(c, sub[c]) /\ c \in Sub
      /\ hiccups \in 0..MaxHiccups /\ (Hiccup => hiccups' \in 0..MaxHiccups)
      /\ Kind[c] = "sidecar" /\ Informed(c) /\ ServedTo(c) \in Shown /\ None \in Shown
  BY Untouched DEF OfKind, Shown
<1>1. CASE SidecarEvent(c)
  <2>1. PICK t : t = [s EXCEPT !.wire = Tail(s.wire)]
    OBVIOUS
  <2>2. /\ stream' = [stream EXCEPT ![c] = t] /\ hiccups' = hiccups /\ s.wire # <<>>
        /\ sub[c].pc = "read"
    BY <1>1, <2>1 DEF SidecarEvent, Consumed, HasEvent, At
  <2>3. /\ StreamSound(t) /\ (IsOpen(t) => IsOpen(s)) /\ Event(c) \in EventType
        /\ Signalled(c, s) /\ Event(c) \notin Acts(c) => Signalled(c, t)
    BY <2>1, <2>2, <1>0, ReadStream DEF Event
  <2>4. CASE SidecarFetchesOn(Event(c))
    <3> DEFINE f == [sub[c] EXCEPT !.pc = "fetch", !.event = Event(c)]
    <3>1. sub' = [sub EXCEPT ![c] = f]
      BY <1>1, <2>4 DEF SidecarEvent
    <3>2. f \in Follower /\ Reasoned(c, f) /\ Returning(f) /\ f.content = sub[c].content
      BY <1>0, <2>3 DEF Follower, Reasoned, Returning
    <3> HIDE DEF f
    <3> QED BY <3>1, <3>2, <2>2, <2>3, <1>0, MoveOf
  <2>5. CASE ~SidecarFetchesOn(Event(c))
    <3>1. sub' = [sub EXCEPT ![c] = sub[c]] /\ Event(c) \notin Acts(c)
      BY <1>0, <1>1, <2>5 DEF SidecarEvent, SidecarFetchesOn, Acts
    <3> QED BY <3>1, <2>2, <2>3, <1>0, MoveOf DEF Informed
  <2> QED BY <2>4, <2>5
<1>2. CASE SidecarFetch(c)
  <2> DEFINE f == [sub[c] EXCEPT !.pc = "insert", !.got = ServedTo(c), !.failed = FALSE]
  <2>1. /\ sub' = [sub EXCEPT ![c] = f] /\ stream' = stream /\ hiccups' = hiccups
        /\ sub[c].pc = "fetch"
    BY <1>2 DEF SidecarFetch, serverVars, At, FetchOk, NoHiccup
  <2>2. f \in Follower /\ Reasoned(c, f) /\ Coming(f) = ServedTo(c) /\ f.content = sub[c].content
    BY <1>0 DEF Follower, Reasoned, Coming
  <2> HIDE DEF f
  <2> QED BY <2>1, <2>2, <1>0, MoveOf
<1>3. CASE SidecarFetchFails(c)
  <2>1. PICK pc \in {"connect", "read"} : pc = SidecarNext(c)
    BY DEF SidecarNext
  <2> DEFINE f == [sub[c] EXCEPT !.failed = TRUE, !.pc = pc, !.event = "none", !.got = None]
  <2>2. /\ sub' = [sub EXCEPT ![c] = f] /\ stream' = stream /\ hiccups' \in 0..MaxHiccups
        /\ sub[c].pc = "fetch"
    BY <1>0, <1>3, <2>1 DEF SidecarFetchFails, serverVars, At, FetchFails, NoHiccup, Resume
  <2>3. f \in Follower /\ Reasoned(c, f) /\ f.failed /\ f.content = sub[c].content
    BY <1>0 DEF Follower, Reasoned
  <2> HIDE DEF f
  <2> QED BY <2>2, <2>3, <1>0, MoveOf
<1>4. CASE SidecarInsert(c)
  <2> DEFINE f == [sub[c] EXCEPT !.pc = "announce", !.content = sub[c].got, !.got = None]
  <2>1. /\ sub' = [sub EXCEPT ![c] = f] /\ stream' = stream /\ hiccups' = hiccups
        /\ sub[c].pc = "insert"
    BY <1>4 DEF SidecarInsert, serverVars, At
  <2>2. /\ f \in Follower /\ Reasoned(c, f) /\ Coming(f) = Coming(sub[c]) /\ f.pc = "announce"
        /\ f.failed = sub[c].failed /\ ~Returning(sub[c])
    BY <1>0, <2>1 DEF Follower, Reasoned, Coming, Returning
  <2> HIDE DEF f
  <2> QED BY <2>1, <2>2, <1>0, MoveOf DEF Informed
<1> QED BY <1>1, <1>2, <1>3, <1>4 DEF SidecarStep

\* Its announcement reaches whoever follows it.
LEMMA AnnouncementKeeps ==
    ASSUME Tracking, NEW c \in OfKind("sidecar"), SidecarAnnounce(c)
    PROVE  FollowersTyped' /\ StreamsSound' /\ AllInformed'
<1>0. /\ sub[c] \in Follower /\ c \in Sub /\ Kind[c] = "sidecar" /\ c # Origin
      /\ hiccups' \in 0..MaxHiccups /\ UNCHANGED <<putVars, watcher>> /\ sub[c].pc = "announce"
  BY Untouched, Subscriptions DEF OfKind, SidecarAnnounce, At
<1>1. PICK pc \in {"connect", "read"} : pc = SidecarNext(c)
  BY DEF SidecarNext
<1> DEFINE f == [sub[c] EXCEPT !.pc = pc, !.event = "none", !.got = None]
<1>2. sub' = [sub EXCEPT ![c] = f]
  BY <1>1 DEF SidecarAnnounce, Resume
<1>3. /\ f \in Follower /\ Reasoned(c, f) /\ f.content = sub[c].content /\ f.failed = sub[c].failed
      /\ Coming(f) = Coming(sub[c]) /\ ~Returning(sub[c])
  BY <1>0 DEF Follower, Reasoned, Shown, Coming, Returning
<1> HIDE DEF f
<1>4. /\ sub' \in [Sub -> Follower] /\ sub'[c] = f
      /\ \A d \in Sub : d # c => sub'[d] = sub[d]
  BY <1>0, <1>2, <1>3 DEF Tracking, FollowersTyped
<1>5. FollowersTyped'
  BY <1>0, <1>3, <1>4 DEF FollowersTyped, Tracking
<1>6. stream' = [d \in Sub |-> IF Upstream[d] = c THEN broadcast(stream[d]) ELSE stream[d]]
  BY DEF SidecarAnnounce, Broadcast
<1>7. ASSUME NEW d \in Sub
      PROVE  /\ StreamSound(stream'[d]) /\ (IsOpen(stream'[d]) <=> IsOpen(stream[d]))
             /\ Signalled(d, stream[d]) => Signalled(d, stream'[d])
             /\ Upstream[d] = c => Signalled(d, stream'[d])
  <2>1. StreamSound(stream[d])
    BY DEF Tracking, StreamsSound
  <2>2. stream'[d] = IF Upstream[d] = c THEN broadcast(stream[d]) ELSE stream[d]
    BY <1>6
  <2> QED BY <2>1, <2>2, BroadcastStream
<1>8. StreamsSound'
  BY <1>0, <1>6, <1>7 DEF Tracking, StreamsSound, StreamSound, putVars
<1>9. ASSUME NEW d \in Sub
      PROVE  /\ ServedTo(d)' = ServedTo(d)
             /\ Upstream[d] # c /\ Unannounced(d) => Unannounced(d)'
  <2>1. CASE Upstream[d] = Origin
    BY <1>0, <2>1 DEF Unannounced, ServedTo, putVars
  <2>2. CASE Upstream[d] # Origin
    BY <1>3, <1>4, <2>2, Subscriptions DEF Unannounced, ServedTo, At
  <2> QED BY <2>1, <2>2
<1>10. ASSUME NEW d \in Sub PROVE Informed(d)'
  <2>1. Informed(d)
    BY DEF Tracking, AllInformed
  <2>2. CASE d = c
    BY <1>0, <1>3, <1>4, <1>7, <1>9, <2>1, <2>2 DEF Informed
  <2>3. CASE d # c
    BY <1>4, <1>7, <1>9, <2>1, <2>3 DEF Informed
  <2> QED BY <2>2, <2>3
<1> QED BY <1>5, <1>8, <1>10 DEF AllInformed

\* The Rust library: an update it has read of is followed by a fetch.
LEMMA RustMoves ==
    ASSUME Tracking, NEW c \in OfKind("rust"), RustStep(c)
    PROVE  Moves(c)
<1> DEFINE s == stream[c]
<1>0. /\ stream = [stream EXCEPT ![c] = s] /\ sub = [sub EXCEPT ![c] = sub[c]]
      /\ StreamSound(s) /\ sub[c] \in Follower /\ Reasoned(c, sub[c]) /\ c \in Sub
      /\ hiccups \in 0..MaxHiccups /\ (Hiccup => hiccups' \in 0..MaxHiccups)
      /\ Kind[c] = "rust" /\ Informed(c) /\ ServedTo(c) \in Shown /\ None \in Shown
      /\ Local \in Shown
  BY Untouched DEF OfKind, Shown
<1>1. CASE RustEvent(c)
  <2>1. PICK t : t = [s EXCEPT !.wire = Tail(s.wire)]
    OBVIOUS
  <2>2. /\ stream' = [stream EXCEPT ![c] = t] /\ hiccups' = hiccups /\ s.wire # <<>>
        /\ sub[c].pc = "read"
    BY <1>1, <2>1 DEF RustEvent, Consumed, HasEvent, At
  <2>3. /\ StreamSound(t) /\ (IsOpen(t) => IsOpen(s)) /\ Event(c) \in EventType
        /\ Signalled(c, s) /\ Event(c) \notin Acts(c) => Signalled(c, t)
    BY <2>1, <2>2, <1>0, ReadStream DEF Event
  <2>4. CASE Event(c) \in {"flag_update", "server_shutdown"}
    <3> DEFINE f == [sub[c] EXCEPT !.pc = "fetch", !.event = Event(c),
                                   !.heard = sub[c].heard \/ Event(c) = "flag_update"]
    <3>1. sub' = [sub EXCEPT ![c] = f]
      BY <1>1, <2>4 DEF RustEvent
    <3>2. f \in Follower /\ Reasoned(c, f) /\ Returning(f)
      BY <1>0, <2>3, <2>4 DEF Follower, Reasoned, Reasons, Returning
    <3> HIDE DEF f
    <3> QED BY <3>1, <3>2, <2>2, <2>3, <1>0, MoveOf
  <2>5. CASE Event(c) \notin {"flag_update", "server_shutdown"}
    <3>1. sub' = [sub EXCEPT ![c] = sub[c]] /\ Event(c) \notin Acts(c)
      BY <1>0, <1>1, <2>5 DEF RustEvent, Acts
    <3> QED BY <3>1, <2>2, <2>3, <1>0, MoveOf DEF Informed
  <2> QED BY <2>4, <2>5
<1>2. CASE RustFetch(c)
  <2> DEFINE f == [sub[c] EXCEPT !.pc = "store", !.got = ServedTo(c), !.failed = FALSE]
  <2>1. /\ sub' = [sub EXCEPT ![c] = f] /\ stream' = stream /\ hiccups' = hiccups
        /\ sub[c].pc = "fetch"
    BY <1>2 DEF RustFetch, serverVars, At, FetchOk, NoHiccup
  <2>2. f \in Follower /\ Reasoned(c, f) /\ Coming(f) = ServedTo(c)
    BY <1>0, <2>1 DEF Follower, Reasoned, Coming
  <2> HIDE DEF f
  <2> QED BY <2>1, <2>2, <1>0, MoveOf
<1>3. CASE RustFetchFails(c)
  <2>1. stream' = stream /\ hiccups' \in 0..MaxHiccups /\ sub[c].pc = "fetch"
    BY <1>0, <1>3 DEF RustFetchFails, serverVars, At, FetchFails, NoHiccup
  <2>2. CASE sub[c].event = "boot"
    <3> DEFINE f == [sub[c] EXCEPT !.pc = "store", !.got = Local, !.failed = TRUE]
    <3>1. sub' = [sub EXCEPT ![c] = f]
      BY <1>3, <2>2 DEF RustFetchFails
    <3>2. f \in Follower /\ Reasoned(c, f) /\ f.failed
      BY <1>0, <2>2 DEF Follower, Reasoned, Reasons
    <3> HIDE DEF f
    <3> QED BY <3>1, <3>2, <2>1, <1>0, MoveOf
  <2>3. CASE sub[c].event # "boot"
    <3>1. PICK pc \in {"read", "sleep"} : pc = RustNext(c)
      BY <1>0, <2>1, <2>3 DEF Reasoned, Reasons, RustNext
    <3> DEFINE f == [sub[c] EXCEPT !.failed = TRUE, !.pc = pc, !.event = "none", !.got = None]
    <3>2. sub' = [sub EXCEPT ![c] = f]
      BY <1>3, <2>3, <3>1 DEF RustFetchFails, Resume
    <3>3. f \in Follower /\ Reasoned(c, f) /\ f.failed
      BY <1>0 DEF Follower, Reasoned
    <3> HIDE DEF f
    <3> QED BY <3>2, <3>3, <2>1, <1>0, MoveOf
  <2> QED BY <2>2, <2>3
<1>4. CASE RustStore(c)
  <2>1. sub' = sub /\ stream' = stream /\ hiccups' = hiccups
    BY <1>4 DEF RustStore, serverVars
  <2> QED BY <2>1, <1>0, MoveOf DEF Informed
<1>5. CASE RustStored(c)
  <2>1. stream' = stream /\ hiccups' = hiccups /\ sub[c].pc = "store"
    BY <1>5 DEF RustStored, serverVars, At
  <2>2. PICK pc \in {"connect", "read", "sleep", "stopped"} :
            pc = IF sub[c].got = Local THEN "stopped" ELSE RustNext(c)
    BY <1>0, <2>1 DEF Reasoned, Reasons, RustNext
  <2> DEFINE f == [sub[c] EXCEPT !.content = sub[c].got, !.pc = pc, !.event = "none", !.got = None]
  <2>3. sub' = [sub EXCEPT ![c] = f]
    BY <1>5, <2>2 DEF RustStored, Resume
  <2>4. /\ f \in Follower /\ Reasoned(c, f) /\ Coming(f) = Coming(sub[c]) /\ ~Returning(sub[c])
        /\ f.failed = sub[c].failed /\ f.heard = sub[c].heard
    BY <1>0, <2>1 DEF Follower, Reasoned, Coming, Returning
  <2> HIDE DEF f
  <2> QED BY <2>1, <2>3, <2>4, <1>0, MoveOf DEF Informed
<1> QED BY <1>1, <1>2, <1>3, <1>4, <1>5 DEF RustStep

\* The TypeScript library.
LEMMA TsMoves ==
    ASSUME Tracking, NEW c \in OfKind("ts"), TsStep(c) \/ TsDisconnect(c)
    PROVE  Moves(c)
<1> DEFINE s == stream[c]
<1>0. /\ stream = [stream EXCEPT ![c] = s] /\ sub = [sub EXCEPT ![c] = sub[c]]
      /\ StreamSound(s) /\ sub[c] \in Follower /\ Reasoned(c, sub[c]) /\ c \in Sub
      /\ hiccups \in 0..MaxHiccups /\ (Hiccup => hiccups' \in 0..MaxHiccups)
      /\ Kind[c] = "ts" /\ Informed(c) /\ ServedTo(c) \in Shown /\ None \in Shown
  BY Untouched DEF OfKind, Shown
<1>1. CASE TsEvent(c)
  <2>1. PICK t : t = [s EXCEPT !.wire = Tail(s.wire)]
    OBVIOUS
  <2>2. /\ stream' = [stream EXCEPT ![c] = t] /\ hiccups' = hiccups /\ s.wire # <<>>
        /\ sub[c].pc = "read"
    BY <1>1, <2>1 DEF TsEvent, Consumed, HasEvent, At
  <2>3. /\ StreamSound(t) /\ (IsOpen(t) => IsOpen(s)) /\ Event(c) \in EventType
        /\ Signalled(c, s) /\ Event(c) \notin Acts(c) => Signalled(c, t)
    BY <2>1, <2>2, <1>0, ReadStream DEF Event
  <2>4. CASE Event(c) \in {"flag_update", "server_shutdown"}
    <3> DEFINE f == [sub[c] EXCEPT !.pc = "fetch", !.event = Event(c),
                                   !.heard = sub[c].heard \/ Event(c) = "flag_update"]
    <3>1. sub' = [sub EXCEPT ![c] = f]
      BY <1>1, <2>4 DEF TsEvent
    <3>2. f \in Follower /\ Reasoned(c, f) /\ Returning(f)
      BY <1>0, <2>3, <2>4 DEF Follower, Reasoned, Reasons, Returning
    <3> HIDE DEF f
    <3> QED BY <3>1, <3>2, <2>2, <2>3, <1>0, MoveOf
  <2>5. CASE Event(c) \notin {"flag_update", "server_shutdown"}
    <3>1. sub' = [sub EXCEPT ![c] = sub[c]] /\ Event(c) \notin Acts(c)
      BY <1>0, <1>1, <2>5 DEF TsEvent, Acts
    <3> QED BY <3>1, <2>2, <2>3, <1>0, MoveOf DEF Informed
  <2> QED BY <2>4, <2>5
<1>2. CASE TsFetch(c) \/ TsFetchFails(c)
  <2>1. stream' = stream /\ hiccups' \in 0..MaxHiccups /\ sub[c].pc = "fetch"
    BY <1>0, <1>2 DEF TsFetch, TsFetchFails, serverVars, At, FetchFails, FetchOk, NoHiccup
  <2>2. TsNext(c) \in {"connect", "read", "sleep", "stopped"}
    BY <1>0, <2>1 DEF Reasoned, Reasons, TsNext
  <2>3. CASE TsFetch(c)
    <3>1. PICK pc \in {"connect", "read", "sleep", "stopped"} : pc = TsNext(c)
      BY <2>2
    <3> DEFINE f == [sub[c] EXCEPT !.content = ServedTo(c), !.failed = FALSE, !.pc = pc,
                                   !.event = "none", !.got = None]
    <3>2. sub' = [sub EXCEPT ![c] = f]
      BY <2>3, <3>1 DEF TsFetch, Resume
    <3>3. f \in Follower /\ Reasoned(c, f) /\ Coming(f) = ServedTo(c)
      BY <1>0 DEF Follower, Reasoned, Coming
    <3> HIDE DEF f
    <3> QED BY <3>2, <3>3, <2>1, <1>0, MoveOf
  <2>4. CASE TsFetchFails(c)
    <3>1. PICK pc \in {"connect", "read", "sleep", "stopped"} :
              pc = IF sub[c].event = "boot" THEN "stopped" ELSE TsNext(c)
      BY <2>2
    <3> DEFINE f == [sub[c] EXCEPT !.failed = TRUE, !.pc = pc, !.event = "none", !.got = None]
    <3>2. sub' = [sub EXCEPT ![c] = f]
      BY <2>4, <3>1 DEF TsFetchFails, Resume
    <3>3. f \in Follower /\ Reasoned(c, f) /\ f.failed
      BY <1>0 DEF Follower, Reasoned
    <3> HIDE DEF f
    <3> QED BY <3>2, <3>3, <2>1, <1>0, MoveOf
  <2> QED BY <1>2, <2>3, <2>4
<1>3. CASE TsDisconnect(c)
  <2>1. /\ stream' = [stream EXCEPT ![c] = NoStream] /\ hiccups' \in 0..MaxHiccups
        /\ StreamSound(NoStream) /\ ~IsOpen(NoStream) /\ Signalled(c, NoStream)
    BY <1>0, <1>3, ConnectedStream, ClosedIsSignalled DEF TsDisconnect
  <2>2. PICK f : /\ sub' = [sub EXCEPT ![c] = f]
                 /\ f = IF At(c, "fetch") THEN [sub[c] EXCEPT !.event = "disconnect"]
                        ELSE [sub[c] EXCEPT !.pc = "stopped", !.event = "none", !.got = None]
    BY <1>3 DEF TsDisconnect, Resume
  <2>3. f \in Follower /\ Reasoned(c, f)
    BY <1>0, <2>2 DEF Follower, Reasoned, At
  <2> QED BY <2>1, <2>2, <2>3, <1>0, MoveOf
<1> QED BY <1>1, <1>2, <1>3 DEF TsStep

\* Whatever step is taken, every follower that is owed no further word stays in
\* step with its upstream.
LEMMA TrackingStep ==
    ASSUME Tracking, FileRead, [Next]_vars
    PROVE  FollowersTyped' /\ StreamsSound' /\ AllInformed'
<1>1. CASE ServerNext /\ UNCHANGED serverOnly
  <2>1. sub' = sub /\ hiccups' = hiccups
    BY <1>1 DEF serverOnly
  <2>2. FollowersTyped'
    BY <2>1 DEF Tracking, FollowersTyped
  <2> QED BY <1>1, <2>1, <2>2, ServerStepCarries, ServerInforms DEF Tracking
<1>2. ASSUME ~(ServerNext /\ UNCHANGED serverOnly), Next
      PROVE  UNCHANGED <<putVars, watcher>>
  BY <1>2, FollowersKeep DEF serverOnly
<1>3. CASE ~(ServerNext /\ UNCHANGED serverOnly) /\ Next
  <2>0. UNCHANGED <<putVars, watcher>>
    BY <1>2, <1>3
  <2>1. ASSUME NEW c \in Sub, LinkStep(c) \/ ConnectRefused(c) \/ Cut(c)
        PROVE  FollowersTyped' /\ StreamsSound' /\ AllInformed'
    BY <2>0, <2>1, LinkMoves, MovesKeep
  <2>2. ASSUME NEW c \in OfKind("sidecar"), SidecarStep(c)
        PROVE  FollowersTyped' /\ StreamsSound' /\ AllInformed'
    BY <2>0, <2>2, SidecarMoves, AnnouncementKeeps, MovesKeep DEF OfKind
  <2>3. ASSUME NEW c \in OfKind("rust"), RustStep(c)
        PROVE  FollowersTyped' /\ StreamsSound' /\ AllInformed'
    BY <2>0, <2>3, RustMoves, MovesKeep DEF OfKind
  <2>4. ASSUME NEW c \in OfKind("ts"), TsStep(c) \/ TsDisconnect(c)
        PROVE  FollowersTyped' /\ StreamsSound' /\ AllInformed'
    BY <2>0, <2>4, TsMoves, MovesKeep DEF OfKind
  <2>5. ASSUME NEW r \in Reader, RustRead(r)
        PROVE  FollowersTyped' /\ StreamsSound' /\ AllInformed'
    <3>1. sub' = sub /\ hiccups' = hiccups /\ stream' = stream
      BY <2>5 DEF RustRead, serverVars
    <3>2. mem' = mem /\ put' = put /\ watcher' = watcher /\ status' = status
      BY <2>0 DEF putVars
    <3> QED BY <3>1, <3>2 DEF Tracking, FollowersTyped, StreamsSound, AllInformed, Informed,
                              Unannounced, ServedTo, At
  <2> QED BY <1>3, <2>1, <2>2, <2>3, <2>4, <2>5 DEF Next
<1>4. CASE UNCHANGED vars
  <2>1. /\ sub' = sub /\ hiccups' = hiccups /\ stream' = stream /\ mem' = mem /\ put' = put
        /\ watcher' = watcher /\ status' = status
    BY <1>4 DEF vars, serverVars, putVars
  <2> QED BY <2>1 DEF Tracking, FollowersTyped, StreamsSound, AllInformed, Informed,
                      Unannounced, ServedTo, At
<1> QED BY <1>1, <1>3, <1>4

LEMMA FollowersInformed == Spec => [](FollowersTyped /\ StreamsSound /\ AllInformed)
<1>1. Init => FollowersTyped /\ StreamsSound /\ AllInformed
  <2> SUFFICES ASSUME Init PROVE FollowersTyped /\ StreamsSound /\ AllInformed
    OBVIOUS
  <2>1. stream = [c \in Sub |-> NoStream] /\ status = "up" /\ hiccups = 0
    BY DEF Init, ServerInit, PutInit
  <2>2. /\ sub \in [Sub -> {NewSub, [NewSub EXCEPT !.pc = "stopped"]}]
    BY DEF Init
  <2>3. NewSub \in Follower /\ [NewSub EXCEPT !.pc = "stopped"] \in Follower
    BY DEF NewSub, Follower, Shown
  <2>4. ASSUME NEW c \in Sub
        PROVE  sub[c] \in Follower /\ Reasoned(c, sub[c]) /\ Returning(sub[c])
    <3>1. sub[c] \in {NewSub, [NewSub EXCEPT !.pc = "stopped"]}
      BY <2>2
    <3>2. /\ NewSub.pc = "fetch" /\ NewSub.event = "boot"
          /\ [NewSub EXCEPT !.pc = "stopped"].pc = "stopped"
      BY DEF NewSub
    <3> QED BY <2>3, <3>1, <3>2 DEF Reasoned, Reasons, Returning
  <2>5. FollowersTyped
    BY <2>1, <2>2, <2>4, HiccupsAssumption DEF FollowersTyped
  <2>6. StreamsSound
    BY <2>1, ConnectedStream DEF StreamsSound, StreamSound
  <2> QED BY <2>4, <2>5, <2>6 DEF AllInformed, Informed
<1>2. Spec => []FileRead
  <2>1. Init => FileRead
    BY ContentsDiffer DEF Init, ServerInit, PutInit, FileRead, NotWatching
  <2> QED BY <2>1, FileReadStep, PTL DEF Spec
<1>3. Spec => []PutTypeOK
  BY ImplementsPutPath, PutTypeCorrect, PTL
<1>4. PutTypeOK /\ FileRead /\ (FollowersTyped /\ StreamsSound /\ AllInformed) /\ [Next]_vars
      => (FollowersTyped /\ StreamsSound /\ AllInformed)'
  BY TrackingStep DEF Tracking
<1> QED BY <1>1, <1>2, <1>3, <1>4, PTL DEF Spec

\* Every variable keeps its type, whatever the server, its store, its watcher and
\* its followers interleave: no response holds more events than it has room for,
\* no listener resumes from a fetch it had no reason for (builder.rs, index.ts).
THEOREM WholeTypeCorrect == Spec => []TypeOK
<1>1. PutTypeOK /\ LibInv /\ FollowersTyped /\ StreamsSound => TypeOK
  BY DEF TypeOK, LibInv, FollowersTyped, StreamsSound, StreamSound
<1> QED BY <1>1, FollowersInformed, ImplementsPutPath, PutTypeCorrect, ImplementsLibState,
           LibInvariant, PTL

\* A sidecar that has read its stream to the end serves what its upstream
\* serves, for any number and chain of sidecars (routes.rs:379, sidecar.rs:204,
\* sse.rs:113): one of the events it acts upon came after the change.
THEOREM SidecarsFresh == Spec => []SidecarFresh
<1>1. StreamsSound /\ AllInformed => SidecarFresh
  <2> SUFFICES ASSUME StreamsSound, AllInformed, NEW c \in OfKind("sidecar"), CaughtUp(c)
               PROVE  InSync(c)
    BY DEF SidecarFresh
  <2>1. /\ sub[c].pc = "read" /\ IsOpen(stream[c]) /\ stream[c].unread = 0
        /\ stream[c].wire = <<>> /\ ~Unannounced(c) /\ ~sub[c].failed
    BY DEF CaughtUp, At, Drained
  <2>2. ~Signalled(c, stream[c]) /\ ~Returning(sub[c]) /\ Coming(sub[c]) = sub[c].content
    BY <2>1 DEF Signalled, Returning, Coming
  <2> QED BY <2>1, <2>2 DEF AllInformed, Informed, InSync, OfKind
<1> QED BY <1>1, FollowersInformed, PTL

\* A remote library is in step on a connection that has brought an update
\* (builder.rs:205, index.ts:378).
THEOREM ClientsFresh == Spec => []ClientFresh
<1>1. StreamsSound /\ AllInformed => ClientFresh
  <2> SUFFICES ASSUME StreamsSound, AllInformed, NEW c \in Sub, CaughtUp(c), sub[c].heard
               PROVE  InSync(c)
    BY DEF ClientFresh
  <2>1. /\ sub[c].pc = "read" /\ IsOpen(stream[c]) /\ stream[c].unread = 0
        /\ stream[c].wire = <<>> /\ ~Unannounced(c) /\ ~sub[c].failed
    BY DEF CaughtUp, At, Drained
  <2>2. ~Signalled(c, stream[c]) /\ ~Returning(sub[c]) /\ Coming(sub[c]) = sub[c].content
    BY <2>1 DEF Signalled, Returning, Coming
  <2> QED BY <2>1, <2>2 DEF AllInformed, Informed, InSync
<1> QED BY <1>1, FollowersInformed, PTL
-----------------------------------------------------------------------------
(***************************************************************************)
(* The watcher.                                                            *)
(***************************************************************************)

\* An event about the Flagfile is yet to be taken, or was and it is being read.
FileEvent == Seq({"Flagfile", "tmp", "other"})
Pending   == watcher.pc = "read" \/ \E i \in 1..Len(events) : Relevant(events[i])

\* As long as it missed no event, the watcher has loaded the Flagfile, or will.
Watched ==
    /\ events \in Seq(FileEvent)
    /\ status = "down" => watcher.pc = "off"
    /\ Watch /\ status # "down" /\ ~watcher.missed =>
        \/ Pending
        \/ IF watcher.pc = "insert" THEN watcher.got = file
           ELSE file \in Unreadable \/ mem.content \in Put \cup {file}

LEMMA EventsTaken ==
    ASSUME NEW es \in Seq(FileEvent)
    PROVE  /\ \A e \in FileEvent :
                /\ Append(es, e) \in Seq(FileEvent)
                /\ Append(es, e)[Len(es) + 1] = e /\ Len(es) + 1 \in 1..Len(Append(es, e))
                /\ \A i \in 1..Len(es) : /\ i \in 1..Len(Append(es, e))
                                         /\ Append(es, e)[i] = es[i]
           /\ es # <<>> =>
                /\ Tail(es) \in Seq(FileEvent) /\ Head(es) = es[1]
                /\ \A i \in 1..Len(es) :
                     i = 1 \/ (i - 1 \in 1..Len(Tail(es)) /\ Tail(es)[i - 1] = es[i])
  OBVIOUS

\* What the watcher still owes is taken in order, read, or dropped as missed.
LEMMA WatchedStep ==
    ASSUME PutTypeOK, FileRead, Watched, [Next]_vars
    PROVE  Watched'
<1> USE DEF Watched
<1>1. ASSUME UNCHANGED <<events, watcher, status, file>>,
             mem'.content = mem.content \/ mem'.content \in Put
      PROVE  Watched'
  BY <1>1 DEF Pending
<1>2. CASE UNCHANGED <<putVars, events, saves, watcher>> \/ UNCHANGED vars
  BY <1>1, <1>2 DEF putVars, vars, serverVars
<1>3. ASSUME NEW p \in Put, PutStep(p) PROVE Watched'
  <2>1. UNCHANGED <<events, watcher, status, file>>
    BY <1>3 DEF PutStep, others, PutStart, PutRefused, StoreFlags, StoreMeta, Flush, StoreFails,
                Insert, Announce
  <2>2. mem'.content = mem.content \/ mem'.content \in Put
    BY <1>3 DEF PutStep, others, PutStart, PutRefused, StoreFlags, StoreMeta, Flush, StoreFails,
                Insert, Announce
  <2> QED BY <1>1, <2>1, <2>2
<1>4. ASSUME NEW s \in Save, SaveFile(s) PROVE Watched'
  <2>1. mem' = mem /\ status' = status /\ watcher'.pc = watcher.pc /\ watcher'.got = watcher.got
    BY <1>4 DEF SaveFile, Edit, FileRead
  <2>2. CASE Watch /\ status # "down" /\ watcher.pc # "off"
    <3>1. PICK e \in FileEvent : Relevant(e) /\ events' = Append(events, e)
      <4>1. events' = Append(events, IF s \in Renaming THEN <<"tmp", "Flagfile">>
                                     ELSE <<"Flagfile">>)
        BY <1>4, <2>2 DEF SaveFile
      <4>2. <<"tmp", "Flagfile">> \in FileEvent /\ <<"Flagfile">> \in FileEvent
        BY DEF FileEvent
      <4>3. Relevant(<<"tmp", "Flagfile">>) /\ Relevant(<<"Flagfile">>)
        <5>1. 2 \in DOMAIN <<"tmp", "Flagfile">> /\ <<"tmp", "Flagfile">>[2] = "Flagfile"
          OBVIOUS
        <5>2. 1 \in DOMAIN <<"Flagfile">> /\ <<"Flagfile">>[1] = "Flagfile"
          OBVIOUS
        <5> QED BY <5>1, <5>2 DEF Relevant
      <4> QED BY <4>1, <4>2, <4>3
    <3>2. events' \in Seq(FileEvent) /\ \E i \in 1..Len(events') : Relevant(events'[i])
      BY <3>1, EventsTaken
    <3> QED BY <2>1, <3>2 DEF Pending
  <2>3. CASE ~(Watch /\ status # "down" /\ watcher.pc # "off")
    <3>1. events' = events /\ watcher'.missed
      BY <1>4, <2>3 DEF SaveFile, FileRead
    <3> QED BY <2>1, <3>1
  <2> QED BY <2>2, <2>3
<1>5. CASE TouchOther
  <2>1. mem' = mem /\ status' = status /\ file' = file /\ watcher' = watcher
    BY <1>5 DEF TouchOther, putVars
  <2>2. PICK e \in FileEvent : events' = Append(events, e)
    <3>1. <<"other">> \in FileEvent
      BY DEF FileEvent
    <3> QED BY <1>5, <3>1 DEF TouchOther
  <2>3. /\ events' \in Seq(FileEvent)
        /\ \A i \in 1..Len(events) : i \in 1..Len(events') /\ events'[i] = events[i]
    BY <2>2, EventsTaken
  <2> QED BY <2>1, <2>3 DEF Pending
<1>6. CASE Elapse \/ WatchBegins \/ WatchAnnounce
  <2>1. /\ mem' = mem /\ status' = status /\ file' = file /\ events' = events
        /\ watcher'.missed = watcher.missed /\ watcher'.got = watcher.got
    BY <1>6 DEF Elapse, WatchBegins, WatchAnnounce, putVars, FileRead
  <2>2. CASE Elapse
    <3>1. watcher'.pc = watcher.pc
      BY <2>2 DEF Elapse, FileRead
    <3> QED BY <2>1, <3>1 DEF Pending
  <2>3. CASE WatchBegins \/ WatchAnnounce
    <3>1. /\ watcher.pc \in {"off", "announce"} /\ watcher'.pc = "idle"
          /\ (watcher.pc = "off" => status # "down")
      BY <2>3 DEF WatchBegins, WatchAnnounce, FileRead
    <3> QED BY <2>1, <3>1 DEF Pending
  <2> QED BY <1>6, <2>2, <2>3
<1>7. CASE WatchTake
  <2>1. /\ mem' = mem /\ status' = status /\ file' = file /\ events' = Tail(events)
        /\ watcher.pc = "idle" /\ events # <<>>
    BY <1>7 DEF WatchTake, putVars
  <2>2. /\ events' \in Seq(FileEvent) /\ Head(events) = events[1]
        /\ \A i \in 1..Len(events) :
             i = 1 \/ (i - 1 \in 1..Len(events') /\ events'[i - 1] = events[i])
    BY <2>1, EventsTaken
  <2>3. status # "down"
    BY <2>1
  <2>4. CASE ~Relevant(Head(events))
    <3>1. watcher' = watcher
      BY <1>7, <2>4 DEF WatchTake
    <3>2. Pending => Pending'
      BY <2>1, <2>2, <2>4, <3>1 DEF Pending
    <3> QED BY <2>1, <2>2, <3>1, <3>2
  <2>5. CASE Relevant(Head(events))
    <3>1. watcher'.missed \/ watcher'.pc = "read"
      BY <1>7, <2>5 DEF WatchTake, FileRead
    <3> QED BY <2>1, <2>2, <2>3, <3>1 DEF Pending
  <2> QED BY <2>4, <2>5
<1>8. CASE WatchRead
  <2>1. /\ mem' = mem /\ status' = status /\ file' = file /\ events' = events
        /\ watcher.pc = "read"
        /\ watcher'.pc = IF file \in Unreadable THEN "idle" ELSE "insert"
        /\ file \notin Unreadable => watcher'.got = file
    BY <1>8 DEF WatchRead, putVars, FileRead
  <2> QED BY <2>1
<1>9. CASE WatchInsert
  <2>1. /\ mem'.content = watcher.got /\ status' = status /\ file' = file /\ events' = events
        /\ watcher.pc = "insert" /\ watcher'.pc = "announce" /\ watcher'.missed = watcher.missed
    BY <1>9 DEF WatchInsert, Reload, FileRead
  <2> QED BY <2>1 DEF Pending
<1>10. ASSUME NEW c \in Sub, StreamRecv(c) \/ StreamShuts(c) PROVE Watched'
  BY <1>1, <1>10 DEF StreamRecv, StreamShuts, putVars
<1>11. CASE ServerSignal \/ ServerClose
  <2>1. /\ mem' = mem /\ status' \in {"draining", "closing"} /\ status # "down" /\ file' = file
        /\ events' = events /\ watcher' = watcher
    BY <1>11 DEF ServerSignal, ServerClose, Signal, Close, others
  <2> QED BY <2>1 DEF Pending
<1>12. CASE ServerStop \/ ServerCrash
  <2>1. status' = "down" /\ events' = <<>> /\ watcher' = NotWatching
    BY <1>12 DEF ServerStop, ServerCrash, Stop, Crash
  <2> QED BY <2>1 DEF NotWatching
<1>13. CASE ServerStart
  <2>1. /\ status' = "up" /\ events' = events /\ watcher'.pc = "off" /\ file' = file
        /\ mem' = Loaded
    BY <1>13 DEF ServerStart, Start, NotWatching
  <2>2. Watch => mem'.content = file
    BY <2>1, WatchIsSingleTenant, ContentsDiffer DEF Loaded, FileRead
  <2> QED BY <2>1, <2>2
<1> QED BY <1>2, <1>3, <1>4, <1>5, <1>6, <1>7, <1>8, <1>9, <1>10, <1>11, <1>12, <1>13,
           FollowersKeep DEF Next, ServerNext, WatchStep

\* An idle watcher that missed nothing serves the Flagfile, whatever was renamed
\* onto it, debounced, or saved while a reload was under way (mod.rs:725).
THEOREM WatcherServesFile == Spec => []WatchedFileServed
<1>1. Init => Watched
  <2> SUFFICES ASSUME Init PROVE Watched
    OBVIOUS
  <2>1. status = "up" /\ events = <<>> /\ watcher.pc = "off" /\ file = First
    BY DEF Init, ServerInit, PutInit, NotWatching
  <2>2. Watch => mem.content = First
    BY WatchIsSingleTenant DEF Init, ServerInit, PutInit
  <2> QED BY <2>1, <2>2 DEF Watched
<1>2. Spec => []FileRead
  <2>1. Init => FileRead
    BY ContentsDiffer DEF Init, ServerInit, PutInit, FileRead, NotWatching
  <2> QED BY <2>1, FileReadStep, PTL DEF Spec
<1>3. Spec => []PutTypeOK
  BY ImplementsPutPath, PutTypeCorrect, PTL
<1>4. PutTypeOK /\ FileRead /\ Watched /\ [Next]_vars => Watched'
  BY WatchedStep
<1>5. Watched => WatchedFileServed
  <2> SUFFICES ASSUME Watched, Watch, watcher.pc = "idle", events = <<>>, ~watcher.missed,
                      file \notin Unreadable, mem.content \notin Put
               PROVE  mem.content = file
    BY DEF WatchedFileServed
  <2>1. ~Pending
    BY DEF Pending
  <2> QED BY <2>1 DEF Watched
<1> QED BY <1>1, <1>2, <1>3, <1>4, <1>5, PTL DEF Spec
=============================================================================
