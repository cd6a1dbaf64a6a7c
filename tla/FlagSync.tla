-------------------------------- MODULE FlagSync --------------------------------
(***************************************************************************)
(* A flag server and those who follow it over HTTP and server-sent events: *)
(* sidecars (server/sidecar.rs), themselves servers others may follow, the *)
(* Rust library in remote mode (src/builder.rs), and the TypeScript        *)
(* library after initRemote (flagfile-ts/src/index.ts).                    *)
(*                                                                         *)
(* How long a back-off sleeps is left out: a sleeper may wake at any time. *)
(* A fetch is one step at its upstream.  A sidecar's process stays up.     *)
(***************************************************************************)
EXTENDS FlagServer, LibState

CONSTANTS Kind,          \* [Sub -> {"sidecar", "rust", "ts"}]; at most one "rust"
          Followings,    \* the sets of followers that may be running
          Local,         \* the content of the Rust client's fallback file
          MaxHiccups     \* bound on cut connections, refused streams, failed fetches

ASSUME OneRustClient ==
    /\ Kind \in [Sub -> {"sidecar", "rust", "ts"}]
    /\ \A c, d \in Sub : Kind[c] = "rust" /\ Kind[d] = "rust" => c = d
    /\ \A c \in Sub : Upstream[c] \in Sub => Kind[Upstream[c]] = "sidecar"

ASSUME HiccupsAssumption == MaxHiccups \in Nat

VARIABLES
    sub,         \* [Sub -> the follower's task]
    hiccups

vars == <<serverVars, libVars, sub, hiccups>>

\* content: what it evaluates with; event: why it fetches; got: the answer;
\* heard: an update was read on this connection; failed: the last fetch failed.
NewSub == [pc |-> "fetch", content |-> None, event |-> "boot", got |-> None,
           heard |-> FALSE, failed |-> FALSE]

Init ==
    /\ ServerInit /\ LibInit
    /\ \E running \in Followings :
         sub = [c \in Sub |-> IF c \in running THEN NewSub ELSE [NewSub EXCEPT !.pc = "stopped"]]
    /\ hiccups = 0

OfKind(k)    == {c \in Sub : Kind[c] = k}
At(c, pc)    == sub[c].pc = pc
Goto(c, pc)  == sub' = [sub EXCEPT ![c].pc = pc]

\* The task is done with what it fetched for (current_event is cleared).
Resume(c, r, pc) == sub' = [sub EXCEPT ![c] = [r EXCEPT !.pc = pc, !.event = "none", !.got = None]]
Event(c)     == Head(stream[c].wire)
HasEvent(c)  == At(c, "read") /\ stream[c].wire # <<>>
Consumed(c)  == [stream EXCEPT ![c].wire = Tail(@)]
Answers(c)   == Upstream[c] # Origin \/ Accepting
ServedTo(c)  == IF Upstream[c] = Origin THEN mem.content ELSE sub[Upstream[c]].content
Hiccup       == hiccups < MaxHiccups /\ hiccups' = hiccups + 1
NoHiccup     == UNCHANGED hiccups
serverOnly   == <<libVars, sub, hiccups>>

\* GET /flagfile answers with a content; otherwise it fails (connection refused,
\* 404), or fails for a reason of its own.
FetchOk(c)    == Answers(c) /\ ServedTo(c) # None /\ NoHiccup
FetchFails(c) == IF Answers(c) /\ ServedTo(c) # None THEN Hiccup ELSE NoHiccup
-----------------------------------------------------------------------------
(***************************************************************************)
(* Connections, alike for all followers.                                   *)
(***************************************************************************)

\* handle_events (routes.rs) and the follower's first read of the response.
Connect(c) ==
    /\ At(c, "connect") /\ Answers(c)
    /\ stream' = [stream EXCEPT ![c] =
                    subscribe(Upstream[c] = Origin /\ status = "draining")]
    /\ sub' = [sub EXCEPT ![c].pc = "read", ![c].heard = FALSE]
    /\ UNCHANGED <<putVars, events, saves, watcher, libVars, hiccups>>

\* The connection is refused: all three sleep and try again.
ConnectFails(c) ==
    /\ At(c, "connect") /\ ~Answers(c)
    /\ Goto(c, "sleep")
    /\ UNCHANGED <<serverVars, libVars, hiccups>>

\* An answer that is not 2xx (a proxy's 503): the TypeScript listener ends.
ConnectRefused(c) ==
    /\ At(c, "connect") /\ Hiccup
    /\ Goto(c, IF Kind[c] = "ts" THEN "stopped" ELSE "sleep")
    /\ UNCHANGED <<serverVars, libVars>>

\* The connection is lost, with what it carried.
Cut(c) ==
    /\ stream[c].st # "none" /\ Hiccup
    /\ stream' = [stream EXCEPT ![c] = NoStream]
    /\ UNCHANGED <<putVars, events, saves, watcher, libVars, sub>>

\* The follower has read to the end of its stream.
StreamOver(c) ==
    /\ At(c, "read") /\ ~IsOpen(stream[c]) /\ stream[c].wire = <<>>
    /\ Goto(c, "sleep")
    /\ stream' = [stream EXCEPT ![c] = NoStream]
    /\ UNCHANGED <<putVars, events, saves, watcher, libVars, hiccups>>

\* The back-off is over.
Wake(c) ==
    /\ At(c, "sleep") /\ Goto(c, "connect")
    /\ UNCHANGED <<serverVars, libVars, hiccups>>
-----------------------------------------------------------------------------
(***************************************************************************)
(* sidecar.rs: fetch_and_update and upstream_sse_listener.                 *)
(***************************************************************************)

\* Mutant of SidecarFetchesOn: the connected event is not acted upon.
UpdatesOnly(e) == e \in {"flag_update", "server_shutdown"}

SidecarFetchesOn(e) == e \in {"connected", "flag_update", "server_shutdown"}

SidecarEvent(c) ==
    /\ HasEvent(c)
    /\ stream' = Consumed(c)
    /\ sub' = IF SidecarFetchesOn(Event(c))
              THEN [sub EXCEPT ![c].pc = "fetch", ![c].event = Event(c)] ELSE sub
    /\ UNCHANGED <<putVars, events, saves, watcher, libVars, hiccups>>

\* Where the sidecar goes after fetch_and_update.
SidecarNext(c) == IF sub[c].event = "boot" THEN "connect" ELSE "read"

SidecarFetch(c) ==
    /\ At(c, "fetch") /\ FetchOk(c)
    /\ sub' = [sub EXCEPT ![c].pc = "insert", ![c].got = ServedTo(c), ![c].failed = FALSE]
    /\ UNCHANGED <<serverVars, libVars>>

SidecarFetchFails(c) ==
    /\ At(c, "fetch") /\ FetchFails(c)
    /\ Resume(c, [sub[c] EXCEPT !.failed = TRUE], SidecarNext(c))
    /\ UNCHANGED <<serverVars, libVars>>

SidecarInsert(c) ==
    /\ At(c, "insert")
    /\ sub' = [sub EXCEPT ![c].pc = "announce", ![c].content = sub[c].got, ![c].got = None]
    /\ UNCHANGED <<serverVars, libVars, hiccups>>

SidecarAnnounce(c) ==
    /\ At(c, "announce")
    /\ stream' = Broadcast(c)
    /\ Resume(c, sub[c], SidecarNext(c))
    /\ UNCHANGED <<putVars, events, saves, watcher, libVars, hiccups>>

SidecarStep(c) ==
    \/ SidecarEvent(c) \/ SidecarFetch(c) \/ SidecarFetchFails(c)
    \/ SidecarInsert(c) \/ SidecarAnnounce(c)
-----------------------------------------------------------------------------
(***************************************************************************)
(* builder.rs: the drop of the builder, sse_listener, reload_from_remote.  *)
(***************************************************************************)

RustNext(c) ==
    CASE sub[c].event = "boot" -> "connect"
      [] sub[c].event = "flag_update" -> "read"
      [] sub[c].event = "server_shutdown" -> "sleep"

RustEvent(c) ==
    /\ HasEvent(c)
    /\ stream' = Consumed(c)
    /\ sub' = IF Event(c) \in {"flag_update", "server_shutdown"}
              THEN [sub EXCEPT ![c].pc = "fetch", ![c].event = Event(c),
                               ![c].heard = @ \/ Event(c) = "flag_update"]
              ELSE sub
    /\ UNCHANGED <<putVars, events, saves, watcher, libVars, hiccups>>

\* The answer is parsed; parse_and_store begins.
RustFetch(c) ==
    /\ At(c, "fetch") /\ FetchOk(c)
    /\ BeginStore
    /\ sub' = [sub EXCEPT ![c].pc = "store", ![c].got = ServedTo(c), ![c].failed = FALSE]
    /\ UNCHANGED serverVars

\* The reload is given up; at init, the fallback file is stored instead.
RustFetchFails(c) ==
    /\ At(c, "fetch") /\ FetchFails(c)
    /\ IF sub[c].event = "boot"
       THEN /\ BeginStore
            /\ sub' = [sub EXCEPT ![c].pc = "store", ![c].got = Local, ![c].failed = TRUE]
       ELSE /\ Resume(c, [sub[c] EXCEPT !.failed = TRUE], RustNext(c))
            /\ UNCHANGED libVars
    /\ UNCHANGED serverVars

RustStore(c) ==
    /\ At(c, "store") /\ StoreGlobal
    /\ UNCHANGED <<serverVars, sub, hiccups>>

\* on_update is called, or init returns; without a remote no listener is spawned.
RustStored(c) ==
    /\ At(c, "store") /\ storing = 0
    /\ Resume(c, [sub[c] EXCEPT !.content = sub[c].got],
              IF sub[c].got = Local THEN "stopped" ELSE RustNext(c))
    /\ UNCHANGED <<serverVars, libVars, hiccups>>

RustStep(c) ==
    \/ RustEvent(c) \/ RustFetch(c) \/ RustFetchFails(c) \/ RustStore(c) \/ RustStored(c)

\* A thread of the process calls ff.
RustRead(r) ==
    /\ ReadLock(r) \/ ReadDone(r)
    /\ UNCHANGED <<serverVars, sub, hiccups>>
-----------------------------------------------------------------------------
(***************************************************************************)
(* index.ts: initRemote, connectSSE, refreshFlags, disconnect.             *)
(***************************************************************************)

TsNext(c) ==
    CASE sub[c].event = "boot" -> "connect"
      [] sub[c].event = "flag_update" -> "read"
      [] sub[c].event = "server_shutdown" -> "sleep"
      [] sub[c].event = "disconnect" -> "stopped"

TsEvent(c) ==
    /\ HasEvent(c)
    /\ stream' = Consumed(c)
    /\ sub' = IF Event(c) \in {"flag_update", "server_shutdown"}
              THEN [sub EXCEPT ![c].pc = "fetch", ![c].event = Event(c),
                               ![c].heard = @ \/ Event(c) = "flag_update"]
              ELSE sub
    /\ UNCHANGED <<putVars, events, saves, watcher, libVars, hiccups>>

\* Flags and segments are replaced in one turn of the event loop.
TsFetch(c) ==
    /\ At(c, "fetch") /\ FetchOk(c)
    /\ Resume(c, [sub[c] EXCEPT !.content = ServedTo(c), !.failed = FALSE], TsNext(c))
    /\ UNCHANGED <<serverVars, libVars>>

\* initRemote throws; a refresh keeps what there is.
TsFetchFails(c) ==
    /\ At(c, "fetch") /\ FetchFails(c)
    /\ Resume(c, [sub[c] EXCEPT !.failed = TRUE],
              IF sub[c].event = "boot" THEN "stopped" ELSE TsNext(c))
    /\ UNCHANGED <<serverVars, libVars>>

\* disconnect() aborts the stream and the sleep, not a refresh under way.
TsDisconnect(c) ==
    /\ sub[c].pc # "stopped" /\ sub[c].event # "boot" /\ Hiccup
    /\ stream' = [stream EXCEPT ![c] = NoStream]
    /\ IF At(c, "fetch") THEN sub' = [sub EXCEPT ![c].event = "disconnect"]
       ELSE Resume(c, sub[c], "stopped")
    /\ UNCHANGED <<putVars, events, saves, watcher, libVars>>

TsStep(c) == TsEvent(c) \/ TsFetch(c) \/ TsFetchFails(c)
-----------------------------------------------------------------------------
LinkStep(c) == Connect(c) \/ ConnectFails(c) \/ StreamOver(c) \/ Wake(c)

Next ==
    \/ ServerNext /\ UNCHANGED serverOnly
    \/ \E c \in Sub : LinkStep(c) \/ ConnectRefused(c) \/ Cut(c)
    \/ \E c \in OfKind("sidecar") : SidecarStep(c)
    \/ \E c \in OfKind("rust") : RustStep(c)
    \/ \E c \in OfKind("ts") : TsStep(c) \/ TsDisconnect(c)
    \/ \E r \in Reader : RustRead(r)

Spec == Init /\ [][Next]_vars

\* Tasks that can go on do; a process that is down is started again; nothing
\* makes PUTs, edits, signals or failures happen.
FairSpec ==
    /\ Spec
    /\ \A p \in Put : WF_vars(put[p].pc # "idle" /\ PutStep(p) /\ UNCHANGED serverOnly)
    /\ WF_vars(WatchStep /\ UNCHANGED serverOnly)
    /\ WF_vars((ServerClose \/ ServerStop \/ ServerStart) /\ UNCHANGED serverOnly)
    /\ \A c \in Sub :
         /\ WF_vars(StreamRecv(c) /\ UNCHANGED serverOnly)
         /\ WF_vars(StreamShuts(c) /\ UNCHANGED serverOnly)
         /\ WF_vars(LinkStep(c))
    /\ \A c \in OfKind("sidecar") : WF_vars(SidecarStep(c))
    /\ \A c \in OfKind("rust") : WF_vars(RustStep(c))
    /\ \A c \in OfKind("ts") : WF_vars(TsStep(c))
    /\ \A r \in Reader : WF_vars(RustRead(r))
-----------------------------------------------------------------------------
(***************************************************************************)
(* Properties.                                                             *)
(***************************************************************************)

Shown == Content \cup {None, Local}

Follower == [pc : {"fetch", "insert", "store", "announce", "connect", "read", "sleep", "stopped"},
             content : Shown, event : EventType \cup {"boot", "none", "disconnect"},
             got : Shown, heard : BOOLEAN, failed : BOOLEAN]

TypeOK ==
    /\ PutTypeOK /\ LibTypeOK
    /\ sub \in [Sub -> Follower]
    /\ stream \in [Sub -> Stream]
    /\ \A c \in Sub : Len(stream[c].wire) <= WireCap
    /\ hiccups \in 0..MaxHiccups

\* An update is in the map of the upstream, and not yet on its channel.
Unannounced(c) ==
    IF Upstream[c] = Origin
    THEN watcher.pc = "announce" \/ \E p \in Put : put[p].pc = "announce"
    ELSE At(Upstream[c], "announce")

\* c has read all there is on an open stream, and fetched all it was told to.
CaughtUp(c) ==
    At(c, "read") /\ Drained(stream[c]) /\ ~Unannounced(c) /\ ~sub[c].failed

InSync(c) == sub[c].content = ServedTo(c)

\* A sidecar that has read its stream to the end serves what its upstream
\* serves: whatever happened between the reading of the hash and the
\* subscription (routes.rs:379-398), during an outage (sidecar.rs:204) or when
\* it lagged behind the channel (sse.rs:113), one of the events it acts upon
\* came after the change.
SidecarFresh == \A c \in OfKind("sidecar") : CaughtUp(c) => InSync(c)

\* The remote libraries do not act upon `connected`: they are only known to be
\* in sync on a connection that has brought an update (builder.rs:205,
\* index.ts:378).
ClientFresh == \A c \in Sub \ OfKind("sidecar") : CaughtUp(c) /\ sub[c].heard => InSync(c)

\* "On success, subscribes to {url}/events for live flag updates so that the
\* in-memory state is refreshed automatically when flags change on the server"
\* (index.ts:264).
RefreshedAutomatically == \A c \in OfKind("ts") : CaughtUp(c) => InSync(c)

\* However updates, restarts, cuts and lags interleave, a sidecar, or a chain
\* of them, ends up serving what the server serves, unless the server stays down
\* (its Flagfile does not parse) or the last fetch failed.
SidecarConverges ==
    <>[](\A c \in OfKind("sidecar") :
            \/ status = "down" \/ At(c, "stopped") \/ sub[c].content = mem.content
            \/ \E d \in OfKind("sidecar") : sub[d].failed)
================================================================================
