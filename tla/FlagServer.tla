------------------------------- MODULE FlagServer -------------------------------
(***************************************************************************)
(* One `ff serve` process without a cluster, with what it tells its        *)
(* subscribers: the PUTs of PutPath, the file watcher of server/mod.rs,    *)
(* the event streams of SseStream, and its shutdown.                       *)
(***************************************************************************)
EXTENDS PutPath, SseStream

CONSTANTS Sub,          \* the subscribers
          Origin,       \* this server
          Upstream,     \* [Sub -> the server or sidecar a subscriber reads]
          Watch,        \* whether --watch is given
          Renaming,     \* the saves that rename a temporary file to the Flagfile
          MaxSaves      \* bound on the changes in the Flagfile's directory

ASSUME Subscriptions == Origin \notin Sub /\ Upstream \in [Sub -> Sub \cup {Origin}]
ASSUME WatchIsSingleTenant == Watch => ~Stored

VARIABLES
    stream,    \* [Sub -> the subscriber's event stream]
    events,    \* file events the watcher has not taken
    saves,     \* edits so far
    watcher    \* the task: where it is, what it read, whether the last reload
               \* is less than 500 ms ago; history: whether it missed an event

serverVars == <<putVars, stream, events, saves, watcher>>
others     == <<stream, events, saves, watcher>>

Broadcast(src) == [c \in Sub |-> IF Upstream[c] = src THEN broadcast(stream[c]) ELSE stream[c]]
OfServer(c)    == Upstream[c] = Origin

\* The task is not watching yet; its clock starts as it begins.
NotWatching == [pc |-> "off", got |-> None, recent |-> TRUE, missed |-> FALSE]

ServerInit ==
    /\ PutInit
    /\ stream = [c \in Sub |-> NoStream]
    /\ events = <<>> /\ saves = 0
    /\ watcher = NotWatching
-----------------------------------------------------------------------------
(***************************************************************************)
(* The file watcher.                                                       *)
(***************************************************************************)

\* An editor writes the Flagfile in place or renames a temporary file to it.
SaveFile(s) ==
    /\ Edit(s) /\ file # s
    /\ saves < MaxSaves /\ saves' = saves + 1
    /\ IF Watch /\ status # "down" /\ watcher.pc # "off"
       THEN /\ events' = Append(events, IF s \in Renaming THEN <<"tmp", "Flagfile">>
                                         ELSE <<"Flagfile">>)
            /\ UNCHANGED watcher
       ELSE watcher' = [watcher EXCEPT !.missed = TRUE] /\ UNCHANGED events
    /\ UNCHANGED stream

\* Something else in the directory changes.
TouchOther ==
    /\ Watch /\ watcher.pc # "off" /\ saves < MaxSaves
    /\ saves' = saves + 1 /\ events' = Append(events, <<"other">>)
    /\ UNCHANGED <<putVars, stream, watcher>>

WatchBegins ==
    /\ Watch /\ status # "down" /\ watcher.pc = "off"
    /\ watcher' = [watcher EXCEPT !.pc = "idle", !.recent = TRUE]
    /\ UNCHANGED <<putVars, stream, events, saves>>

\* 500 ms have passed since the last reload.
Elapse ==
    /\ watcher.pc # "off" /\ watcher.recent
    /\ watcher' = [watcher EXCEPT !.recent = FALSE]
    /\ UNCHANGED <<putVars, stream, events, saves>>

\* Mutant of Relevant: only the first path of an event is looked at.
FirstRelevant(e) == e[1] = "Flagfile"

\* Any of the event's paths is a Flagfile.
Relevant(e) == \E i \in DOMAIN e : e[i] = "Flagfile"

\* An event is taken: skipped, dropped by the debounce, or a reload begins.
WatchTake ==
    /\ watcher.pc = "idle" /\ events # <<>>
    /\ events' = Tail(events)
    /\ watcher' = IF ~Relevant(Head(events)) THEN watcher
                  ELSE IF watcher.recent THEN [watcher EXCEPT !.missed = TRUE]
                  ELSE [watcher EXCEPT !.recent = TRUE, !.pc = "read"]
    /\ UNCHANGED <<putVars, stream, saves>>

\* The file is read and parsed; what does not parse is ignored.
WatchRead ==
    /\ watcher.pc = "read"
    /\ watcher' = [watcher EXCEPT !.missed = FALSE,
                     !.pc  = IF file \in Unreadable THEN "idle" ELSE "insert",
                     !.got = IF file \in Unreadable THEN None ELSE file]
    /\ UNCHANGED <<putVars, stream, events, saves>>

WatchInsert ==
    /\ watcher.pc = "insert" /\ Reload(watcher.got)
    /\ watcher' = [watcher EXCEPT !.pc = "announce", !.got = None]
    /\ UNCHANGED <<stream, events, saves>>

WatchAnnounce ==
    /\ watcher.pc = "announce"
    /\ stream' = Broadcast(Origin)
    /\ watcher' = [watcher EXCEPT !.pc = "idle"]
    /\ UNCHANGED <<putVars, events, saves>>

WatchStep == WatchBegins \/ WatchTake \/ WatchRead \/ WatchInsert \/ WatchAnnounce
-----------------------------------------------------------------------------
(***************************************************************************)
(* The streams (the select! loop of create_sse_stream).                    *)
(***************************************************************************)

StreamRecv(c) ==
    LET s == stream[c] IN
    /\ IsOpen(s) /\ HasRoom(s) /\ (s.lagged \/ s.unread > 0)
    /\ stream' = [stream EXCEPT ![c] = recv(s)]
    /\ UNCHANGED <<putVars, events, saves, watcher>>

StreamShuts(c) ==
    /\ IsOpen(stream[c]) /\ HasRoom(stream[c]) /\ stream[c].shut
    /\ stream' = [stream EXCEPT ![c] = recvShutdown(@)]
    /\ UNCHANGED <<putVars, events, saves, watcher>>
-----------------------------------------------------------------------------
(***************************************************************************)
(* Requests, shutdown, crash and start.                                    *)
(***************************************************************************)
PutStep(p) ==
    \/ (PutStart(p) \/ PutRefused(p) \/ StoreFlags(p) \/ StoreMeta(p) \/ Flush(p) \/ StoreFails(p)
        \/ Insert(p)) /\ UNCHANGED others
    \/ Announce(p) /\ stream' = Broadcast(Origin) /\ UNCHANGED <<events, saves, watcher>>

\* Mutant of ServerSignal: the streams are not told.
SignalQuietly == Signal /\ UNCHANGED others

ServerSignal ==
    /\ Signal
    /\ stream' = [c \in Sub |-> IF OfServer(c) THEN shutdown(stream[c]) ELSE stream[c]]
    /\ UNCHANGED <<events, saves, watcher>>

ServerClose == Close /\ UNCHANGED others

\* Graceful shutdown waits for every open response.
ServerStop ==
    /\ Stop /\ \A c \in Sub : OfServer(c) => ~IsOpen(stream[c])
    /\ events' = <<>> /\ watcher' = NotWatching
    /\ UNCHANGED <<stream, saves>>

ServerCrash ==
    /\ Crash
    /\ stream' = [c \in Sub |-> IF OfServer(c) THEN NoStream ELSE stream[c]]
    /\ events' = <<>> /\ watcher' = NotWatching
    /\ UNCHANGED saves

ServerStart ==
    /\ Start
    /\ watcher' = NotWatching
    /\ UNCHANGED <<stream, events, saves>>

ServerNext ==
    \/ \E p \in Put : PutStep(p)
    \/ \E s \in Save : SaveFile(s)
    \/ TouchOther \/ Elapse \/ WatchStep
    \/ \E c \in Sub : StreamRecv(c) \/ StreamShuts(c)
    \/ ServerSignal \/ ServerClose \/ ServerStop \/ ServerCrash \/ ServerStart
-----------------------------------------------------------------------------
(***************************************************************************)
(* Properties.                                                             *)
(***************************************************************************)

\* A Flagfile that parses is what a watching server serves once its watcher is
\* idle, unless an event was debounced or came while it was not watching, or a
\* PUT has replaced the content since (watch_flagfile_new, mod.rs:725).
WatchedFileServed ==
    /\ Watch /\ watcher.pc = "idle" /\ events = <<>> /\ ~watcher.missed
    /\ file \notin Unreadable /\ mem.content \notin Put
    => mem.content = file

\* SIGTERM ends the process, unless a stream was opened in the 200 ms between
\* the signal to the streams and the closing of the listener: that stream is
\* never told, and the process waits for it (mod.rs:874-878, sse.rs:46).
ServerStops ==
    (status = "draining") ~> (status = "down" \/ \E c \in Sub : stream[c].late)
================================================================================
