------------------------------- MODULE SseStream -------------------------------
(***************************************************************************)
(* One event stream of server/sse.rs: a receiver on the namespace's        *)
(* broadcast channel and on the shutdown channel, and the events written   *)
(* to its response and not yet read by the client.                         *)
(*                                                                         *)
(* An event is its type: no client of the repository reads the data.       *)
(* Heartbeats and keep-alives, which they skip, are left out.              *)
(***************************************************************************)
EXTENDS Integers, Sequences

CONSTANTS Capacity,     \* of the broadcast channel (256 in the code)
          WireCap       \* events a response buffers ahead of its client

ASSUME Capacities == Capacity \in Nat \ {0} /\ WireCap \in Nat \ {0}

EventType == {"connected", "flag_update", "lag_warning", "server_shutdown"}

\* unread: events in the channel this receiver has not taken; lagged: whether
\* some were overwritten; shut: an unread shutdown signal; late: subscribed
\* after the shutdown signal was sent.
NoStream == [st |-> "none", unread |-> 0, lagged |-> FALSE, shut |-> FALSE,
             late |-> FALSE, wire |-> <<>>]

IsOpen(s) == s.st = "open"
HasRoom(s) == Len(s.wire) < WireCap
Yield(s, e) == [s EXCEPT !.wire = Append(@, e)]

\* create_sse_stream: both subscriptions, then the connected event.
subscribe(late) == [NoStream EXCEPT !.st = "open", !.late = late, !.wire = <<"connected">>]

\* Mutant of broadcast: the channel keeps every event.
broadcastUnbounded(s) == IF IsOpen(s) THEN [s EXCEPT !.unread = @ + 1] ELSE s

\* broadcast: the channel keeps the last Capacity events.
broadcast(s) ==
    IF ~IsOpen(s) THEN s
    ELSE IF s.unread < Capacity THEN [s EXCEPT !.unread = @ + 1]
    ELSE [s EXCEPT !.lagged = TRUE]

\* SseBroadcaster::shutdown: receivers of the moment see it, later ones do not.
shutdown(s) == IF IsOpen(s) THEN [s EXCEPT !.shut = TRUE] ELSE s

\* Mutant of recv: a lagged receiver skips to the end of the channel.
recvSkipping(s) ==
    IF s.lagged THEN Yield([s EXCEPT !.lagged = FALSE, !.unread = 0], "lag_warning")
    ELSE Yield([s EXCEPT !.unread = @ - 1], "flag_update")

\* rx.recv(): a lagged receiver is told so, and goes on with the oldest event
\* the channel still holds.
recv(s) ==
    IF s.lagged THEN Yield([s EXCEPT !.lagged = FALSE], "lag_warning")
    ELSE Yield([s EXCEPT !.unread = @ - 1], "flag_update")

\* shutdown_rx.recv(): the last event; the stream ends.
recvShutdown(s) == Yield([s EXCEPT !.st = "ended", !.shut = FALSE], "server_shutdown")

Stream == [st : {"none", "open", "ended"}, unread : 0..Capacity, lagged : BOOLEAN,
           shut : BOOLEAN, late : BOOLEAN, wire : Seq(EventType)]

\* Nothing is left for the client to read on an open stream.
Drained(s) == IsOpen(s) /\ s.wire = <<>> /\ s.unread = 0 /\ ~s.lagged
================================================================================
