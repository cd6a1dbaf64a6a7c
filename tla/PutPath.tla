-------------------------------- MODULE PutPath --------------------------------
(***************************************************************************)
(* The direct write path of one namespace on a server without a cluster:   *)
(* handle_put_flagfile in server/routes.rs, the sled store it writes to    *)
(* and the stops, crashes and starts of the process.  PUTs run in their    *)
(* own tasks, and no lock spans the steps of one.                          *)
(*                                                                         *)
(* A PUT stands for its body: the content it pushes is the PUT itself.     *)
(***************************************************************************)
EXTENDS Integers, Sequences

CONSTANTS Put,          \* the PUT requests; each pushes a content of its own
          Save,         \* contents an editor writes to the Flagfile
          Unreadable,   \* those that do not parse
          First,        \* the content of the Flagfile at the beginning
          Stored,       \* TRUE: multi-tenant, sled store; FALSE: single-tenant
          None,         \* no content
          MaxStops      \* bound on crashes and SIGTERMs of the process

ASSUME ContentsDiffer ==
    /\ Unreadable \subseteq Save
    /\ First \notin Put \cup Save /\ None \notin Put \cup Save \cup {First}
    /\ Put \cap Save = {}
    /\ Stored \in BOOLEAN /\ MaxStops \in Nat

Content == Put \cup Save \cup {First}

VARIABLES
    status,   \* "up", "draining" (told to stop, still accepting), "closing", "down"
    mem,      \* the namespace in AppState: its content and env, or empty
    disk,     \* states of the store since the last flush: disk[1] is on disk,
              \* the last is what reads see, a crash leaves any of them
    file,     \* the Flagfile of single-tenant mode
    put,      \* [Put -> how far its handler is, the env it read, history]
    stops     \* crashes and SIGTERMs so far

putVars == <<status, mem, disk, file, put, stops>>

Empty     == [content |-> None, env |-> FALSE]
NoRequest == [pc |-> "idle", env |-> FALSE, before |-> {}]

Writing   == {"flags", "meta", "flush"}
InFlight  == Writing \cup {"insert", "announce"}
Done      == {"failed", "ok", "lost"}
Finished  == {p \in Put : put[p].pc \in Done}
Accepting == status \in {"up", "draining"}
Last(s)   == s[Len(s)]
Step(p, pc) == put' = [put EXCEPT ![p].pc = pc]

\* run_serve_multi_tenant: stored flagfiles are parsed, with the --env of the
\* command line; run_serve_single_tenant: the Flagfile, or the process exits.
Loaded ==
    LET content == IF Stored THEN Last(disk).flags ELSE file
    IN  IF content = None THEN Empty ELSE [content |-> content, env |-> TRUE]

InitStore == <<[flags |-> None, meta |-> None]>>

PutInit ==
    /\ status = "up"
    /\ disk = InitStore
    /\ file = First
    /\ mem = IF Stored THEN Empty ELSE [content |-> First, env |-> TRUE]
    /\ put = [p \in Put |-> NoRequest]
    /\ stops = 0
-----------------------------------------------------------------------------
(***************************************************************************)
(* handle_put_flagfile.                                                    *)
(***************************************************************************)

\* The body is parsed, then the env of the namespace is read (none when the
\* namespace is new).  `before` is history: the PUTs finished by then.
PutStart(p) ==
    /\ Accepting /\ put[p].pc = "idle"
    /\ put' = [put EXCEPT ![p] = [pc |-> IF Stored THEN "flags" ELSE "insert",
                                  env |-> mem.env, before |-> Finished]]
    /\ UNCHANGED <<status, mem, disk, file, stops>>

\* A body that does not parse: 422, and nothing else.
PutRefused(p) ==
    /\ Accepting /\ put[p].pc = "idle"
    /\ Step(p, "refused")
    /\ UNCHANGED <<status, mem, disk, file, stops>>

\* SledStore::put_flagfile is two inserts and a flush ...
StoreFlags(p) ==
    /\ put[p].pc = "flags"
    /\ disk' = Append(disk, [Last(disk) EXCEPT !.flags = p])
    /\ Step(p, "meta")
    /\ UNCHANGED <<status, mem, file, stops>>

StoreMeta(p) ==
    /\ put[p].pc = "meta"
    /\ disk' = Append(disk, [Last(disk) EXCEPT !.meta = p])
    /\ Step(p, "flush")
    /\ UNCHANGED <<status, mem, file, stops>>

\* Mutant of Flush: the two inserts return without flushing.
FlushLater(p) ==
    /\ put[p].pc = "flush"
    /\ Step(p, "insert")
    /\ UNCHANGED <<status, mem, disk, file, stops>>

Flush(p) ==
    /\ put[p].pc = "flush"
    /\ disk' = <<Last(disk)>>
    /\ Step(p, "insert")
    /\ UNCHANGED <<status, mem, file, stops>>

\* ... any of which may fail: 500, and what was inserted stays.
StoreFails(p) ==
    /\ put[p].pc \in Writing
    /\ Step(p, "failed")
    /\ UNCHANGED <<status, mem, disk, file, stops>>

\* Mutant of Insert: an entry that is already there is kept.
InsertIfAbsent(p) ==
    /\ put[p].pc = "insert"
    /\ mem' = IF mem = Empty THEN [content |-> p, env |-> put[p].env] ELSE mem
    /\ Step(p, "announce")
    /\ UNCHANGED <<status, disk, file, stops>>

\* Mutant of Insert: the env that was read is not carried over.
InsertNoEnv(p) ==
    /\ put[p].pc = "insert"
    /\ mem' = [content |-> p, env |-> FALSE]
    /\ Step(p, "announce")
    /\ UNCHANGED <<status, disk, file, stops>>

Insert(p) ==
    /\ put[p].pc = "insert"
    /\ mem' = [content |-> p, env |-> put[p].env]
    /\ Step(p, "announce")
    /\ UNCHANGED <<status, disk, file, stops>>

\* The broadcast, after which the client is answered.
Announce(p) ==
    /\ put[p].pc = "announce"
    /\ Step(p, "ok")
    /\ UNCHANGED <<status, mem, disk, file, stops>>
-----------------------------------------------------------------------------
(***************************************************************************)
(* The process (serve_with_shutdown, the starts).                            *)
(***************************************************************************)

\* SIGTERM or ctrl-c: the streams are told, and 200 ms later ...
Signal ==
    /\ status = "up" /\ stops < MaxStops
    /\ status' = "draining" /\ stops' = stops + 1
    /\ UNCHANGED <<mem, disk, file, put>>

\* ... the listener is closed.
Close ==
    /\ status = "draining" /\ status' = "closing"
    /\ UNCHANGED <<mem, disk, file, put, stops>>

\* Requests in flight are finished first; dropping the store flushes it.
Stop ==
    /\ status = "closing" /\ \A p \in Put : put[p].pc \notin InFlight
    /\ status' = "down" /\ mem' = Empty /\ disk' = <<Last(disk)>>
    /\ UNCHANGED <<file, put, stops>>

\* A crash leaves the store at any state since the last flush.
Crash ==
    /\ status # "down" /\ stops < MaxStops
    /\ status' = "down" /\ mem' = Empty /\ stops' = stops + 1
    /\ \E k \in 1..Len(disk) : disk' = <<disk[k]>>
    /\ put' = [p \in Put |-> IF put[p].pc \in InFlight
                             THEN [put[p] EXCEPT !.pc = "lost"] ELSE put[p]]
    /\ UNCHANGED file

Start ==
    /\ status = "down" /\ (Stored \/ file \notin Unreadable)
    /\ status' = "up" /\ mem' = Loaded
    /\ UNCHANGED <<disk, file, put, stops>>

\* Single-tenant mode: the Flagfile is edited, and the watcher loads an edit.
Edit(s) ==
    /\ ~Stored /\ file' = s
    /\ UNCHANGED <<status, mem, disk, put, stops>>

Reload(s) ==
    /\ ~Stored /\ mem' = [content |-> s, env |-> TRUE]
    /\ UNCHANGED <<status, disk, file, put, stops>>

PutNext ==
    \/ \E p \in Put : \/ PutStart(p) \/ PutRefused(p) \/ StoreFlags(p) \/ StoreMeta(p) \/ Flush(p)
                      \/ StoreFails(p) \/ Insert(p) \/ Announce(p)
    \/ \E s \in Save \cup {First} : Edit(s) \/ Reload(s)
    \/ Signal \/ Close \/ Stop \/ Crash \/ Start

PutSpec == PutInit /\ [][PutNext]_putVars
-----------------------------------------------------------------------------
(***************************************************************************)
(* Properties.                                                             *)
(***************************************************************************)

\* The two keys a namespace has in sled.
StoreState == [flags : Put \cup {None}, meta : Put \cup {None}]

PutTypeOK ==
    /\ status \in {"up", "draining", "closing", "down"}
    /\ mem \in [content : Content \cup {None}, env : BOOLEAN]
    /\ disk \in Seq(StoreState)
    /\ disk # <<>>
    /\ file \in Save \cup {First}
    /\ put \in [Put -> [pc : {"idle", "refused"} \cup InFlight \cup Done, env : BOOLEAN,
                        before : SUBSET Put]]
    /\ stops \in Nat

\* An answered PUT survives a crash: the store holds a flagfile and a meta (so
\* create_snapshot does not fail on it), and the flagfile is of no PUT that had
\* finished before the answered one began, whatever the tasks interleaved
\* (SledStore::put_flagfile, sled_store.rs:41, called without a lock).
AckedIsDurable ==
    Stored => \A p \in Put : put[p].pc = "ok" =>
        /\ disk[1].flags \in Put \ put[p].before
        /\ disk[1].meta \in Put

\* What is served after a PUT was answered is never a body whose PUT had
\* finished before it began: PUTs that do not overlap take effect in their
\* order, across crashes and restarts of a server with a store
\* (routes.rs:285-358, where the store and the map are written separately).
LaterPutWins ==
    \A p \in Put : put[p].pc = "ok" => mem.content \notin put[p].before

\* Only flushed bodies are served: a reader cannot have seen a body that a
\* crash takes back to one older than both (routes.rs:294 before routes.rs:313).
ServedIsDurable ==
    Stored /\ mem.content # None =>
        /\ disk[1].flags \in Put
        /\ disk[1].flags \notin put[mem.content].before

\* Why they hold.  A PUT that has not finished is in nobody's `before`.
History ==
    \A p \in Put : put[p].before \subseteq Finished /\ p \notin put[p].before

\* What a PUT wrote, or something no older, is what the store reads back until
\* its flush, and is in every state a crash can leave after it.
Written ==
    Stored => \A p \in Put :
        /\ put[p].pc \in {"meta", "flush"} => Last(disk).flags \in Put \ put[p].before
        /\ put[p].pc = "flush" => Last(disk).meta \in Put
        /\ put[p].pc \in {"insert", "announce", "ok"} =>
             \A k \in 1..Len(disk) : /\ disk[k].flags \in Put \ put[p].before
                                     /\ disk[k].meta \in Put

\* Only bodies of PUTs that got that far are stored or served.
Begun ==
    /\ \A k \in 1..Len(disk) : disk[k].flags # None =>
            put[disk[k].flags].pc \notin {"idle", "refused"}
    /\ mem.content \in Put => put[mem.content].pc \notin {"idle", "refused"}

Served ==
    /\ \A p \in Put : put[p].pc \in {"announce", "ok"} => mem.content \notin put[p].before
    /\ Stored /\ mem.content # None =>
         /\ mem.content \in Put
         /\ \A k \in 1..Len(disk) : disk[k].flags \in Put \ put[mem.content].before

\* A process that is down has nothing in flight and nothing unflushed.
AtRest ==
    status = "down" => Len(disk) = 1 /\ \A p \in Put : put[p].pc \notin InFlight

PutInv == PutTypeOK /\ History /\ Written /\ Begun /\ Served /\ AtRest

\* A PUT in flight read the env that is still there when it inserts.
EnvRead ==
    /\ \A p \in Put : put[p].pc \in InFlight => put[p].env = mem.env
    /\ ~Stored /\ status # "down" => mem.env
    /\ Stored /\ status = "down" => ~mem.env

\* The --env of the server stays with a namespace once it serves with it: no
\* PUT, whichever env it read when, drops it (routes.rs:288).
EnvKept == [][mem.env /\ status' # "down" => mem'.env]_putVars
================================================================================
