-------------------------------- MODULE LibState --------------------------------
(***************************************************************************)
(* The global state of the Rust library (src/lib.rs): four globals, each   *)
(* behind its own lock, which parse_and_store replaces one after the other *)
(* and ff reads holding all four read locks.  A process has one storing    *)
(* thread (init, then the event listener) and several calling ff.          *)
(*                                                                         *)
(* A global is the number of the flagfile it came from; 0: not yet set.    *)
(***************************************************************************)
EXTENDS Integers, Sequences

CONSTANTS Reader       \* the threads that call ff

\* FLAGS, METADATA, SEGMENTS and ENVIRONMENT, in the order both sides take them.
Globals == 1..4

VARIABLES
    global,     \* [Globals -> number of the flagfile it holds]
    version,    \* the number of the flagfile stored last, or being stored
    storing,    \* the global parse_and_store writes next, 0 when it has ended
    reader      \* [Reader -> the values ff has read; it holds as many locks]

libVars == <<global, version, storing, reader>>

LibInit ==
    /\ global = [g \in Globals |-> 0]
    /\ version = 0
    /\ storing = 0
    /\ reader = [r \in Reader |-> <<>>]

Holds(r, g)  == Len(reader[r]) >= g
Initialised  == version > 1 \/ (version = 1 /\ storing = 0)

BeginStore ==
    /\ storing = 0
    /\ storing' = 1 /\ version' = version + 1
    /\ UNCHANGED <<global, reader>>

\* Mutant of StoreGlobal: the flags are written last.
StoreFlagsLast ==
    LET g == IF storing = 4 THEN 1 ELSE storing + 1 IN
    /\ storing # 0 /\ \A r \in Reader : ~Holds(r, g)
    /\ global' = [global EXCEPT ![g] = version]
    /\ storing' = IF storing = 4 THEN 0 ELSE storing + 1
    /\ UNCHANGED <<version, reader>>

\* One assignment: it waits for the readers of that global.
StoreGlobal ==
    /\ storing # 0 /\ \A r \in Reader : ~Holds(r, storing)
    /\ global' = [global EXCEPT ![storing] = version]
    /\ storing' = IF storing = 4 THEN 0 ELSE storing + 1
    /\ UNCHANGED <<version, reader>>

\* ff takes the read locks one by one (init has returned) ...
ReadLock(r) ==
    /\ Initialised /\ Len(reader[r]) < 4
    /\ reader' = [reader EXCEPT ![r] = Append(@, global[Len(@) + 1])]
    /\ UNCHANGED <<global, version, storing>>

\* ... evaluates, and returns.
ReadDone(r) ==
    /\ Len(reader[r]) = 4
    /\ reader' = [reader EXCEPT ![r] = <<>>]
    /\ UNCHANGED <<global, version, storing>>

LibNext ==
    \/ BeginStore \/ StoreGlobal
    \/ \E r \in Reader : ReadLock(r) \/ ReadDone(r)

LibSpec == LibInit /\ [][LibNext]_libVars
-----------------------------------------------------------------------------
LibTypeOK ==
    /\ global \in [Globals -> Nat]
    /\ version \in Nat
    /\ storing \in 0..4
    /\ reader \in [Reader -> Seq(Nat)]
    /\ \A r \in Reader : Len(reader[r]) <= 4

\* An evaluation under way may mix two flagfiles, but only neighbours, and only
\* the newer one's globals before the older one's: flags are never evaluated
\* with metadata, segments or an environment of a flagfile loaded after them
\* (parse_and_store, lib.rs:98-113, against ff, lib.rs:128-147).
SnapshotPrefix ==
    \A r \in Reader : \A i, j \in 1..Len(reader[r]) :
        i <= j => reader[r][i] - reader[r][j] \in {0, 1}

\* Why: the globals written so far are of the flagfile being stored, the others
\* of the one before, and a read lock keeps what its reader saw.
LibInv ==
    /\ LibTypeOK
    /\ storing # 0 => version > 0
    /\ \A g \in Globals : global[g] = IF storing = 0 \/ g < storing THEN version ELSE version - 1
    /\ \A r \in Reader : \A g \in 1..Len(reader[r]) : reader[r][g] = global[g]
================================================================================
