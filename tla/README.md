# Verification of flagfile

flagfile is a feature-flag system: a library that parses and evaluates
Flagfiles, a command line `ff` with a flag server (`ff serve`), sidecars, and
ports to Go and TypeScript.  This directory holds TLA+ models of its code, the
TLC runs that check them and the TLAPS proofs about them.  `PROJECT.json` lists
components, runs, hazards, theorems, and the source lines of every definition.

## 1. Inventory

| Component | Source (under `src/`) | State | Operations |
|---|---|---|---|
| Raft log storage | `flagfile-cli/src/server/raft/storage.rs` | `entries` with a dummy at the front, `offset`, `hard_state`, `snapshot`; all in memory | `append`, `set_hard_state`, `apply_snapshot`, `compact`, `create_snapshot`, the `Storage` reads |
| Raft node loop | `raft/node.rs` | raft-rs's `RawNode`, `pending` senders, `applied_index`, the atomics `leader_id`, `term`, `committed` | tick, campaign, propose, step, transfer, Ready, LightReady, snapshot trigger |
| State machine | `raft/state_machine.rs` | the store and `namespaces` | `apply`, `snapshot`, `restore` |
| Transport | `raft/transport.rs` | client connections | `send_message`, `get_status`, `request_snapshot`, `forward_write` |
| Server start | `server/mod.rs` | what it discovers | load, discovery, bootstrap, seeding, start; watch; shutdown |
| Routes | `server/routes.rs` | none | PUT (Raft or direct), events, evaluation |
| Store | `server/store/` | one flagfile and one meta per namespace, in memory or in sled | `put_flagfile`, snapshots |
| SSE broadcaster | `server/sse.rs` | one channel of 256 events per namespace | `subscribe`, `broadcast`, `shutdown` |
| Sidecar | `server/sidecar.rs` | a copy of the upstream flagfile, back-off | fetch, listen, reconnect |
| File watcher | `server/mod.rs` `watch_flagfile_new` | `last_reload` | debounce, reload, announce |
| Auth, config | `server/auth.rs`, `config.rs`, `state.rs` | tokens per namespace | check, resolve |
| Parser | `src/parse.rs`, `parse_flagfile.rs`; `flagfile-go/parser.go`; `flagfile-ts/src/parser.ts` | none | a text to a tree, in three languages |
| Evaluator | `src/eval.rs`, `ast.rs`; `flagfile-go/eval.go`, `atom.go`; `flagfile-ts/src/eval.ts`, `ast.ts` | none | a tree and a context to an answer, in three languages |
| Library state | `src/lib.rs` | four globals, each with its lock | `parse_and_store`, `ff` |
| Remote client | `src/builder.rs`, `flagfile-ts/src/index.ts` | the fetched content, back-off | fetch, listen, re-fetch, disconnect |
| Include expansion | `src/include.rs` | a stack of paths | expand |
| Linter | `flagfile-cli/src/lint/` | none | searches for circles, dead rules, undefined names |
| LaunchDarkly transpiler | `src/transpile/launchdarkly.rs` | none | a Flagfile to variations, rules, clauses, rollouts and a JSON patch |
| LaunchDarkly push | `flagfile-cli/src/push_launchdarkly.rs` | what the GET of a flag answered; LaunchDarkly's flag on the other side | for each flag GET, then POST or PATCH of variations, then PATCH of targeting; dry run, `--env` |
| Formatter, command line with `ff pull`, OFREP, metrics, editor plugins | | none | text in, text out |

How they interact.  A PUT reaches `handle_put_flagfile`; in a cluster it is
proposed through `RaftHandle::propose` or forwarded to the leader by gRPC; the
node loop applies committed commands through `RaftStateMachine`, which writes
the store, replaces the namespace in `AppState` and broadcasts on
`SseBroadcaster`; SSE streams carry the event to sidecars and remote clients,
which fetch the content again.  On its own, the server does the three writes in
the handler.  The start of a member talks to its peers' gRPC service before its
own loop exists.

What is hard.  Messages lost, late and reordered between loops; elections and
leadership transfers under pending proposals; **a Raft log that is only in
memory**, so that a restart forgets vote and log, and the discovery, bootstrap
and seeding that make up for it; senders answered by any commit; three
non-atomic writes of the direct path, and a store whose one write is two inserts
and a flush; a bounded event channel; a fetch and a subscription that are two
calls; a shutdown that races new streams; a debounce that drops events; four
globals replaced one by one under readers.  In the language: a grammar written
three times over alternatives that commit in an order, conversions between
numbers, versions, dates and texts, a hash that must give every port the same
bucket, recursion that only a linter guards.  In the transpiler: rules and conditions that
change their places on the way to a service that matches them differently.  In
the push: three requests over a flag that other pushes and people change
meanwhile.  The list with lines is `hazards`.

What makes each part correct.  Storage: index arithmetic, committed entries
never rewritten.  Cluster: one leader a term, the same commands at the same
indices, no store that misses a write its member counts as committed, no panic,
every submitted write answered, every write applied everywhere.  Direct path: an
answered write is durable, a later write wins, nothing is served that a crash
takes back.  SSE, sidecar and clients: who has read the stream to its end has
what the server serves.  Globals: a reader mixes at most two neighbouring
flagfiles.  Language: the ports agree, a text means what the documentation says,
what the linter accepts answers, a rollout only grows.  Transpiler: what
LaunchDarkly serves is what the library answers, and LaunchDarkly takes what is
sent.  Push: a reported success serves the values of its Flagfile, a kill switch
holds, other environments are left alone.

## 2. Modules

| Module | What it is |
|---|---|
| `MemRaftStorage` | `storage.rs` as operators on one `MemRaftStorageCore` record. No variables, so that a state machine and a cluster can both use it. |
| `RaftLog` | The life of one storage: start, persist, install, apply, snapshot. What raft-rs promises about arguments is in the guards. |
| `AbstractLog` | What a `Storage` promises raft-rs: a map from indices to terms, never rewritten at or below the commit index. |
| `RaftLogProofs` | The theorems about `RaftLog`. |
| `MemRaftStorageProofs` | What each operator of the storage returns, for any sets of commands and snapshots. |
| `RaftNode` | One member between two turns of its loop as a record; role changes, one turn (`Persist`, `Turn`, `TriggerSnapshot`), which senders it drains (`Drains`). |
| `RaftCluster` | The cluster: elections, replication, PUT and forwarding, restarts with discovery, bootstrap and seeding. |
| `RaftClusterProofs` | The theorems about every member of a cluster, restarts included. |
| `RaftElectionProofs` | The theorems about elections and logs as long as no member has been restarted. |
| `RaftAgreementProofs` | On top of it: what is committed stays committed, commands applied agree, stores miss nothing. |
| `PutPath` | The direct PUT of one namespace: store, map, answer; sled's inserts and flush; stops, crashes, starts. The specification of the write path that the rest is shown to implement. |
| `SseStream` | One event stream as a record: channel, lag, shutdown, response. No variables. |
| `FlagServer` | One server without a cluster: `PutPath` with the file watcher, the streams and the shutdown. |
| `LibState` | The four globals of the Rust library, its storing thread and its readers. |
| `FlagSync` | `FlagServer` with its followers: sidecars, the Rust client (over `LibState`), the TypeScript client. |
| `PutPathProofs`, `FlagSyncProofs` | The theorems about them. |
| `Peg` | Tokens and the few combinators the three parsers share. |
| `RustParser`, `GoParser`, `TsParser` | `parse.rs`, `parser.go`, `parser.ts`: one operator a function, alternatives in their order. |
| `Texts` | What the three evaluators do to numbers and texts alike. |
| `RustEval`, `GoEval`, `TsEval` | The three evaluators, comparisons, rules loops; in `RustEval` also the server's copy of the loop. |
| `Ports` | The three parsers, evaluators and rules loops side by side. |
| `Lints` | The lints of rules, conditions, requires and segments, and their sum. |
| `Includes` | `include.rs` over a small disk with links. |
| `Language` | A state machine that types conditions, segments, flags and files piece by piece. |
| `LanguageProperties` | What is expected of the language. |
| `LdTranspile` | The transpiler: normal form of conditions, clauses, rules, variations, rollouts, environments; and what LaunchDarkly serves from them. |
| `LdAuthor` | A state machine that composes a flag, each state a Flagfile that may be pushed, and what is expected of it. |
| `LaunchDarklyPush` | Any number of pushes, LaunchDarkly's flags, people in its UI. |
| `LaunchDarklyPushProofs` | The theorems about it. |
| `MCRaftLog`, `MCRaftCluster`, `MCFlagSync`, `MCLanguage`, `MCLaunchDarklyPush`, `MCLdAuthor` | The instances TLC checks. |

Correspondence.  `node[n].core` is the `MemRaftStorageCore`; `role`, `term`,
`vote`, `commit`, `lead`, `matched` are raft-rs's; `applied` is
`applied_index`; `seen` is the `committed` atomic; `store` is the flag store
and `namespaces` together, each namespace mapped to the last write applied.
`status` says whether a process is before its loop (`probing`), in it (`up`),
or has lost it to a panic (`panicked`: the task dies, the process and its
servers stay, with frozen atomics).  `found` is what discovery has read.
`write[w]` follows one PUT: forwarded, queued in `proposal_rx`, pending, answered.
`history` is a history variable with every index and command ever applied.

`PutPath` and `FlagServer`: `mem` is the namespace in `AppState`; `disk` is the
list of states of the two sled keys since the last flush, of which a crash keeps
any one; `put[p].pc` is how far the handler of PUT `p` is; `watcher`, `events`
are the watching task and the events it has not taken; `stream[c]` is the
generator of `create_sse_stream` with its receivers and response.  `FlagSync`:
`sub[c]` is the follower's task.  A follower behind a sidecar has that sidecar
for upstream.  `LibState`: a global is the number of the flagfile it came from;
`reader[r]` lists what a call of `ff` has read under the locks it holds.

The language.  A text is a sequence of tokens, and a token knows what its
characters would let a parser do with a part of it: a word is a sequence of
pieces, so that `nulls` is met by a parser that looks for `null`; a date starts
with a number; a token for a broken exponent fails where the code cuts.  Floats
and rates are integers (hundredths, and ten-thousandths of a percent); the wrap
of 32 bits is kept with a smaller `I32Max`.  SHA-1 is the parameter `Digest`: the
bucket's 60 bits as a high and a low part, so that TypeScript's rounding to a
double is visible.  A regular expression is a text to be found, or one that does
not compile.  Blanks between tokens, layout and positions in error messages are
left out.  `Language` takes the ports as operator constants that `MCLanguage` gives
the values `ParseIn`, `AnswerIn` and `ValueIn` of `Ports`: TLC's coverage would
otherwise unfold a whole grammar at each of their uses.

LaunchDarkly.  `ld[f]` is the flag as the service holds it: the values of its
variations in order, the environments it is on in, and for each environment the
variation it serves; that one reference stands for those of the rules, the
fallthrough and the off variation, which `build_flag_patch` remaps alike.
`push[p]` is one run of the command: the request it is at, the flag, the values its
GET has read (`live`), whether it created the flag (`fresh`), what it has reported.
`killed` and `stale` are history variables.  In `LdTranspile` conditions are the trees
of `RustParser`, so that `RustEval` answers from the very flags that are transpiled;
what LaunchDarkly does with a rule, a clause and a rollout is external and modelled
from the comments of the transpiler: an operator answers nothing on JSON of another type,
and one of dates or versions reads the texts the transpiler sends.  `LdAuthor` takes its four functions as operator
constants for the reason `Language` does.

Abstractions.
- raft-rs (crate `raft` 0.7) is not in the repository.  Its part is modelled
  from its use and marked external.  A request and its answer are one step that
  turns the loops of the two members once; a late request is a step taken late;
  a lost request is a step not taken; a lost answer is a choice (`LossyReplies`).
  An answer never arrives after a later request of the same pair.
- A leader sends one entry a message (the default `max_size_per_msg` is 0), from
  the highest index both logs agree on; the probing that finds it is not a step.
- Each mutated definition that the project uses to test its properties stands
  before its original and is called a mutant; nothing else uses it.

## 3. Runs

| Run | Instance | Shows | States |
|---|---|---|---|
| `raft_log` | indices to 4, terms to 2, two entries a Ready | the storage's invariants and its refinement of `AbstractLog` | 1,617 |
| `raft_replication` | 3 members, terms to 2, one write, lossy, snapshot every 2nd index | logs match, leaders have what is committed, no missed write | 127,674 |
| `raft_rejoin` | the same without loss, with transfers, one orderly restart, sled store | one leader a term, the same commands at the same indices, no panic around a rejoin | 129,651 |
| `raft_crash` | one term, one restart at any moment, memory store | every storage stays in good shape, whatever it was seeded with | 32,521 |
| `raft_liveness` | one term, transfers, one orderly restart, memory store | writes answered, writes applied everywhere | 6,788 |
| `flag_store` | 2 PUTs, sled store, one stop or crash, one hiccup, a channel and responses of one event; followed by a Rust client with one reader, or by a sidecar with a TypeScript client behind it; PUTs are interchangeable | durability, order, followers in step, snapshots, env kept | 1,870,000 |
| `sidecar_sync` | single-tenant, `--watch`, two edits (a rename, one that does not parse), one PUT, one stop or crash, one hiccup, one sidecar | the watched file is served, the sidecar converges, a SIGTERM ends the process | 595,000 |
| `language` | a vocabulary for each topic, 15 values of the context, 2 environments | ports agree, meaning, rollouts, linter, includes | 74,938 |
| `launchdarkly_push` | one flag, there or not; five pushes: two of one Flagfile, one of another narrowed to an environment, one narrowed to an environment nobody configured, one dry; one failure, one click | references stay right, kill switches hold, other environments keep serving | 2,250,942 |
| `ld_transpile` | up to two rules and two leaves, a segment, a required flag, two environments, eight contexts; orders of numbers, versions and dates | LaunchDarkly serves the library's answers, payloads are well formed | 356,097 |
| `seed_stale` | two writes, an orderly restart, sled store | a seeded member misses a write (finding 2) | violation |
| `client_refresh` | one PUT, one TypeScript client | an update between fetch and subscription is missed (finding 1) | violation |

A property is checked in one run, the one where the most can go wrong with it; the
theorems of section 4 cover the other instances of many of them.

Bounds.  Three members are the smallest cluster with a majority that is not
everybody.  Two terms give a deposed leader, conflicting tails and forwarded
proposals.  With a threshold of 2 the first write's index triggers a snapshot,
so a slow follower needs one.  One write is enough for those properties since
the election's empty entries conflict with it; `seed_stale` needs one write
before and one after the restart.  One restart is what an operator's rolling
restart does at a time.  `MaxIndex` 4 lets a log be seeded, extended twice,
compacted and replaced.  The cfgs turn the deadlock check off: bounds on terms
and restarts, and the end of the writes, make the instances stop.

Two PUTs are the fewest that race, and the properties about them compare pairs.
A channel and a response of one event make a stream lag at the second event; a
larger one lags later and in the same way.  One stop shows every prefix of the
store's inserts; one hiccup (a cut connection, a refused stream, a failed fetch,
a disconnect) hits every step once.  `flag_store` and `sidecar_sync` split the
two kinds of tenancy, which the code chooses between at its start.

`language` has six topics.  *leaf*: a left side, an operator, a right side, each
with the cases the parsers tell apart (functions, coalesce, constants, lists,
regular expressions, words that begin with keywords, numbers at the boundary,
impossible dates).  *chain*: up to four operands with brackets, negations,
percentages, bare names.  *rollout*: rates at and near the ends, with and without
a salt, with keys whose digests fall next to a threshold.  *segments*: up to
three, with every way to refer to another.  *flags*: up to three rules of a flag
and one of another, requires, segments, environments.  *files*: up to three lines
of a Flagfile and one of each file, with comments, links, subdirectories, a file
outside.  Texts end where their vocabulary does, so the deadlock check is off.

`launchdarkly_push` has the fewest pushes that meet each other in every way the code
tells apart.  Two share a Flagfile, so that one may finish what the other began, or
read between its two PATCHes; the third's values overlap theirs in another order;
the fourth exists because a flag is created before its environment is looked up.
One failure interrupts any request before or after its effect; one click throws or
releases a kill switch between any two.  `ld_transpile` needs two leaves for a
connective to be distributed or negated, two rules for an order to change, a
segment of two leaves for an expansion, a rate that is cut and one above a
hundred percent; an order of versions that carries over and one that does not, at the
boundary and below it, an order of dates at the boundary and above it, and JSON that is a
plain text.

*Orderly* restarts (`Orderly`) happen to a follower when everything is
replicated, committed and answered.  Restarts at any moment break more: a
member that forgets its vote can elect a second leader in a term, and a
majority that forgets can lose a write.  Those are consequences of a log kept in
memory; only what holds regardless is checked there (`StorageSound`).
With restarts `NoMissedWrites` is not checked (`seed_stale` breaks it), but
`AppliedEverywhere` is, in one term: a member that has come back ends up with every
write.  With a second election and an empty store even an orderly restart can break
that, because the committed index comes from the probed peer and the snapshot from
the leader, which may have committed less so far (`server/mod.rs:343`).

Fairness.  A leader resends to each follower on its heartbeats, so `AppendEntry`
and `SendSnapshot` are weakly fair for each pair; the loop polls `proposal_rx`
for ever, and a proposal it takes is proposed or dropped by the state of that
moment, so the three actions are fair together and not one by one; forwarding
and start run on.  No election, transfer, end of a transfer, restart or PUT is
fair.  Liveness is checked with one term: with leaders that keep changing a
proposal may wait for ever.

`sidecar_sync` assumes (`FairSpec`) that a task of the runtime that can go on
does: a handler that has begun, the watcher, the streams, the followers' loops,
the sleep of a back-off, the shutdown once signalled, and that a supervisor
starts a process that is down.  PUTs, edits, signals, crashes, cuts and failures
are never fair.  A fetch that fails without the server being down uses up the
one hiccup; a sidecar whose last fetch failed waits for the next event, and
`SidecarConverges` says so.

What the properties leave out, by name, because the code does not hold it there.
PUTs that overlap (`before`): disk and memory may keep different ones, and a flagfile
the meta of another PUT.  A stream opened between the signal and the closing of the
listener (`late`), for which the process waits.  File events that are debounced
(`missed`).  A follower whose last fetch failed.  A push
overtaken by one of another Flagfile (`stale`), and a click while a new flag is being
turned on (`Enabling`).  What the transpiler does not carry over (`Conveyed`).

Findings, each with its run.
1. *A TypeScript client can miss an update for good* (`client_refresh`).  It
   fetches, subscribes, and ignores the `connected` event (`index.ts:264`, `:378`);
   the Rust client does the same (`builder.rs:136`).  The sidecar fetches on
   `connected`, and is in step.
2. *A seeded member can stay stale* (`seed_stale`).  A non-empty store is not
   refreshed and the seed skips the writes committed during the outage
   (`server/mod.rs:422`).

Other things the models show about the code, without a run of their own:
- *a PUT on a single-node cluster hangs*: `pending` is drained when the Ready
  carries committed entries; alone, a member commits in `advance`, and the
  LightReady's branch (`raft/node.rs:383`) applies without draining.  `raft_liveness` with
  `N = 1` and no restart shows it on `SubmittedIsAnswered`;
- *the last save of a burst can be lost*: the debounce drops events within 500 ms of a
  reload, or of the watcher's own start, and nothing looks at the file afterwards
  (`server/mod.rs:769`), where `--watch` promises to "reload automatically"
  (`main.rs:135`).  `sidecar_sync` reaches it, and `WatchedFileServed` fails without
  its `missed`;
- *an equal version under `>=` or `<=` is on the other side in LaunchDarkly*: both become
  the strict operator (`launchdarkly.rs:737`, a TODO), and on dates the numeric operator with
  a text, which matches nothing (`:739`); the header (`:6`) wants an error for what
  cannot be represented.  `TranspiledAnswers` fails without `LeavesRepresented` in `Conveyed`;
- *rules outside of any `@env` block overrule the blocks in LaunchDarkly*: they come first
  there (`:187`), where the comment (`:182`) has the blocks override them;
  `@env prod -> false` in front of a condition to true serves true in prod.
  `TranspiledAnswers` fails without `InFileOrder` in `Conveyed`;
- *a seeded member can panic*: the seed is the committed index of the peer probed
  first, not the leader's (`server/mod.rs:411`); `raft_crash` fires
  `HeartbeatPanics`, and `NoPanic` holds only around orderly restarts;
- *a seed has the wrong term*: the entry at its index gets the term the probed peer is in
  (`server/mod.rs:420`), not the one it was proposed in.  The log of a seeded member and
  the leader's then differ in term at a committed index, so `LeaderComplete` is checked
  without restarts; the leader's next append has to anchor below the seed, or a
  snapshot must replace it;
- *a flag created in LaunchDarkly stays off* when the PATCH after the POST fails: the
  next push finds it there, updates it and never turns it on
  (`push_launchdarkly.rs:384`);
- what the transpiler does not carry over, and `Conveyed` of `LdAuthor` names: a
  rollout under a negation loses the negation (`launchdarkly.rs:616`); an `@env` block
  moves behind the other rules (above); a bare value moves behind all conditions;
  `>=` and `<=` on versions, dates and times (above); `<` and `>` on a date with a
  time, which becomes a text no operator orders (`:735`), and on a quoted text, which the library
  never orders and LaunchDarkly does when it looks like a date or a version (`:726`);
  a regular expression, which becomes the text to be found (`:858`); the rest of a rollout goes to the
  first variation whatever comes next (`:765`); one of several ORed rollouts hides the
  others; a prerequisite is on whatever variation comes first (`:804`,
  `push_launchdarkly.rs:673`).  An `@env` block in an `@env` block panics (`:409`).

The ports.  `SameTree` and `SameAnswer` name every difference between the ports
they leave out; outside of these the three agree on everything the run types:
- reading: numbers beyond 32 bits, impossible dates and hours panic in Rust and are
  errors or other values in Go and TypeScript; only Rust reads a day with one
  digit; TypeScript wants a boundary after a keyword, allows a comma that ends a
  list, and reads neither a salt with a hyphen nor a rate with a sign or without a
  whole part as the others do;
- answers: a date with a time becomes a text with a blank in Rust and a `T` in the
  others; Go writes large floats with an exponent, has `now()` in UTC, and leaves
  a negative rate to the conversion of its build; TypeScript reads a version out
  of a negative float, ignores the anchor before a regular expression, and rounds
  the sixty bits of a hash, which moves a key by up to 64 buckets of 100,000 and
  so disagrees near a threshold, although `src/eval.rs:1185` wants the ports'
  rollouts identical (its own vectors are not near one).

Places where documentation and code differ and no run is spent: salts are quoted
in `docs/syntax/10-percentage-rollouts.md` and only read as identifiers; the
linter says of a second block of an environment that only the first is used,
where the second is reached when the first gives nothing; `ff` checks the
requires of one level only, where the linter calls a longer circle an error;
a block comment opened in the middle of a line does not hide an `@include`, where
`docs/syntax/15-includes.md` says one inside comments is ignored.

## 4. Proofs

`RaftLogProofs` proves, for every `MaxIndex`, `MaxTerm` and `MaxBatch`
(`BoundsAssumption` only says they are naturals):

- `StorageInvariant`: the inductive invariant `IInv`, from which `TypeCorrect`,
  `EntriesContiguous`, `SnapshotMatchesLog` and `CommittedHeld` follow;
- `CommittedNeverRewritten`: no step changes the term of a committed entry;
- `StorageRefinesLog`: `RaftLog` implements `AbstractLog`.

The invariants the runs check are not inductive alone: `TriggerSnapshot` cuts at
`applied`, so `IInv` adds `applied <= core.hs.commit`.  The argument first says
what each storage operator returns on a core in good shape
(`AppendReplacesTail`, `ApplySnapshotReplacesLog`, `SnapshotAndCompactCut`),
then what each action does to the log seen as a map of terms
(`PersistReadyEffect`, `InstallSnapshotEffect`, `TriggerSnapshotEffect`);
preservation, stability and refinement are read off these effects.

`MemRaftStorageProofs` says what `append`, `apply_snapshot`, `create_snapshot` and
`compact` return on a core in good shape (`Good`), once, without a bound and for any
set of commands; the next two modules rest on it.

`RaftClusterProofs` proves, for any number of members (`MembersAssumption`), writes,
terms and restarts (`BoundsAssumption`: `MaxTerm` is positive):
- `MembersSettled`: the inductive invariant `CInv`.  It says that every member is
  `Settled` between two turns of its loop: a storage in good shape, a hard state that
  records the term, the vote and the commit index, a commit index between the offset
  and the last entry, `applied` not above it;
- `TypesKept` and `StorageStaysSound` from it.  `StorageSound` alone is not
  inductive: `TriggerSnapshot` cuts at `applied`, and `append` must start above what
  is committed.

A turn is `Persist`, `Turn` and `TriggerSnapshot` in the code's order.  `SoundReady` is
what raft-rs promises about a Ready; `TurnIsSound` proves that a turn on a sound
Ready settles the member again, whatever that Ready carries; then one lemma an
action shows that the Readys it brings are sound, and `StartedIsSettled` the same for
every seed a start may choose.

`RaftElectionProofs` proves `OneLeaderPerTerm`, `LogsAgree` and `NobodyPanics` for any
number of members, writes and terms, with messages lost, late and reordered, and with
leadership transfers, *as long as no member has been restarted* (`restarts = 0`).
That hypothesis is the code's: the log and the vote are in memory only, and one
restart at a bad moment breaks all three (`raft_rejoin` and `raft_crash` are about
restarts).  The inductive invariant is `EInv`, on top of `CInv`:
- `VInv`, the votes.  raft-rs keeps no record of past votes, and so neither does the
  model.  The invariant therefore says what is left of an election (`Won`): a quorum
  each of whose members voted for the winner or has a later term, and none of whom is
  counted by a rival of that term.  Two quorums meet, so two winners are one;
- `LInv`, the logs.  Every entry's term was won by somebody, a leader's log is the
  longest in entries of its term, and two logs that agree on the term at an index agree
  below it.  Of a compacted entry only index and term are left, which `SameAt` allows
  for; each action is classified by what it does to a log (`Kept`, `Grew`, `Took`,
  `Installed`), and the classes are proved to keep `LInv` once each;
- `MInv`, the acknowledgements.  What a leader counts as held by a follower of its
  term is in that follower's log; so a heartbeat's commit index, the smaller of the
  leader's and the acknowledged one, is never past the follower's end.

`RaftAgreementProofs` proves, under the same hypothesis and on top of `CInv` and `EInv`,
that a later leader has all that was committed (`LeadersHaveCommitted`), that no two
members apply different commands at an index (`CommandsAgree`) and that no store misses
a write its member counts as committed (`StoresComplete`).  Members compact, snapshots replace a log,
and a compacted index has lost its term; so the invariant `AInv` is about whole logs:
there are logs `F`, one a member, of which the storages hold the upper ends (`EndOf`),
and `Agreed(F)` says of them
- `Shape`: the same term at an index means the same log up to it, terms grow along a
  log and were won, the entries of a term are one run of indices;
- `Commits`: a commit index is covered by a chosen entry (`Secure`).  `Chosen` means that
  every member of a quorum pledges the entry (`Pledges`: it has it, and no standing candidate
  of a later term that counts its vote has an earlier log) and that no log with a
  later term is without it.  That is what remains of "acknowledged" when nobody
  records the past;
- `AcksAgree`, `Pending`: up to what a member acknowledged to the leader of its term its
  log is the leader's, and an entry of a leader's own term is either pledged by
  all whom it counts, or a quorum without it has gone on to later terms, so that it
  is never committed in this one (`Blocked`);
- `Past`, `Told`: the history of applied commands is what is committed, no more and no
  less;
- `Reflecting`: a store has for every committed command of the member's log its namespace's
  data from that entry or a later one, no command between `applied` and the commit
  index waits above the offset, and a snapshot's data reflect the log up to its index.

An election keeps it because the winner's quorum meets the pledging one, and the log
that member voted for is at least as late as what it pledges.  A step leaves a log as it is,
appends a leader's entry to it or copies the upper part of a leader's (`Stays`, `Grows`,
`Copies`); each kind is proved once to keep `Shape`, then the pledges, then the
commits, and `Fits` says which Readys a turn may be given so that it is one of them.
`StoresAssumption` (`RaftNode`: a store written out is never the absent snapshot) is what
`create_snapshot` guarantees: JSON of a map is never empty.

`PutPathProofs` proves, for any set of PUTs and edits and any number of stops:
- `PutInvariant`: the inductive `PutInv`, then `AnsweredIsDurable`, `LaterWins` and
  `ServedFromDisk` for the three properties of the write path, and `EnvIsKept`.
  The properties are not inductive: an answer is durable because of what was on
  disk when the handler stored it.  `PutInv` says where each handler's body is at
  each of its steps (`Written`), that nothing it has overtaken can be in any state
  a crash may leave (`Served`), that only bodies of PUTs that have begun are stored
  (`Begun`), and that no PUT counts an unfinished one as done (`History`).  `EnvRead`
  does the same for the env a handler carries: it is the one still there.
- They need `ContentsDiffer`: each PUT and each edit pushes a content of its own,
  so that contents name their writers.

`FlagSyncProofs` first proves, of `LibState`, `LibInvariant` and `ReadersSeePrefix`
for any number of readers: a read lock keeps the value its holder saw, and the storing thread takes
the locks in the readers' order.

It then proves that the server with watcher, streams, shutdown and any
set of followers implements `PutPath` (`ImplementsPutPath`; the watcher's reload is
the abstract `Reload` because it read a Flagfile that was there, `FileRead`) and that
its Rust client implements `LibState` (`ImplementsLibState`).  `WholeIsSafe` carries
the properties of the parts over to the whole.  Then, for any capacity of the
channel and the connection, any number of failures (`HiccupsAssumption`) and any chain
of followers:
- `WholeTypeCorrect`, with a bound on what a response holds;
- `SidecarsFresh` and `ClientsFresh`.  Who has read its stream to the end has the
  upstream's content; the invariant says what holds before it has (`Informed`): it has
  failed, or is on its way back to a fetch, or something it will act upon is in the
  channel or the response, or the upstream has yet to announce its change, or the
  content it has or is about to insert is the upstream's.  It is a property of a link, so
  that a step of one follower is a step of the upstream for the next (`LinkMoves`),
  and a lagging channel is harmless because what it still holds is enough
  (`StreamSound`).  For the clients the invariant starts with the first update a
  connection brings (`heard`), which is where finding 1 shows;
- `WatcherServesFile`: an event about the Flagfile is pending, or was missed, or the
  content was loaded (`Watched`).

`LaunchDarklyPushProofs` proves all four properties of the push for any flags,
environments, pushes, failures and clicks (`PushesAssumption` only types the constants and
says that a flag's variations differ, as `synthesize_variations` makes them):
`PushTypes`, `ReferencesResolved`, `KillSwitchesHold`, `OthersUntouched`.  In the inductive
`PInv`, `Working` says that what a push has read is a prefix of what the flag holds:
variations are only ever appended; `Resolved` that the values it looks references up in
are those LaunchDarkly has at these places, until a push of another Flagfile
overtakes it (`stale`); `Killing` that a kill switch is off and that no push is about to
enable its flag.  `stale` is needed: a push of the same Flagfile may add the missing
values in between, and the look-up still agrees, while one of another Flagfile may
add others first.

Only model-checked:
- elections, logs, applied commands and stores after a restart, which are right around
  orderly ones only: the log, the vote and the commit index are lost with the process;
- liveness (`SubmittedIsAnswered`, `AppliedEverywhere`, `SidecarConverges`,
  `ServerStops`), which the proof system does not handle;
- the language and the transpiler, whose definitions recurse over trees: there is no
  induction over data here.

## 5. Not modelled

- Cluster: store errors and unparsable content in `apply`, the env label, a crash
  inside `apply_snapshot` of the sled store, a change of membership (there is none).
- Server: authorisation, configuration, TLS, listings, ETags, the JSON of answers
  (OFREP's too), metrics, log lines, heartbeats.
- Library: `ff_metadata` (a read under one lock), the `on_update` callback, init from a
  local file (one `parse_and_store` before any reader).  On the TypeScript side, the
  streaming decoder that splits events out of bytes.
- Language: the grammar around conditions (`parse_flagfile.rs` and its ports: flags,
  annotations, tests), which is modelled by the shapes it yields; regular
  expressions; SHA-1; the lints of dates and metadata.
- LaunchDarkly: descriptions, tags, names, `bucketBy`, the pages of the API, rate limits;
  segments of the service, which the transpiler does not use.
- Formatter, command line, editor plugins: one run, text in and text out, no state
  that interacts.

## 6. Plan

Done: the Raft storage, its refinement and proofs; the cluster with its restarts;
the write path, its proofs, and the server and followers that implement it; the
library's state and its proofs; the followers' proofs; storage soundness, elections,
log matching, the absence of panics, leader completeness and what members apply and
store in the cluster as theorems; the language in
its three ports, the linter, the includes; LaunchDarkly's transpiler and push, and
the push's proofs.

Left, in this order:
1. a failing store in `RaftStateMachine::apply`, once the repository says what a
   member should do then;
2. the grammar of whole flagfiles in the three ports, and the formatter's promise
   that it changes no tree.
