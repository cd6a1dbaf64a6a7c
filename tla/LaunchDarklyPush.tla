---------------------------- MODULE LaunchDarklyPush ----------------------------
(***************************************************************************)
(* `ff push --launchdarkly` (flagfile-cli/src/push_launchdarkly.rs): every  *)
(* flag of a Flagfile is read from LaunchDarkly and created or patched, one *)
(* request after the other, while other pushes run and people use its UI.   *)
(*                                                                         *)
(* What the transpiler wants of a flag is its variations' values, without  *)
(* duplicates, and for each environment the variation it serves: one       *)
(* reference stands for those of its rules, fallthrough and offVariation,  *)
(* which are all remapped alike.                                           *)
(***************************************************************************)
EXTENDS Integers, Sequences, FiniteSets

CONSTANTS Flag, Env, Value,
          Push,         \* runs of the command
          Wants,        \* [Push -> what it pushes: [a set of flags -> Wanted]]
          Only,         \* [Push -> the environments it is narrowed to; Env without --env]
          DryRun,       \* the pushes given --dry-run
          Before,       \* the values of the flags that are there at the beginning, of
                        \* which every environment serves the first
          MaxFailures,  \* bound on requests that fail
          MaxToggles    \* bound on the clicks in the UI

Distinct(s) == \A i, j \in DOMAIN s : s[i] = s[j] => i = j

Wanted == {w \in [values : Seq(Value), serve : [Env -> Nat]] :
             Distinct(w.values) /\ \A e \in Env : w.serve[e] \in DOMAIN w.values}

ASSUME PushesAssumption ==
    /\ DOMAIN Wants = Push /\ Only \in [Push -> SUBSET Env] /\ DryRun \subseteq Push
    /\ \A p \in Push : /\ DOMAIN Wants[p] \subseteq Flag
                       /\ \A f \in DOMAIN Wants[p] : Wants[p][f].values \in Seq(Value)
                                                     /\ Wants[p][f].serve \in [Env -> Nat]
                                                     /\ Distinct(Wants[p][f].values)
                                                     /\ \A e \in Env : Wants[p][f].serve[e]
                                                                       \in DOMAIN Wants[p][f].values
    /\ Before \in Seq(Value) /\ Before # <<>>
    /\ MaxFailures \in Nat /\ MaxToggles \in Nat

VARIABLES
    ld,         \* [Flag -> what LaunchDarkly holds of it]
    push,       \* [Push -> how far it is, and with which flag]
    failures, toggles,
    killed,     \* history: the <<flag, environment>> a person turned off, and left off
    stale       \* history: the <<push, flag>> overtaken by a push of another Flagfile

vars == <<ld, push, failures, toggles, killed, stale>>

Absent   == [exists |-> FALSE, values |-> <<>>, on |-> {}, serve |-> [e \in Env |-> 1]]
FlagsOf(p) == DOMAIN Wants[p]
Scope(p) == Only[p]
At(p, pc)  == push[p].pc = pc
Want(p)    == Wants[p][push[p].flag]
Live(p)    == ld[push[p].flag]

Init ==
    /\ ld \in [Flag -> {Absent, [Absent EXCEPT !.exists = TRUE, !.values = Before]}]
    /\ \E flag \in Flag :
         push = [p \in Push |-> [pc |-> "start", flag |-> flag, live |-> <<>>, fresh |-> FALSE,
                                 result |-> [f \in Flag |-> "none"]]]
    /\ failures = 0 /\ toggles = 0 /\ killed = {} /\ stale = {}
-----------------------------------------------------------------------------
(***************************************************************************)
(* build_flag_patch: what is referred to is looked up, by value, in the    *)
(* live values followed by the missing ones.                               *)
(***************************************************************************)
Has(s, v)          == \E i \in DOMAIN s : s[i] = v
Missing(live, ws)  == {k \in DOMAIN ws : ~Has(live, ws[k])}
Nth(S, j)          == CHOOSE k \in S : Cardinality({i \in S : i <= k}) = j
Appended(live, ws) ==
    LET new == Missing(live, ws) IN [j \in 1..Cardinality(new) |-> ws[Nth(new, j)]]
mapped(live, ws)   == live \o Appended(live, ws)

Position(s, v) == CHOOSE i \in DOMAIN s : s[i] = v /\ \A j \in DOMAIN s : s[j] = v => i <= j
\* Mutant of live_index: the local index is sent.
local_index(live, w, k) == k

live_index(live, w, k) == Position(mapped(live, w.values), w.values[k])

-----------------------------------------------------------------------------
(***************************************************************************)
(* LaunchDarkly, on each of the three requests that write.                 *)
(***************************************************************************)
Created(p) ==
    IF Live(p).exists THEN ld
    ELSE [ld EXCEPT ![push[p].flag] = [Absent EXCEPT !.exists = TRUE, !.values = Want(p).values]]

\* Mutant of Extended: the patch of the variations is left out.
NotExtended(p) == ld

Extended(p) ==
    [ld EXCEPT ![push[p].flag].values = @ \o Appended(push[p].live, Want(p).values)]

\* Mutant of Targeted: `on` is set whenever targeting is.
TargetedOn(p) ==
    [ld EXCEPT ![push[p].flag].on = @ \cup Scope(p),
               ![push[p].flag].serve = [e \in Env |->
                   IF e \in Scope(p) THEN live_index(push[p].live, Want(p), Want(p).serve[e])
                   ELSE @[e]]]

\* Mutant of Targeted: --env is forgotten.
TargetedEverywhere(p) ==
    [ld EXCEPT ![push[p].flag].on = IF push[p].fresh THEN Env ELSE @,
               ![push[p].flag].serve = [e \in Env |->
                   live_index(push[p].live, Want(p), Want(p).serve[e])]]

\* `on` is only set for a flag this push created.
Targeted(p) ==
    [ld EXCEPT ![push[p].flag].on = IF push[p].fresh THEN @ \cup Scope(p) ELSE @,
               ![push[p].flag].serve = [e \in Env |->
                   IF e \in Scope(p) THEN live_index(push[p].live, Want(p), Want(p).serve[e])
                   ELSE @[e]]]
-----------------------------------------------------------------------------
(***************************************************************************)
(* push: the loop over the flags, and sync_flag.                           *)
(***************************************************************************)
ui == <<toggles, killed>>

Goto(p, pc)   == push' = [push EXCEPT ![p].pc = pc]
Settle(p, r)  == push' = [push EXCEPT ![p].pc = "next", ![p].result[push[p].flag] = r]

\* q has read f; what another push writes to f from now on, it does not know.
HasRead(q, f) ==
    push[q].result[f] # "none" \/ (push[q].flag = f /\ push[q].pc \in {"create", "vars", "target"})

\* p writes to its flag: pushes of another Flagfile are overtaken.
Overtaken(p) ==
    LET f == push[p].flag IN
    {<<q, f>> : q \in {r \in Push \ {p} : /\ f \in FlagsOf(r) /\ HasRead(r, f)
                                          /\ Wants[r][f] # Wants[p][f] \/ <<p, f>> \in stale}}

\* Nothing is sent: no project, token or environments, a Flagfile that does not
\* parse, a flag that cannot be transpiled.
Refuse(p) ==
    /\ At(p, "start") /\ Goto(p, "ended")
    /\ UNCHANGED <<ld, failures, ui, stale>>

Begin(p) ==
    /\ At(p, "start") /\ Goto(p, "next")
    /\ UNCHANGED <<ld, failures, ui, stale>>

SyncFlag(p, f) ==
    /\ At(p, "next") /\ push[p].result[f] = "none"
    /\ push' = [push EXCEPT ![p].pc = "get", ![p].flag = f]
    /\ UNCHANGED <<ld, failures, ui, stale>>

\* The exit code tells whether a flag failed.
End(p) ==
    /\ At(p, "next") /\ \A f \in FlagsOf(p) : push[p].result[f] # "none"
    /\ Goto(p, "ended")
    /\ UNCHANGED <<ld, failures, ui, stale>>

\* get_flag: a dry run prints its plan, or that --env is not configured ...
Plan(p) ==
    /\ At(p, "get") /\ p \in DryRun
    /\ Settle(p, IF Scope(p) = {} THEN "failed"
                 ELSE IF Live(p).exists THEN "would update" ELSE "would create")
    /\ UNCHANGED <<ld, failures, ui, stale>>

\* ... an update finds that out before it sends anything ...
NotConfigured(p) ==
    /\ At(p, "get") /\ p \notin DryRun /\ Live(p).exists /\ Scope(p) = {}
    /\ Settle(p, "failed")
    /\ UNCHANGED <<ld, failures, ui, stale>>

\* ... and the values, in LaunchDarkly's order, are kept for the patch.
Get(p) ==
    /\ At(p, "get") /\ p \notin DryRun /\ (Live(p).exists => Scope(p) # {})
    /\ LET live == IF Live(p).exists THEN Live(p).values ELSE Want(p).values IN
       push' = [push EXCEPT ![p].pc = IF ~Live(p).exists THEN "create"
                                      ELSE IF Missing(live, Want(p).values) # {} THEN "vars"
                                      ELSE "target",
                            ![p].live = live, ![p].fresh = ~Live(p).exists]
    /\ UNCHANGED <<ld, failures, ui, stale>>

\* Mutant of CreateConflicts: a flag that is already there is taken for created.
ConflictIgnored(p) ==
    /\ At(p, "create") /\ Live(p).exists
    /\ Goto(p, "target")
    /\ UNCHANGED <<ld, failures, ui, stale>>

\* create_flag: another push was faster (409).
CreateConflicts(p) ==
    /\ At(p, "create") /\ Live(p).exists
    /\ Settle(p, "failed")
    /\ UNCHANGED <<ld, failures, ui, stale>>

\* A flag is created even if build_flag_patch then finds --env not configured.
Create(p) ==
    /\ At(p, "create") /\ ~Live(p).exists
    /\ ld' = Created(p) /\ stale' = stale \cup Overtaken(p)
    /\ IF Scope(p) = {} THEN Settle(p, "failed") ELSE Goto(p, "target")
    /\ UNCHANGED <<failures, ui>>

\* patch_flag: the variations, then the rest.
AddValues(p) ==
    /\ At(p, "vars")
    /\ ld' = Extended(p) /\ stale' = stale \cup Overtaken(p)
    /\ Goto(p, "target")
    /\ UNCHANGED <<failures, ui>>

Target(p) ==
    /\ At(p, "target")
    /\ ld' = Targeted(p) /\ stale' = stale \cup Overtaken(p)
    /\ Settle(p, IF push[p].fresh THEN "created" ELSE "updated")
    /\ UNCHANGED <<failures, ui>>

\* A request that writes has its effect, and its answer is lost.
AnswerLost(p) ==
    /\ failures < MaxFailures /\ failures' = failures + 1
    /\ \/ At(p, "create") /\ ld' = Created(p)
       \/ At(p, "vars")   /\ ld' = Extended(p)
       \/ At(p, "target") /\ ld' = Targeted(p)
    /\ stale' = stale \cup Overtaken(p)
    /\ Settle(p, "failed")
    /\ UNCHANGED ui

\* A request has no effect: the network, a 401, a 5xx.
RequestFails(p) ==
    /\ push[p].pc \in {"get", "create", "vars", "target"}
    /\ failures < MaxFailures /\ failures' = failures + 1
    /\ Settle(p, "failed")
    /\ UNCHANGED <<ld, ui, stale>>

PushStep(p) ==
    \/ Refuse(p) \/ Begin(p) \/ (\E f \in FlagsOf(p) : SyncFlag(p, f)) \/ End(p)
    \/ Plan(p) \/ NotConfigured(p) \/ Get(p)
    \/ Create(p) \/ CreateConflicts(p) \/ AddValues(p) \/ Target(p)
    \/ AnswerLost(p) \/ RequestFails(p)
-----------------------------------------------------------------------------
\* A push has created the flag and is about to enable it.
Enabling(f) == \E p \in Push : At(p, "target") /\ push[p].flag = f /\ push[p].fresh

\* A person turns a flag on or off in an environment.  Turning off what is still
\* being created is not taken for a kill switch.
Toggle(f, e) ==
    /\ ld[f].exists /\ toggles < MaxToggles /\ toggles' = toggles + 1
    /\ IF e \in ld[f].on
       THEN /\ ld' = [ld EXCEPT ![f].on = @ \ {e}]
            /\ killed' = IF Enabling(f) THEN killed ELSE killed \cup {<<f, e>>}
       ELSE /\ ld' = [ld EXCEPT ![f].on = @ \cup {e}]
            /\ killed' = killed \ {<<f, e>>}
    /\ UNCHANGED <<push, failures, stale>>

Next ==
    \/ \E p \in Push : PushStep(p)
    \/ \E f \in Flag, e \in Env : Toggle(f, e)

Spec == Init /\ [][Next]_vars
-----------------------------------------------------------------------------
(***************************************************************************)
(* Properties.                                                             *)
(***************************************************************************)
Serves(f, e) == ld[f].values[ld[f].serve[e]]

TypeOK ==
    /\ ld \in [Flag -> [exists : BOOLEAN, values : Seq(Value), on : SUBSET Env, serve : [Env -> Nat]]]
    /\ \A f \in Flag : ld[f].exists => \A e \in Env : ld[f].serve[e] \in DOMAIN ld[f].values
    /\ push \in [Push -> [pc : {"start", "next", "get", "create", "vars", "target", "ended"},
                          flag : Flag, live : Seq(Value), fresh : BOOLEAN,
                          result : [Flag -> {"none", "failed", "created", "updated",
                                             "would create", "would update"}]]]
    /\ failures \in 0..MaxFailures /\ toggles \in 0..MaxToggles
    /\ killed \subseteq Flag \X Env /\ stale \subseteq Push \X Flag

\* Once a flag is reported created or updated, every environment of the push
\* serves the value the Flagfile says, in whatever order LaunchDarkly has the
\* variations and whoever else pushes the same Flagfile or retries it, until a
\* push of another Flagfile overtakes it ("so it stays correct even if the
\* Flagfile reordered or changed its returns", build_flag_patch).
TargetingByValue ==
    \A p \in Push : \A f \in FlagsOf(p) :
        push[p].result[f] \in {"created", "updated"} /\ <<p, f>> \notin stale =>
            \A e \in Scope(p) : Serves(f, e) = Wants[p][f].values[Wants[p][f].serve[e]]

\* A kill switch a person has thrown stays thrown, whatever is pushed, retried
\* or pushed at once ("a kill-switch toggled in the LD UI must survive the push").
KillSwitchSurvives == \A f \in Flag, e \in Env : <<f, e>> \in killed => e \notin ld[f].on

\* What an environment serves is only changed by the targeting of a push that is
\* for this environment, never by the variations one adds for another, whichever
\* values it had read ("so other environments' index-based targeting keeps working").
OthersKeepServing ==
    [][\A f \in Flag, e \in Env :
         ld[f].exists /\ Serves(f, e)' # Serves(f, e) =>
            \E p \in Push : e \in Scope(p) /\ At(p, "target") /\ push[p].flag = f]_vars
================================================================================
