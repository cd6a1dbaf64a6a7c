------------------------------- MODULE Lints -------------------------------
(***************************************************************************)
(* What `flagfile lint` warns of (flagfile-cli/src/lint), on the           *)
(* expressions and rules of RustEval.  A flagfile is a sequence of flags,  *)
(* records of a name, rules and requires, and a function from the names of *)
(* its segments to their expressions.  A lint is the set of what it warns  *)
(* of, each thing once.                                                    *)
(***************************************************************************)
EXTENDS Integers, Sequences

\* The nodes of an expression, the lists and values inside them apart.
Children(e) ==
    CASE e[1] \in {"Logic", "Compare", "Match", "Array"} -> <<e[2], e[4]>>
      [] e[1] \in {"Scope", "NullCheck"} -> <<e[2]>>
      [] e[1] \in {"Function", "Percentage"} -> <<e[3]>>
      [] e[1] = "Coalesce" -> e[2]
      [] OTHER -> <<>>
RECURSIVE Nodes(_)
Nodes(e) == {e} \cup UNION {Nodes(Children(e)[i]) : i \in DOMAIN Children(e)}

\* The conditions of rules, those of @env blocks included.
RECURSIVE Conditions(_)
Conditions(rules) ==
    UNION {CASE rules[i][1] = "Expr" -> {rules[i][2]}
             [] rules[i][1] = "Env" -> Conditions(rules[i][3])
             [] OTHER -> {} : i \in DOMAIN rules}
AllNodes(rules) == UNION {Nodes(e) : e \in Conditions(rules)}

----------------------------------------------------------------------------
(* Segments and requirements that call one another *)

\* Mutant of collect_segment_refs: only the first node is looked at.
shallow_refs(e) == IF e[1] = "Segment" THEN {e[2]} ELSE {}

collect_segment_refs(e) == {n[2] : n \in {m \in Nodes(e) : m[1] = "Segment"}}

\* The search goes through a name's dependencies in the order they come in and
\* ends at the first that is still open.  It gives the names visited, and the
\* cycle it closed or none.
RECURSIVE detect_cycle(_, _, _, _), Dependencies(_, _, _, _, _)
Dependencies(todo, name, deps, visited, stack) ==
    IF todo = <<>> THEN <<visited, <<>>>>
    ELSE IF Head(todo) \in stack THEN <<visited, <<name, Head(todo)>>>>
    ELSE LET deeper == IF Head(todo) \in visited THEN <<visited, <<>>>>
                       ELSE detect_cycle(Head(todo), deps, visited, stack)
         IN IF deeper[2] # <<>> THEN <<deeper[1], <<name>> \o deeper[2]>>
            ELSE Dependencies(Tail(todo), name, deps, deeper[1], stack)
detect_cycle(name, deps, visited, stack) ==
    Dependencies(IF name \in DOMAIN deps THEN deps[name] ELSE <<>>,
                 name, deps, visited \cup {name}, stack \cup {name})

\* One search from every name no earlier search has visited.
RECURSIVE Cycles(_, _, _)
Cycles(names, deps, visited) ==
    CASE names = <<>> -> {}
      [] names # <<>> /\ Head(names) \in visited -> Cycles(Tail(names), deps, visited)
      [] OTHER -> LET r == detect_cycle(Head(names), deps, visited, {})
                  IN ({r[2]} \ {<<>>}) \cup Cycles(Tail(names), deps, r[1])

\* Hash maps and sets are gone through in any order: one order of all names.
InOrder(S, order) == SelectSeq(order, LAMBDA n : n \in S)

\* Mutant of circular_segments: a segment that names itself is forgotten.
circular_others(segments, order) ==
    LET deps == [s \in DOMAIN segments |-> InOrder(collect_segment_refs(segments[s]) \ {s}, order)]
    IN Cycles(InOrder(DOMAIN segments, order), deps, {})

circular_segments(segments, order) ==
    LET deps == [s \in DOMAIN segments |-> InOrder(collect_segment_refs(segments[s]), order)]
    IN Cycles(InOrder(DOMAIN segments, order), deps, {})

\* A flag defined twice counts with the last requirements it states.
requires_map(flags) ==
    LET stated == {i \in DOMAIN flags : flags[i].requires # <<>>}
        last(n) == CHOOSE i \in stated : flags[i].name = n /\
                        \A j \in stated : flags[j].name = n => j <= i
    IN [n \in {flags[i].name : i \in stated} |-> flags[last(n)].requires]
circular_deps(flags, order) ==
    Cycles(InOrder(DOMAIN requires_map(flags), order), requires_map(flags), {})

----------------------------------------------------------------------------
(* Names *)

Names(flags) == {flags[i].name : i \in DOMAIN flags}

\* Of all the segments named in rules and in segments.
used(flags, segments) ==
    UNION {collect_segment_refs(e) : e \in UNION {Conditions(flags[i].rules) : i \in DOMAIN flags}}
    \cup UNION {collect_segment_refs(segments[s]) : s \in DOMAIN segments}
undefined_segment(flags, segments) == used(flags, segments) \ DOMAIN segments
unused_segments(flags, segments) == DOMAIN segments \ used(flags, segments)

undefined_requires(flags) ==
    UNION {{r \in {flags[i].requires[k] : k \in DOMAIN flags[i].requires} : r \notin Names(flags)}
           : i \in DOMAIN flags}

Twice(s) == {i \in DOMAIN s : \E j \in 1 .. i - 1 : s[j] = s[i]}
duplicate_flags(flags) == Twice([i \in DOMAIN flags |-> flags[i].name])
duplicate_requires(flag) == Twice(flag.requires)

----------------------------------------------------------------------------
(* The rules of a flag *)

\* Mutant of unreachable_rules: the catch-all itself is counted.
unreachable_too(rules) == {i \in DOMAIN rules : \E j \in 1 .. i : rules[j][1] = "Value"}

unreachable_rules(rules) == {i \in DOMAIN rules : \E j \in 1 .. i - 1 : rules[j][1] = "Value"}

IsCatchAll(rules) == rules # <<>> /\ rules[Len(rules)][1] = "Value"
missing_default(rules) == (\E i \in DOMAIN rules : rules[i][1] # "Value") /\ ~IsCatchAll(rules)
env_missing_default(rules) == (\E i \in DOMAIN rules : rules[i][1] = "Env") /\ ~IsCatchAll(rules)
empty_flag(rules) == rules = <<>>

\* The places of rules whose condition is the constant true.
RECURSIVE tautology(_)
tautology(rules) ==
    UNION {CASE rules[i][1] = "Expr" /\ rules[i][2] = <<"Constant", <<"Boolean", TRUE>>>> -> {<<i>>}
             [] rules[i][1] = "Env" -> {<<i>> \o p : p \in tautology(rules[i][3])}
             [] OTHER -> {} : i \in DOMAIN rules}

\* A second block of an environment at the top of a flag.
shadowed_env_rules(rules) ==
    {i \in DOMAIN rules : rules[i][1] = "Env" /\
        \E j \in 1 .. i - 1 : rules[j][1] = "Env" /\ rules[j][2] = rules[i][2]}

RECURSIVE collect_return_types(_)
collect_return_types(rules) ==
    UNION {CASE rules[i][1] = "Value" -> {rules[i][2][1]}
             [] rules[i][1] = "Expr" -> {rules[i][3][1]}
             [] OTHER -> collect_return_types(rules[i][3]) : i \in DOMAIN rules}
mixed_return_types(rules) ==
    \E t, u \in collect_return_types(rules) : t # u

percentage_range(rules) ==
    {n \in AllNodes(rules) : n[1] = "Percentage" /\ n[2] \notin 0 .. 1000000}
coalesce_constant_first(rules) ==
    {n \in AllNodes(rules) : n[1] = "Coalesce" /\ n[2] # <<>> /\ n[2][1][1] = "Constant"}
redundant_function(rules) ==
    {n \in AllNodes(rules) : n[1] = "Function" /\ n[3][1] = "Function" /\ n[3][2] = n[2]}

----------------------------------------------------------------------------
\* Any warning, whatever its level, fails the command.  The lints of metadata
\* (deprecated, expired, missing_owner, experiment_no_expiry,
\* deprecated_no_expiry) say nothing here: a flag of the model carries none.
run_lint_inner(flags, segments, order) ==
    /\ {} = duplicate_flags(flags) \cup circular_deps(flags, order) \cup
            circular_segments(segments, order) \cup unused_segments(flags, segments) \cup
            undefined_requires(flags) \cup undefined_segment(flags, segments)
    /\ \A i \in DOMAIN flags :
        LET rules == flags[i].rules
        IN /\ {} = unreachable_rules(rules) \cup duplicate_requires(flags[i]) \cup shadowed_env_rules(rules)
           /\ {} = percentage_range(rules) \cup coalesce_constant_first(rules) \cup redundant_function(rules)
           /\ tautology(rules) = {}
           /\ ~(missing_default(rules) \/ env_missing_default(rules) \/ empty_flag(rules) \/
                mixed_return_types(rules))
============================================================================
