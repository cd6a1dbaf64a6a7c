----------------------------- MODULE LdAuthor ------------------------------
(***************************************************************************)
(* An author composes a flag, condition by condition and rule by rule, and *)
(* every Flagfile on the way may be pushed: what LaunchDarkly serves is    *)
(* compared with what the library answers from the same Flagfile.          *)
(***************************************************************************)
EXTENDS LdTranspile, TLC

CONSTANTS
    Transpile(_, _, _),         \* the transpiler, the normal form of a condition, the
    Normal(_, _),               \* library and LaunchDarkly, which are transpile, Dnf, ff
    Library(_, _, _, _, _),     \* and LdServes
    Served(_, _, _, _),
    Leaf,       \* conditions without an operator
    Return,     \* the values the rules may return
    Segments,   \* of each segment defined, its condition
    Required,   \* the choices of a second flag's rules; the first flag requires it
                \* when there are any
    Envs,       \* the environments that are pushed to,
    Blocks,     \* and those of @env blocks
    Contexts,   \* each has all the attributes, of the kinds they are compared with
    MaxTerms,   \* bound on the leaves of the first flag
    MaxRules    \* and on its rules

F == <<"f">>
G == <<"g">>

VARIABLES
    draft,      \* the condition being written, none at first
    rules,      \* the flag's rules so far
    terms,      \* the leaves in draft and rules
    required    \* the rules of the flag it requires

vars == <<draft, rules, terms, required>>

Init ==
    /\ draft = None /\ rules = <<>> /\ terms = 0
    /\ required \in Required

Start(leaf) ==
    /\ draft = None /\ terms < MaxTerms /\ Len(rules) < MaxRules
    /\ draft' = leaf /\ terms' = terms + 1
    /\ UNCHANGED <<rules, required>>

Join(op, leaf) ==
    /\ draft # None /\ terms < MaxTerms
    /\ draft' = <<"Logic", draft, op, leaf>> /\ terms' = terms + 1
    /\ UNCHANGED <<rules, required>>

Negate ==
    /\ draft # None /\ draft[1] # "Scope"
    /\ draft' = <<"Scope", draft, TRUE>>
    /\ UNCHANGED <<rules, terms, required>>

\* In an @env block of its own, or outside of any.
Within(env, rule) == IF env = None THEN rule ELSE <<"Env", env, <<rule>>>>

Rule(v, env) ==
    /\ draft # None
    /\ rules' = Append(rules, Within(env, <<"Expr", draft, v>>)) /\ draft' = None
    /\ UNCHANGED <<terms, required>>

Default(v, env) ==
    /\ draft = None /\ Len(rules) < MaxRules
    /\ rules' = Append(rules, Within(env, <<"Value", v>>))
    /\ UNCHANGED <<draft, terms, required>>

\* The last block is put into one more.
Enclose(env) ==
    /\ draft = None /\ rules # <<>>
    /\ LET last == rules[Len(rules)]
       IN last[1] = "Env" /\ last[3][1][1] # "Env"
    /\ rules' = [rules EXCEPT ![Len(rules)] = <<"Env", env, <<@>>>>]
    /\ UNCHANGED <<draft, terms, required>>

Next ==
    \/ \E leaf \in Leaf : Start(leaf) \/ \E op \in {"And", "Or"} : Join(op, leaf)
    \/ Negate
    \/ \E v \in Return, env \in Blocks \cup {None} : Rule(v, env) \/ Default(v, env)
    \/ \E env \in Blocks : Enclose(env)

Spec == Init /\ [][Next]_vars

Flags ==
    [f \in IF required = None THEN {F} ELSE {F, G} |->
        IF f = F THEN [rules |-> rules, requires |-> IF required = None THEN <<>> ELSE <<G>>]
        ELSE [rules |-> required, requires |-> <<>>]]

\* The file without what is not a rule yet.
Composed == draft = None
Pushed == Transpile(Flags, Segments, Envs)
Answer(ctx, env) == Library(F, ctx, Flags, Segments, env)

----------------------------------------------------------------------------
(* What carries over *)

Rollout(e) == \E i \in DOMAIN Normal(e, Segments) : Rates(Normal(e, Segments)[i]) # {}
\* There is a rollout behind an odd number of negations.
RECURSIVE NegatesRollout(_, _)
NegatesRollout(e, negated) ==
    CASE e[1] = "Percentage" -> negated
      [] e[1] = "Logic" -> NegatesRollout(e[2], negated) \/ NegatesRollout(e[4], negated)
      [] e[1] = "Scope" -> NegatesRollout(e[2], negated # e[3])
      [] OTHER -> FALSE

\* What an environment runs through, in the order of the file.
InFileOrder(env) ==
    LET here(acc, rule) == CASE rule[1] # "Env" -> Append(acc, rule) [] rule[2] = env -> acc \o rule[3] [] OTHER -> acc
    IN Seqs!FoldLeft(here, <<>>, rules)

False == <<"OnOff", FALSE>>
True == <<"OnOff", TRUE>>

\* An order is one of numbers, or of two dates or versions that are not equal ones
\* it includes; a text matches a text, and no pattern.
Represented(leaf) ==
    LET kind == leaf[4][2][1]
    IN CASE leaf[1] = "Compare" /\ leaf[3] \in {"MoreEq", "LessEq"} -> kind \in {"Number", "Float"}
         [] leaf[1] = "Compare" /\ leaf[3] \in {"More", "Less"} -> kind \in {"Number", "Float", "Date", "Semver"}
         [] leaf[1] = "Match" -> kind # "Regex"
         [] OTHER -> TRUE
LeavesRepresented(e) ==
    \A i \in DOMAIN Normal(e, Segments) :
        LET conjunction == Normal(e, Segments)[i]
        IN \A j \in Preds(conjunction) : Represented(conjunction[j][2])

\* The Flagfiles that mean the same in both: conditions LaunchDarkly has operators
\* for, no rule outside of @env after one inside, a bare value only at the end, and a
\* rollout only to true, ANDed with clauses, as the last condition and in front of false.
Conveyed(env) ==
    LET here == partition_env_rules(rules, env)
        needed == IF required = None THEN <<>> ELSE required
    IN /\ \A all \in {here, needed} : \A i \in Conditional(all) : LeavesRepresented(all[i][2])
       /\ here = InFileOrder(env)
       /\ \A i \in Bare(here) : i = Len(here)
       /\ \A i \in Conditional(here) : Rollout(here[i][2]) =>
            /\ Len(Normal(here[i][2], Segments)) = 1 /\ ~NegatesRollout(here[i][2], FALSE)
            /\ here[i][3] = True
            /\ \A j \in (i + 1) .. Len(here) : here[j] = <<"Value", False>>
       /\ required = None \/ synthesize_variations(required)[1] = flag_return_to_value(True)

\* What is served to a context is what was answered, and the off value for nothing.
ServedAs(pushed, env, ctx, answer) ==
    (IF answer = None THEN pushed[F].variations[pushed[F].environments[env].off] ELSE flag_return_to_value(answer))
        \in Served(pushed, F, env, ctx)

\* A pushed flag serves in LaunchDarkly what the library answers, and the off value
\* where it answers nothing; while a rollout is at neither end, one of its two
\* values (transpile, transpile_flag).
TranspiledAnswers ==
    LET pushed == Pushed
    IN Composed /\ pushed # None =>
      \A env \in Envs : Conveyed(env) =>
        \A ctx \in Contexts : ServedAs(pushed, env, ctx, Answer(ctx, env))

\* LaunchDarkly takes no flag with fewer than two variations, two that are equal or
\* of different kinds (synthesize_variations) ...
VariationsWellFormed(variations) ==
    /\ Len(variations) >= 2
    /\ \A i, j \in DOMAIN variations : /\ LdKind(variations[i]) = LdKind(variations[j])
                                       /\ variations[i] = variations[j] => i = j

\* ... and the shares of a rollout are shares and add up to a hundred percent; that
\* of the matched value is the rate the library rolls out to, up to the thousandth
\* it cuts (build_rollout).
RolloutWeights(target) ==
    LET weight(i) == target[2][i][2]
        rates == {leaf[2] : leaf \in {l \in Leaf : l[1] = "Percentage"}}
    IN /\ weight(1) \in 0 .. 100000 /\ weight(1) + weight(2) = 100000
       /\ \E rate \in rates : weight(1) - Threshold(IF rate > 1000000 THEN 1000000 ELSE rate) \in {0, 1}

\* A flag that is pushed is one LaunchDarkly takes, whatever the values its rules
\* return and the rates they roll out to: its variations and rollouts are well
\* formed and every reference is to a variation that is there.
PayloadAccepted ==
    LET pushed == Pushed
    IN Composed /\ pushed # None =>
      \A f \in DOMAIN pushed :
        LET variations == pushed[f].variations
            exists(i) == i \in DOMAIN variations
        IN /\ VariationsWellFormed(variations)
           /\ \A env \in Envs :
                LET e == pushed[f].environments[env]
                IN /\ exists(e.off) /\ exists(e.fallthrough)
                   /\ \A r \in DOMAIN e.rules :
                        LET target == e.rules[r].target
                        IN /\ \A i \in Targets(target) : exists(i)
                           /\ target[1] = "Rollout" => RolloutWeights(target)
============================================================================
