---------------------------- MODULE LdTranspile -----------------------------
(***************************************************************************)
(* Flags in LaunchDarkly's form (src/transpile/launchdarkly.rs): a flag is *)
(* its variations and, for each environment, rules of clauses that are     *)
(* ANDed, a fallthrough and the variation served when it is off.           *)
(*                                                                         *)
(* Expressions, rules and values are those of RustEval.  Variations are    *)
(* numbered from one.  What cannot be represented is an error: of several, *)
(* whether there is one is all that is kept.                               *)
(*                                                                         *)
(* JSON: <<"Bool", b>>, <<"Num", hundredths>>, <<"Text", t>>,              *)
(* <<"Array", values>> and <<"Object", names>>.                            *)
(***************************************************************************)
EXTENDS RustEval

Seqs == INSTANCE SequencesExt

Position(s, v) == CHOOSE i \in DOMAIN s : s[i] = v /\ \A j \in DOMAIN s : s[j] = v => i <= j
Has(s, v) == \E i \in DOMAIN s : s[i] = v
PushUnique(s, v) == IF Has(s, v) THEN s ELSE Append(s, v)

----------------------------------------------------------------------------
(* Variations *)

\* A flag may return JSON of any kind.
flag_return_to_value(ret) ==
    CASE ret[1] = "OnOff" -> <<"Bool", ret[2]>> [] ret[1] = "Integer" -> <<"Num", 100 * ret[2]>>
      [] ret[1] = "Str" -> <<"Text", ret[2]>> [] ret[1] = "Json" -> ret[2]
LdKind(v) ==
    CASE v[1] = "Bool" -> "Boolean" [] v[1] = "Num" -> "Number" [] v[1] = "Text" -> "String" [] OTHER -> "Json"

RECURSIVE walk_returns(_)
walk_returns(rules) ==
    IF rules = <<>> THEN <<>>
    ELSE LET rule == Head(rules)
         IN (CASE rule[1] = "Value" -> <<rule[2]>> [] rule[1] = "Expr" -> <<rule[3]>>
               [] rule[1] = "Env" -> walk_returns(rule[3])) \o walk_returns(Tail(rules))

Placeholders ==
    [String |-> <<<<"Text", <<>>>>, <<"Text", <<"off">>>>>>,
     Number |-> <<<<"Num", 0>>, <<"Num", 100>>>>,
     Json   |-> <<<<"Object", {}>>, <<"Object", {"off"}>>>>]
off_placeholder(kind, existing) == Placeholders[kind][IF Placeholders[kind][1] = existing THEN 2 ELSE 1]

\* Mutant of Padded: the placeholder may be the value itself.
PaddedBlindly(kind, values) ==
    CASE kind = "Boolean" -> PushUnique(PushUnique(values, <<"Bool", TRUE>>), <<"Bool", FALSE>>)
      [] Len(values) < 2  -> PushUnique(values, Placeholders[kind][1])
      [] OTHER            -> values

\* At least two: both booleans, or a placeholder behind the only value.
Padded(kind, values) ==
    CASE kind = "Boolean" -> PushUnique(PushUnique(values, <<"Bool", TRUE>>), <<"Bool", FALSE>>)
      [] Len(values) < 2  -> PushUnique(values, off_placeholder(kind, values[1]))
      [] OTHER            -> values

Values(rules) == LET returns == walk_returns(rules) IN [i \in DOMAIN returns |-> flag_return_to_value(returns[i])]
Kinds(rules) == {LdKind(Values(rules)[i]) : i \in DOMAIN Values(rules)}
Mixed(rules) == \E k, l \in Kinds(rules) : k # l
synthesize_variations(rules) ==
    Padded(IF Kinds(rules) = {} THEN "Boolean" ELSE CHOOSE k \in Kinds(rules) : TRUE,
           Seqs!FoldLeft(PushUnique, <<>>, Values(rules)))

IndexOf(variations, v) == IF Has(variations, v) THEN Position(variations, v) ELSE 1
index_of(variations, ret) == IndexOf(variations, flag_return_to_value(ret))

\* When the flag is off: false, or the first variation.
off_variation(variations) == IndexOf(variations, <<"Bool", FALSE>>)

----------------------------------------------------------------------------
(* Conditions: negations at the leaves, a sequence of conjunctions.        *)
(* Literals: <<"Pred", expression, negate>> or <<"Pct", rate>>.            *)

\* A segment defined in the Flagfile becomes its expression; one that reaches
\* itself is an error, one that is not defined is LaunchDarkly's.
RECURSIVE inline_segments(_, _, _)
inline_segments(e, segments, seen) ==
    CASE e[1] = "Segment" /\ e[2] \in seen -> <<"Recursive">>
      [] e[1] = "Segment" /\ e[2] \in DOMAIN segments \ seen ->
            inline_segments(segments[e[2]], segments, seen \cup {e[2]})
      [] e[1] = "Logic" -> <<"Logic", inline_segments(e[2], segments, seen), e[3],
                                      inline_segments(e[4], segments, seen)>>
      [] e[1] = "Scope" -> <<"Scope", inline_segments(e[2], segments, seen), e[3]>>
      [] OTHER -> e

\* Each term of one with each of the other.
Product(left, right) ==
    [i \in 1 .. Len(left) * Len(right) |->
        left[((i - 1) \div Len(right)) + 1] \o right[((i - 1) % Len(right)) + 1]]

\* Mutant of to_dnf: a negated "and" stays one.
RECURSIVE dnf_without_de_morgan(_, _)
dnf_without_de_morgan(e, negated) ==
    CASE e[1] = "Logic" ->
            LET left == dnf_without_de_morgan(e[2], negated)  right == dnf_without_de_morgan(e[4], negated)
            IN IF e[3] = "And" THEN Product(left, right) ELSE left \o right
      [] e[1] = "Scope" -> dnf_without_de_morgan(e[2], negated # e[3])
      [] e[1] = "Percentage" -> <<<<<<"Pct", e[2]>>>>>>
      [] OTHER -> <<<<<<"Pred", e, negated>>>>>>

\* A negation in front of a rollout is not kept.
RECURSIVE to_dnf(_, _)
to_dnf(e, negated) ==
    CASE e[1] = "Logic" ->
            LET left == to_dnf(e[2], negated)  right == to_dnf(e[4], negated)
            IN IF (e[3] = "And") # negated THEN Product(left, right) ELSE left \o right
      [] e[1] = "Scope" -> to_dnf(e[2], negated # e[3])
      [] e[1] = "Percentage" -> <<<<<<"Pct", e[2]>>>>>>
      [] OTHER -> <<<<<<"Pred", e, negated>>>>>>

----------------------------------------------------------------------------
(* Clauses *)

\* What can be read as the name of an attribute (AstNode::as_str).
IsAttribute(e) == e[1] = "Variable" \/ (e[1] = "Constant" /\ e[2][1] \in {"String", "Variable"})

\* Errors: what has no clause form, and clauses of another shape.
LeafFails(e) ==
    CASE e[1] = "Segment" -> FALSE
      [] e[1] \in {"Compare", "Match"} -> ~IsAttribute(e[2]) \/ e[4][1] \notin {"Constant", "Variable"}
      [] e[1] = "Array" -> ~IsAttribute(e[2]) \/ e[4][1] \notin {"List", "Constant"}
      [] OTHER -> TRUE

\* The parts of a text around two separators.
Thirds(s, sep) ==
    LET seps == {i \in DOMAIN s : s[i] = sep}
    IN {<<SubSeq(s, 1, p[1] - 1), SubSeq(s, p[1] + 1, p[2] - 1), SubSeq(s, p[2] + 1, Len(s))>> :
            p \in {q \in seps \X seps : q[1] < q[2]}}
Digits(s) == s # <<>> /\ \A i \in DOMAIN s : Has(Digit, s[i])
Numeral(s) == Seqs!FoldLeft(LAMBDA n, c : 10 * n + Position(Digit, c) - 1, 0, s)
Triple(s, sep) == LET p == CHOOSE p \in Thirds(s, sep) : TRUE IN [k \in 1 .. 3 |-> Numeral(p[k])]

DaysIn(month, year) ==
    CASE month = 2 -> IF year % 4 = 0 /\ (year % 100 # 0 \/ year % 400 = 0) THEN 29 ELSE 28
      [] month \in {4, 6, 9, 11} -> 30
      [] OTHER -> 31

\* Without the signs and blanks chrono and parse take.
looks_like_date(s) ==
    \E p \in Thirds(s, "-") :
        /\ \A k \in 1 .. 3 : Digits(p[k]) /\ Len(p[k]) <= (IF k = 1 THEN 4 ELSE 2)
        /\ Numeral(p[2]) \in 1 .. 12
        /\ Numeral(p[3]) \in 1 .. DaysIn(Numeral(p[2]), Numeral(p[1]))
looks_like_semver(s) == \E p \in Thirds(s, ".") : \A k \in 1 .. 3 : Digits(p[k]) /\ Numeral(p[k]) <= U32Max

\* Dates, versions and patterns become texts.
RECURSIVE atom_to_value(_)
atom_to_value(a) ==
    CASE a[1] = "Boolean" -> <<"Bool", a[2]>>
      [] a[1] = "Number" -> <<"Num", 100 * a[2]>>
      [] a[1] = "Float" -> <<"Num", a[2]>>
      [] a[1] \in {"String", "Variable", "Regex"} -> <<"Text", a[2]>>
      [] a[1] \in {"Date", "DateTime", "Semver"} -> <<"Text", display(a)>>
      [] a[1] = "List" -> <<"Array", [i \in DOMAIN a[2] |-> atom_to_value(a[2][i])]>>

LdCompare ==
    [Eq |-> "in", NotEq |-> "in", More |-> "greaterThan", Less |-> "lessThan",
     MoreEq |-> "greaterThanOrEqual", LessEq |-> "lessThanOrEqual"]
\* By the shape of the text, quoted or not.  A version is only ever greater or less
\* than another, and "or equal" is for numbers.
map_comparison(op, v) ==
    LET date == v[1] = "Text" /\ looks_like_date(v[2])
        version == v[1] = "Text" /\ looks_like_semver(v[2])
    IN CASE date /\ op = "More" -> "after"
         [] date /\ op = "Less" -> "before"
         [] version /\ op \in {"More", "MoreEq"} -> "semVerGreaterThan"
         [] version /\ op \in {"Less", "LessEq"} -> "semVerLessThan"
         [] OTHER -> LdCompare[op]
map_match(op) ==
    CASE op \in {"Contains", "NotContains"} -> "contains"
      [] op \in {"StartsWith", "NotStartsWith"} -> "startsWith"
      [] op \in {"EndsWith", "NotEndsWith"} -> "endsWith"
Negative == {"NotEq", "NotIn", "NotContains", "NotStartsWith", "NotEndsWith"}

list_values(e) ==
    LET atoms == CASE e[1] = "List" -> e[2]
                   [] e[1] = "Constant" -> IF e[2][1] = "List" THEN e[2][2] ELSE <<e[2]>>
    IN [i \in DOMAIN atoms |-> atom_to_value(atoms[i])]
lower_leaf(e, negate) ==
    IF e[1] = "Segment"
    THEN [attribute |-> <<"key">>, op |-> "segmentMatch", values |-> <<<<"Text", e[2]>>>>, negate |-> negate]
    ELSE [attribute |-> e[2][2][2],
          op |-> CASE e[1] = "Compare" -> map_comparison(e[3], atom_to_value(e[4][2])) [] e[1] = "Match" -> map_match(e[3])
                   [] e[1] = "Array" -> "in",
          values |-> IF e[1] = "Array" THEN list_values(e[4]) ELSE <<atom_to_value(e[4][2])>>,
          negate |-> negate # (e[3] \in Negative)]

----------------------------------------------------------------------------
(* Rules and environments *)

\* Mutant of Weight: a rate of more than a hundred percent is not cut.
WeightUncut(rate) == (rate + 5) \div 10

\* Thousandths of a percent, of a rate in ten thousandths.
Weight(rate) == ((IF rate < 0 THEN 0 ELSE IF rate > 1000000 THEN 1000000 ELSE rate) + 5) \div 10

\* What is left of a hundred percent is served the off variation.
build_rollout(rate, v, variations) ==
    <<"Rollout", <<<<index_of(variations, v), Weight(rate)>>,
                   <<off_variation(variations), 100000 - Weight(rate)>>>>>>

Rates(conjunction) == {i \in DOMAIN conjunction : conjunction[i][1] = "Pct"}
Preds(conjunction) == {i \in DOMAIN conjunction : conjunction[i][1] = "Pred"}

Dnf(e, segments) == to_dnf(inline_segments(e, segments, {}), FALSE)
ConditionFails(e, segments) ==
    \E i \in DOMAIN Dnf(e, segments) :
        LET conjunction == Dnf(e, segments)[i]
        IN \/ \E j \in Preds(conjunction) : LeafFails(conjunction[j][2])
           \/ \E j, k \in Rates(conjunction) : j # k

\* One rule for each conjunction.
lower_condition(e, v, variations, segments) ==
    [i \in DOMAIN Dnf(e, segments) |->
        LET conjunction == Dnf(e, segments)[i]
        IN [clauses |-> {lower_leaf(conjunction[j][2], conjunction[j][3]) : j \in Preds(conjunction)},
            target  |-> IF Rates(conjunction) = {} THEN <<"Variation", index_of(variations, v)>>
                        ELSE build_rollout(conjunction[CHOOSE j \in Rates(conjunction) : TRUE][2], v, variations)]]

\* The rules outside of @env blocks, then those of the environment's blocks.
partition_env_rules(rules, env) ==
    LET base(acc, rule)   == IF rule[1] = "Env" THEN acc ELSE Append(acc, rule)
        blocks(acc, rule) == IF rule[1] = "Env" /\ rule[2] = env THEN acc \o rule[3] ELSE acc
    IN Seqs!FoldLeft(base, <<>>, rules) \o Seqs!FoldLeft(blocks, <<>>, rules)

Conditional(rules) == {i \in DOMAIN rules : rules[i][1] = "Expr"}
Bare(rules) == {i \in DOMAIN rules : rules[i][1] = "Value"}

\* The last bare value is the fallthrough; without one it is the off variation.
lower_environment(rules, variations, segments) ==
    LET lowered(acc, r) == IF r[1] = "Expr" THEN acc \o lower_condition(r[2], r[3], variations, segments) ELSE acc
        off == off_variation(variations)
    IN [rules |-> Seqs!FoldLeft(lowered, <<>>, rules),
        fallthrough |-> IF Bare(rules) = {} THEN off
                        ELSE index_of(variations, rules[CHOOSE i \in Bare(rules) : \A j \in Bare(rules) : j <= i][2]),
        off |-> off]

\* @requires: the first variation, which is taken for true.
lower_prerequisites(requires) == [i \in DOMAIN requires |-> [key |-> requires[i], variation |-> 1]]

TranspileFails(flag, segments, envs) ==
    \/ Mixed(flag.rules)
    \/ \E env \in envs : LET rules == partition_env_rules(flag.rules, env)
                         IN \E i \in Conditional(rules) : ConditionFails(rules[i][2], segments)

\* An @env block inside of another one is taken to be impossible.
TranspilePanics(flag, envs) ==
    /\ ~Mixed(flag.rules)
    /\ \E env \in envs : LET rules == partition_env_rules(flag.rules, env)
                        IN \E i \in DOMAIN rules : rules[i][1] = "Env"

transpile_flag(flag, segments, envs) ==
    LET variations == synthesize_variations(flag.rules)
    IN [variations |-> variations,
        environments |-> [env \in envs |->
            lower_environment(partition_env_rules(flag.rules, env), variations, segments)],
        prerequisites |-> lower_prerequisites(flag.requires)]

\* One flag that fails stops them all.
transpile(flags, segments, envs) ==
    IF \E f \in DOMAIN flags : TranspilePanics(flags[f], envs) \/ TranspileFails(flags[f], segments, envs)
    THEN None
    ELSE [f \in DOMAIN flags |-> transpile_flag(flags[f], segments, envs)]

----------------------------------------------------------------------------
(* What LaunchDarkly does with it, for a context that has the attributes,  *)
(* in JSON.  Its operators answer nothing on values of another type.       *)

Compares(op, v, w) ==
    LET both(kind) == v[1] = kind /\ w[1] = kind
        texts == both("Text")
        numbers == IF both("Num") THEN {Order(v[2], w[2])} ELSE {}
        shaped(Looks(_), sep) ==
            IF texts /\ Looks(v[2]) /\ Looks(w[2]) THEN {Lexicographic(Triple(v[2], sep), Triple(w[2], sep))} ELSE {}
    IN CASE op = "in" -> v = w
         [] op = "greaterThan" -> 1 \in numbers
         [] op = "lessThan" -> -1 \in numbers
         [] op = "greaterThanOrEqual" -> numbers \cap {0, 1} # {}
         [] op = "lessThanOrEqual" -> numbers \cap {-1, 0} # {}
         [] op = "after" -> 1 \in shaped(looks_like_date, "-")
         [] op = "before" -> -1 \in shaped(looks_like_date, "-")
         [] op = "semVerGreaterThan" -> 1 \in shaped(looks_like_semver, ".")
         [] op = "semVerLessThan" -> -1 \in shaped(looks_like_semver, ".")
         [] op = "contains" -> texts /\ Contains(v[2], w[2])
         [] op = "startsWith" -> texts /\ StartsWith(v[2], w[2])
         [] op = "endsWith" -> texts /\ EndsWith(v[2], w[2])
         [] OTHER -> FALSE
ClauseMatches(c, ctx) ==
    (\E i \in DOMAIN c.values :
        c.attribute \in DOMAIN ctx /\ Compares(c.op, atom_to_value(ctx[c.attribute]), c.values[i])) # c.negate

\* The variations a target may serve.
Targets(t) == IF t[1] = "Variation" THEN {t[2]} ELSE {t[2][i][1] : i \in {j \in DOMAIN t[2] : t[2][j][2] > 0}}

\* The first rule that matches decides; a flag whose prerequisites do not hold is off.
RECURSIVE LdServes(_, _, _, _)
LdServes(flags, f, env, ctx) ==
    LET flag == flags[f]
        e == flag.environments[env]
        matching == {i \in DOMAIN e.rules : \A c \in e.rules[i].clauses : ClauseMatches(c, ctx)}
        met(p) == p.key \in DOMAIN flags /\ LdServes(flags, p.key, env, ctx) = {flags[p.key].variations[p.variation]}
        served == IF \E i \in DOMAIN flag.prerequisites : ~met(flag.prerequisites[i]) THEN {e.off}
                  ELSE IF matching = {} THEN {e.fallthrough}
                  ELSE Targets(e.rules[CHOOSE i \in matching : \A j \in matching : i <= j].target)
    IN {flag.variations[i] : i \in served}
=============================================================================
