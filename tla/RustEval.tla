----------------------------- MODULE RustEval ------------------------------
(***************************************************************************)
(* Values, expressions and rules as the Rust library evaluates them        *)
(* (src/ast.rs, src/eval.rs, src/lib.rs), and the copy of the rules' loop  *)
(* the server answers with (routes.rs).                                    *)
(*                                                                         *)
(* Values (atoms) and expressions are tuples that begin with the name of   *)
(* their variant; an absent value is None.  An expression is "yes", "no",  *)
(* or "overflow" when its segments call one another without end.  A text   *)
(* is a sequence of characters, a float its number of hundredths.          *)
(***************************************************************************)
EXTENDS Texts

CONSTANTS Digest(_),     \* a text to <<high, low>>: the first 60 bits of its
                         \* SHA-1 are high * 128 + low, high modulo 100000
          LocalNow,      \* the clock, a day and an hour
          U32Max

None == <<>>
Overflow == <<"overflow">>

----------------------------------------------------------------------------
(* Values *)

float_to_semver(h) ==
    IF h < 0 \/ WholePart(h) > U32Max THEN None ELSE <<WholePart(h), MinorOf(h), 0>>

\* A number as the version of its major part; none for a negative one.
NumberToSemver(n) == IF n < 0 THEN None ELSE <<n, 0, 0>>

RECURSIVE eq(_, _)
eq(a, b) ==
    LET kinds == <<a[1], b[1]>>
        names == {"String", "Variable"}
    IN CASE kinds \in names \X names -> a[2] = b[2]
         [] a[1] = b[1] /\ a[1] \in {"Number", "Float", "Boolean", "Date", "Semver", "Regex"} -> a[2] = b[2]
         [] kinds = <<"DateTime", "DateTime">> -> a = b
         [] kinds = <<"DateTime", "Date">> -> a[2] = b[2] /\ a[3] = 0
         [] kinds = <<"Date", "DateTime">> -> a[2] = b[2] /\ b[3] = 0
         [] kinds = <<"Semver", "Float">> -> float_to_semver(b[2]) = a[2]
         [] kinds = <<"Float", "Semver">> -> float_to_semver(a[2]) = b[2]
         [] kinds = <<"Semver", "Number">> -> NumberToSemver(b[2]) = a[2]
         [] kinds = <<"Number", "Semver">> -> NumberToSemver(a[2]) = b[2]
         [] kinds = <<"List", "List">> ->
                Len(a[2]) = Len(b[2]) /\ \A i \in DOMAIN a[2] : eq(a[2][i], b[2][i])
         [] OTHER -> FALSE

\* The order of two values, and none for values that are not compared.
Versions(u, v) == IF None \in {u, v} THEN {} ELSE {Lexicographic(u, v)}
Instant(a) == IF a[1] = "Date" THEN <<a[2], 0>> ELSE <<a[2], a[3]>>
partial_cmp(a, b) ==
    LET kinds == <<a[1], b[1]>>
        days == {"Date", "DateTime"}
        hundredths(x) == IF x[1] = "Number" THEN x[2] * 100 ELSE x[2]
        version(x) == CASE x[1] = "Semver" -> x[2]
                        [] x[1] = "Float" -> float_to_semver(x[2])
                        [] x[1] = "Number" -> NumberToSemver(x[2])
    IN CASE kinds \in {"Number", "Float"} \X {"Number", "Float"} -> {Order(hundredths(a), hundredths(b))}
         [] kinds \in days \X days -> {Lexicographic(Instant(a), Instant(b))}
         [] \/ a[1] = "Semver" /\ b[1] \in {"Semver", "Float", "Number"}
            \/ b[1] = "Semver" /\ a[1] \in {"Float", "Number"} -> Versions(version(a), version(b))
         [] OTHER -> {}

\* The text of a value; a date and its time are a blank apart.
RECURSIVE display(_)
display(a) ==
    CASE a[1] \in {"String", "Variable"} -> a[2]
      [] a[1] = "Number" -> Decimal(a[2])
      [] a[1] = "Float" -> ShortestFloat(a[2])
      [] a[1] = "Boolean" -> IF a[2] THEN <<"true">> ELSE <<"false">>
      [] a[1] = "Date" -> DateText(a[2])
      [] a[1] = "DateTime" -> DateText(a[2]) \o <<" ">> \o Two(a[3])
      [] a[1] = "Semver" -> Joined([i \in 1 .. 3 |-> Decimal(a[2][i])], <<".">>)
      [] a[1] = "Regex" -> <<"/">> \o a[2] \o <<"/">>
      [] a[1] = "List" -> <<"[">> \o Joined([i \in DOMAIN a[2] |-> display(a[2][i])], <<",", " ">>) \o <<"]">>

----------------------------------------------------------------------------
(* Expressions *)

Lookup(name, ctx) == IF name \in DOMAIN ctx THEN ctx[name] ELSE None

\* coalesce: the first constant, or the first variable that has a value.
Coalesced(args, ctx) ==
    LET value(i) == IF args[i][1] = "Constant" THEN args[i][2] ELSE Lookup(args[i][2][2], ctx)
        given == {i \in DOMAIN args : value(i) # None}
    IN IF given = {} THEN None ELSE value(CHOOSE i \in given : \A j \in given : i <= j)

RECURSIVE get_variable_value_from_context(_, _)
get_variable_value_from_context(v, ctx) ==
    CASE v[1] \in {"Variable", "Constant"} ->
            IF v[2][1] = "Variable" THEN Lookup(v[2][2], ctx) ELSE None
      [] v[1] = "Function" ->
            IF v[2] = "Now" THEN <<"DateTime", LocalNow[1], LocalNow[2]>>
            ELSE LET x == get_variable_value_from_context(v[3], ctx)
                 IN IF x = None THEN None
                    ELSE <<"String", IF v[2] = "Upper" THEN ToUpper(display(x)) ELSE ToLower(display(x))>>
      [] v[1] = "Coalesce" -> Coalesced(v[2], ctx)
      [] OTHER -> None

Truth(b) == IF b THEN "yes" ELSE "no"

EvalConstant(e, ctx) ==
    LET a == e[2]
        value == IF a[1] = "Variable" THEN get_variable_value_from_context(e, ctx) ELSE a
    IN value # None /\ value[1] = "Boolean" /\ value[2]

EvalCompare(e, ctx) ==
    LET value == get_variable_value_from_context(e[2], ctx)
        constant == e[4][2]
        holds(Test(_)) == \E o \in partial_cmp(value, constant) : Test(o)
    IN /\ value # None
       /\ CASE e[3] = "Eq" -> eq(value, constant)
            [] e[3] = "NotEq" -> ~eq(value, constant)
            [] e[3] = "More" -> holds(LAMBDA o : o > 0)
            [] e[3] = "MoreEq" -> holds(LAMBDA o : o >= 0)
            [] e[3] = "Less" -> holds(LAMBDA o : o < 0)
            [] e[3] = "LessEq" -> holds(LAMBDA o : o <= 0)

\* "variable in (list)", or "value in variable" when the variable is a list.
EvalArray(e, ctx) ==
    LET searched == IF e[4][1] # "List" /\ e[2][1] = "Constant" /\ e[2][2][1] # "Variable"
                    THEN e[2][2] ELSE get_variable_value_from_context(e[2], ctx)
        list == IF e[4][1] = "List" THEN e[4] ELSE get_variable_value_from_context(e[4], ctx)
    IN /\ searched # None
       /\ list # None /\ list[1] = "List"
       /\ (e[3] = "In") = (\E i \in DOMAIN list[2] : eq(searched, list[2][i]))

\* A regular expression answers only the two operators without an anchor.
EvalMatch(e, ctx) ==
    LET value == get_variable_value_from_context(e[2], ctx)
        text == display(value)
        right == e[4][2]
        needle == display(right)
    IN /\ value # None
       /\ IF right[1] = "Regex"
          THEN CASE e[3] = "Contains" -> Finds(right[2], text)
                 [] e[3] = "NotContains" -> ~Finds(right[2], text)
                 [] OTHER -> FALSE
          ELSE CASE e[3] = "Contains" -> Contains(text, needle)
                 [] e[3] = "NotContains" -> ~Contains(text, needle)
                 [] e[3] = "StartsWith" -> StartsWith(text, needle)
                 [] e[3] = "NotStartsWith" -> ~StartsWith(text, needle)
                 [] e[3] = "EndsWith" -> EndsWith(text, needle)
                 [] e[3] = "NotEndsWith" -> ~EndsWith(text, needle)

EvalNullCheck(e, ctx) == (get_variable_value_from_context(e[2], ctx) = None) = e[3]

\* The hashed text, a u64 bucket, and the threshold: a cast to u64 cuts the
\* decimals and takes a negative rate to 0.
HashInput(flag, salt, key) ==
    flag \o <<".">> \o (IF salt = None THEN <<>> ELSE salt[1] \o <<".">>) \o key
Bucket(digest) == (digest[1] * 128 + digest[2]) % 100000

\* Mutant of Threshold: it keeps sixteen bits.
ShortThreshold(rate) == IF rate < 0 THEN 0 ELSE (rate \div 10) % 65536

Threshold(rate) == IF rate < 0 THEN 0 ELSE rate \div 10
EvalPercentage(e, ctx, flag) ==
    LET key == get_variable_value_from_context(e[3], ctx)
    IN /\ key # None
       /\ Bucket(Digest(HashInput(flag, e[4], display(key)))) < Threshold(e[2])

\* Both sides of an operator are evaluated, whatever the first one gives.
Both(l, op, r) ==
    IF "overflow" \in {l, r} THEN "overflow"
    ELSE Truth(IF op = "And" THEN l = "yes" /\ r = "yes" ELSE l = "yes" \/ r = "yes")
Negated(r) == CASE r = "yes" -> "no" [] r = "no" -> "yes" [] OTHER -> r

\* open holds the segments being evaluated: one of them again never ends.
RECURSIVE eval_impl(_, _, _, _, _)
eval_impl(e, ctx, flag, segments, open) ==
    CASE e[1] = "Constant" -> Truth(EvalConstant(e, ctx))
      [] e[1] = "Compare" -> Truth(EvalCompare(e, ctx))
      [] e[1] = "Array" -> Truth(EvalArray(e, ctx))
      [] e[1] = "Match" -> Truth(EvalMatch(e, ctx))
      [] e[1] = "NullCheck" -> Truth(EvalNullCheck(e, ctx))
      [] e[1] = "Percentage" -> Truth(EvalPercentage(e, ctx, flag))
      [] e[1] = "Logic" -> Both(eval_impl(e[2], ctx, flag, segments, open), e[3],
                                eval_impl(e[4], ctx, flag, segments, open))
      [] e[1] = "Scope" -> LET r == eval_impl(e[2], ctx, flag, segments, open)
                           IN IF e[3] THEN Negated(r) ELSE r
      [] e[1] = "Segment" ->
            IF e[2] \notin DOMAIN segments THEN "no"
            ELSE IF e[2] \in open THEN "overflow"
            ELSE eval_impl(segments[e[2]], ctx, flag, segments, open \cup {e[2]})
      [] OTHER -> "no"

eval_with_segments(e, ctx, flag, segments) == eval_impl(e, ctx, flag, segments, {})

----------------------------------------------------------------------------
(* Rules: <<"Value", v>>, <<"Expr", e, v>> or <<"Env", name, rules>>.      *)
(* A flag has rules and the flags it requires.                             *)

RECURSIVE evaluate_rules(_, _, _, _, _)
evaluate_rules(rules, ctx, flag, segments, env) ==
    IF rules = <<>> THEN None
    ELSE LET rule == Head(rules)
             first ==
                CASE rule[1] = "Value" -> rule[2]
                  [] rule[1] = "Expr" ->
                        LET r == eval_with_segments(rule[2], ctx, flag, segments)
                        IN CASE r = "yes" -> rule[3] [] r = "no" -> None [] OTHER -> Overflow
                  [] rule[1] = "Env" ->
                        IF env = rule[2] THEN evaluate_rules(rule[3], ctx, flag, segments, env) ELSE None
         IN IF first = None THEN evaluate_rules(Tail(rules), ctx, flag, segments, env) ELSE first

\* The first required flag that is not on ends the evaluation with nothing.
ff(flag, ctx, flags, segments, env) ==
    LET requires == IF flag \in DOMAIN flags THEN flags[flag].requires ELSE <<>>
        value(f) == IF f \in DOMAIN flags THEN evaluate_rules(flags[f].rules, ctx, f, segments, env) ELSE None
        unmet == {i \in DOMAIN requires : value(requires[i]) # <<"OnOff", TRUE>>}
        first == CHOOSE i \in unmet : \A j \in unmet : i <= j
    IN IF unmet = {} THEN value(flag)
       ELSE IF value(requires[first]) = Overflow THEN Overflow ELSE None

(* The server's copy, which also tells why. *)

RECURSIVE evaluate_rules_with_reason(_, _, _, _, _)
evaluate_rules_with_reason(rules, ctx, flag, segments, env) ==
    IF rules = <<>> THEN None
    ELSE LET rule == Head(rules)
             rest == evaluate_rules_with_reason(Tail(rules), ctx, flag, segments, env)
         IN CASE rule[1] = "Value" -> <<rule[2], "DEFAULT">>
              [] rule[1] = "Expr" ->
                    LET r == eval_with_segments(rule[2], ctx, flag, segments)
                    IN CASE r = "yes" -> <<rule[3], "TARGETING_MATCH">> [] r = "no" -> rest [] OTHER -> Overflow
              [] rule[1] = "Env" /\ env = rule[2] ->
                    LET inner == evaluate_rules_with_reason(rule[3], ctx, flag, segments, env)
                    IN IF inner = None THEN rest ELSE inner
              [] OTHER -> rest

\* Mutant of evaluate_flag_with_reason: the requirements are not looked at.
flag_alone_with_reason(flag, ctx, flags, segments, env) ==
    IF flag \in DOMAIN flags THEN evaluate_rules_with_reason(flags[flag].rules, ctx, flag, segments, env) ELSE None

evaluate_flag_with_reason(flag, ctx, flags, segments, env) ==
    LET requires == IF flag \in DOMAIN flags THEN flags[flag].requires ELSE <<>>
        value(f) == IF f \in DOMAIN flags THEN evaluate_rules_with_reason(flags[f].rules, ctx, f, segments, env) ELSE None
        on(v) == Len(v) = 2 /\ v[1] = <<"OnOff", TRUE>>
        unmet == {i \in DOMAIN requires : ~on(value(requires[i]))}
        first == CHOOSE i \in unmet : \A j \in unmet : i <= j
    IN IF unmet = {} THEN value(flag)
       ELSE IF value(requires[first]) = Overflow THEN Overflow ELSE None
============================================================================
