------------------------------ MODULE TsEval -------------------------------
(***************************************************************************)
(* Values, expressions and rules as the TypeScript package evaluates them  *)
(* (flagfile-ts/src/ast.ts, eval.ts, index.ts), on the tuples of RustEval. *)
(***************************************************************************)
EXTENDS Texts

CONSTANTS Digest(_),     \* as in RustEval
          LocalNow       \* the clock, a day and an hour

None == <<>>
Overflow == <<"overflow">>

----------------------------------------------------------------------------
(* Values *)

\* parseInt of what is before and after the point, a sign included.
floatToSemver(h) ==
    CASE Decimals(h) = <<>> -> IF h < 0 THEN None ELSE <<WholePart(h), 0, 0>>
      [] OTHER -> <<IF h < 0 THEN 0 - WholePart(h) ELSE WholePart(h), MinorOf(h), 0>>

version(a) ==
    CASE a[1] = "Semver" -> a[2]
      [] a[1] = "Float" -> floatToSemver(a[2])
      [] a[1] = "Number" -> IF a[2] < 0 THEN None ELSE <<a[2], 0, 0>>

\* A date is compared with a date and a time as its midnight.
Normalized(a) == IF a[1] = "Date" THEN <<a[2], 0>> ELSE <<a[2], a[3]>>

RECURSIVE atomEquals(_, _)
atomEquals(a, b) ==
    LET kinds == <<a[1], b[1]>>
    IN CASE kinds \in {"String", "Variable"} \X {"String", "Variable"} -> a[2] = b[2]
         [] a[1] = b[1] /\ a[1] \in {"Number", "Float", "Boolean", "Regex"} -> a[2] = b[2]
         [] kinds \in {"Date", "DateTime"} \X {"Date", "DateTime"} -> Normalized(a) = Normalized(b)
         [] kinds = <<"List", "List">> ->
                Len(a[2]) = Len(b[2]) /\ \A i \in DOMAIN a[2] : atomEquals(a[2][i], b[2][i])
         [] \/ a[1] = "Semver" /\ b[1] \in {"Semver", "Float", "Number"}
            \/ b[1] = "Semver" /\ a[1] \in {"Float", "Number"} ->
                version(a) # None /\ version(a) = version(b)
         [] OTHER -> FALSE

atomCompare(a, b) ==
    LET kinds == <<a[1], b[1]>>
        hundredths(x) == IF x[1] = "Number" THEN x[2] * 100 ELSE x[2]
    IN CASE kinds \in {"Number", "Float"} \X {"Number", "Float"} -> {Order(hundredths(a), hundredths(b))}
         [] kinds \in {"Date", "DateTime"} \X {"Date", "DateTime"} ->
                {Lexicographic(Normalized(a), Normalized(b))}
         [] \/ a[1] = "Semver" /\ b[1] \in {"Semver", "Float", "Number"}
            \/ b[1] = "Semver" /\ a[1] \in {"Float", "Number"} ->
                IF None \in {version(a), version(b)} THEN {} ELSE {Lexicographic(version(a), version(b))}
         [] OTHER -> {}

RECURSIVE atomToString(_)
atomToString(a) ==
    CASE a[1] \in {"String", "Variable"} -> a[2]
      [] a[1] = "Number" -> Decimal(a[2])
      [] a[1] = "Float" -> ShortestFloat(a[2])
      [] a[1] = "Boolean" -> IF a[2] THEN <<"true">> ELSE <<"false">>
      [] a[1] = "Date" -> DateText(a[2])
      [] a[1] = "DateTime" -> DateText(a[2]) \o <<"T">> \o Two(a[3])
      [] a[1] = "Semver" -> Joined([i \in 1 .. 3 |-> Decimal(a[2][i])], <<".">>)
      [] a[1] = "Regex" -> <<"/">> \o a[2] \o <<"/">>
      [] a[1] = "List" -> <<"[">> \o Joined([i \in DOMAIN a[2] |-> atomToString(a[2][i])], <<",", " ">>) \o <<"]">>

----------------------------------------------------------------------------
(* Expressions *)

InContext(name, ctx) == IF name \in DOMAIN ctx THEN ctx[name] ELSE None

Coalesced(args, ctx) ==
    LET value(i) == IF args[i][1] = "Constant" THEN args[i][2] ELSE InContext(args[i][2][2], ctx)
        given == {i \in DOMAIN args : value(i) # None}
    IN IF given = {} THEN None ELSE value(CHOOSE i \in given : \A j \in given : i <= j)

RECURSIVE getVariableValueFromContext(_, _)
getVariableValueFromContext(v, ctx) ==
    CASE v[1] \in {"Variable", "Constant"} ->
            IF v[2][1] = "Variable" THEN InContext(v[2][2], ctx) ELSE None
      [] v[1] = "Function" ->
            LET inner == getVariableValueFromContext(v[3], ctx)
            IN IF v[2] = "Now" THEN <<"DateTime", LocalNow[1], LocalNow[2]>>
               ELSE IF inner = None THEN None
               ELSE <<"String", IF v[2] = "Upper" THEN ToUpper(atomToString(inner))
                                ELSE ToLower(atomToString(inner))>>
      [] v[1] = "Coalesce" -> Coalesced(v[2], ctx)
      [] OTHER -> None

evalComparison(value, op, rhs) ==
    LET cmp(Test(_)) == \E o \in atomCompare(value, rhs) : Test(o)
    IN CASE op = "Eq" -> atomEquals(value, rhs)
         [] op = "NotEq" -> ~atomEquals(value, rhs)
         [] op = "More" -> cmp(LAMBDA o : o > 0)
         [] op = "MoreEq" -> cmp(LAMBDA o : o >= 0)
         [] op = "Less" -> cmp(LAMBDA o : o < 0)
         [] op = "LessEq" -> cmp(LAMBDA o : o <= 0)

EvalConstant(e, ctx) ==
    LET value == IF e[2][1] = "Variable" THEN getVariableValueFromContext(e, ctx) ELSE e[2]
    IN value # None /\ value[1] = "Boolean" /\ value[2]

EvalCompare(e, ctx) ==
    LET value == getVariableValueFromContext(e[2], ctx)
    IN value # None /\ evalComparison(value, e[3], e[4][2])

\* One "matched" for an operator and its negation; a regular expression is
\* looked for anywhere, whatever the operator.
EvalMatch(e, ctx) ==
    LET value == getVariableValueFromContext(e[2], ctx)
        haystack == atomToString(value)
        rhs == e[4][2]
        needle == atomToString(rhs)
        matched == CASE rhs[1] = "Regex" -> Finds(rhs[2], haystack)
                     [] rhs[1] # "Regex" /\ e[3] \in {"StartsWith", "NotStartsWith"} -> StartsWith(haystack, needle)
                     [] rhs[1] # "Regex" /\ e[3] \in {"EndsWith", "NotEndsWith"} -> EndsWith(haystack, needle)
                     [] OTHER -> Contains(haystack, needle)
    IN /\ value # None
       /\ (e[3] \in {"Contains", "StartsWith", "EndsWith"}) = matched

EvalArray(e, ctx) ==
    LET search == IF e[4][1] # "List" /\ e[2][1] = "Constant" /\ e[2][2][1] # "Variable"
                  THEN e[2][2] ELSE getVariableValueFromContext(e[2], ctx)
        list == IF e[4][1] = "List" THEN e[4] ELSE getVariableValueFromContext(e[4], ctx)
    IN /\ search # None
       /\ list # None /\ list[1] = "List"
       /\ (e[3] = "In") = (\E i \in DOMAIN list[2] : atomEquals(search, list[2][i]))

EvalNullCheck(e, ctx) == e[3] = (getVariableValueFromContext(e[2], ctx) = None)

\* Sixty bits do not fit a number: of a digest whose first bit is set, the
\* last seven are rounded away.  The threshold keeps its decimals.
HashInput(flag, salt, key) ==
    flag \o <<".">> \o (IF salt = None THEN <<>> ELSE salt[1] \o <<".">>) \o key
Rounded(digest) ==
    IF digest[2] > 64 \/ (digest[2] = 64 /\ digest[1] % 2 = 1) THEN digest[1] + 1 ELSE digest[1]
Bucket(digest) == (Rounded(digest) * 128) % 100000
Within(bucket, rate) == bucket * 10 < rate
EvalPercentage(e, ctx, flag) ==
    LET key == getVariableValueFromContext(e[3], ctx)
    IN key # None /\ Within(Bucket(Digest(HashInput(flag, e[4], atomToString(key)))), e[2])

Truth(b) == IF b THEN "yes" ELSE "no"

RECURSIVE evaluate(_, _, _, _, _)
evaluate(e, ctx, flag, segments, open) ==
    CASE e[1] = "Constant" -> Truth(EvalConstant(e, ctx))
      [] e[1] = "Compare" -> Truth(EvalCompare(e, ctx))
      [] e[1] = "Match" -> Truth(EvalMatch(e, ctx))
      [] e[1] = "Array" -> Truth(EvalArray(e, ctx))
      [] e[1] = "NullCheck" -> Truth(EvalNullCheck(e, ctx))
      [] e[1] = "Percentage" -> Truth(EvalPercentage(e, ctx, flag))
      [] e[1] = "Logic" ->
            LET left == evaluate(e[2], ctx, flag, segments, open)
                right == evaluate(e[4], ctx, flag, segments, open)
            IN IF "overflow" \in {left, right} THEN "overflow"
               ELSE Truth(IF e[3] = "And" THEN {left, right} = {"yes"} ELSE "yes" \in {left, right})
      [] e[1] = "Scope" ->
            LET result == evaluate(e[2], ctx, flag, segments, open)
            IN IF e[3] /\ result # "overflow" THEN Truth(result # "yes") ELSE result
      [] e[1] = "Segment" ->
            IF e[2] \notin DOMAIN segments THEN "no"
            ELSE IF e[2] \in open THEN "overflow"
            ELSE evaluate(segments[e[2]], ctx, flag, segments, open \cup {e[2]})
      [] OTHER -> "no"

----------------------------------------------------------------------------
(* Rules *)

RECURSIVE evaluateRules(_, _, _, _, _)
evaluateRules(rules, ctx, flag, segments, env) ==
    IF rules = <<>> THEN None
    ELSE LET rule == Head(rules)
             result ==
                CASE rule[1] = "Value" -> rule[2]
                  [] rule[1] = "Expr" ->
                        LET r == evaluate(rule[2], ctx, flag, segments, {})
                        IN CASE r = "yes" -> rule[3] [] r = "no" -> None [] OTHER -> Overflow
                  [] rule[1] = "Env" ->
                        IF env = rule[2] THEN evaluateRules(rule[3], ctx, flag, segments, env) ELSE None
         IN IF result = None THEN evaluateRules(Tail(rules), ctx, flag, segments, env) ELSE result

\* A flag that is not defined has no value, and none of its requirements is
\* looked at.
ffRaw(flag, ctx, flags, segments, env) ==
    LET value(f) == IF f \in DOMAIN flags THEN evaluateRules(flags[f].rules, ctx, f, segments, env) ELSE None
        requires == flags[flag].requires
        unmet == {i \in DOMAIN requires : value(requires[i]) # <<"OnOff", TRUE>>}
        first == CHOOSE i \in unmet : \A j \in unmet : i <= j
    IN CASE flag \notin DOMAIN flags -> None
         [] flag \in DOMAIN flags /\ unmet = {} -> value(flag)
         [] flag \in DOMAIN flags /\ unmet # {} ->
                IF value(requires[first]) = Overflow THEN Overflow ELSE None
============================================================================
