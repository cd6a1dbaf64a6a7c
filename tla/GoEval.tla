------------------------------ MODULE GoEval -------------------------------
(***************************************************************************)
(* Values, expressions and rules as the Go package evaluates them          *)
(* (flagfile-go/atom.go, eval.go and the end of flagfile.go), on the       *)
(* tuples of RustEval.                                                     *)
(***************************************************************************)
EXTENDS Texts

CONSTANTS Digest(_),     \* as in RustEval
          UtcNow,        \* the clock in UTC, a day and an hour
          U32Max,
          NegativeAsUint \* what the build makes of a negative float as uint64

None == <<>>
Overflow == <<"overflow">>

----------------------------------------------------------------------------
(* Values *)

\* strconv's 'g' format: from a million on, digits and a power of ten.
Exponential(h) == WholePart(h) >= 1000000
Significant(h) ==
    LET ds == Decimal(WholePart(h)) \o Two(Cents(h))
        kept == {i \in DOMAIN ds : ds[i] # "0"}
    IN SubSeq(ds, 1, CHOOSE i \in kept : \A j \in kept : j <= i)
FormatFloat(h) ==
    IF ~Exponential(h) THEN ShortestFloat(h)
    ELSE (IF h < 0 THEN <<"-">> ELSE <<>>) \o <<Significant(h)[1]>> \o
         (IF Len(Significant(h)) = 1 THEN <<>> ELSE <<".">> \o Tail(Significant(h))) \o
         <<"e", "+">> \o Two(Len(Decimal(WholePart(h))) - 1)

RECURSIVE String(_)
String(a) ==
    CASE a[1] \in {"String", "Variable"} -> a[2]
      [] a[1] = "Number" -> Decimal(a[2])
      [] a[1] = "Float" -> FormatFloat(a[2])
      [] a[1] = "Boolean" -> IF a[2] THEN <<"true">> ELSE <<"false">>
      [] a[1] = "Date" -> DateText(a[2])
      [] a[1] = "DateTime" -> DateText(a[2]) \o <<"T">> \o Two(a[3])
      [] a[1] = "Semver" -> Joined([i \in 1 .. 3 |-> Decimal(a[2][i])], <<".">>)
      [] a[1] = "Regex" -> <<"/">> \o a[2] \o <<"/">>
      [] a[1] = "List" -> <<"[">> \o Joined([i \in DOMAIN a[2] |-> String(a[2][i])], <<",", " ">>) \o <<"]">>

floatToSemver(h) ==
    IF h < 0 \/ Exponential(h) \/ WholePart(h) > U32Max THEN None
    ELSE <<WholePart(h), MinorOf(h), 0>>

\* Mutant of numberToSemver: the sign is forgotten.
unsignedToSemver(n) == <<n % (U32Max + 1), 0, 0>>

\* An int cast to uint32 wraps.
numberToSemver(n) == IF n < 0 THEN None ELSE <<n % (U32Max + 1), 0, 0>>

cmpU32Triple(u, v) == IF None \in {u, v} THEN {} ELSE {Lexicographic(u, v)}
cmpTime(a, b) ==
    LET instant(x) == IF x[1] = "Date" THEN <<x[2], 0>> ELSE <<x[2], x[3]>>
    IN {Lexicographic(instant(a), instant(b))}

atomCmp(a, b) ==
    LET numbers == {"Number", "Float"}
        days == {"Date", "DateTime"}
        hundredths(x) == IF x[1] = "Number" THEN x[2] * 100 ELSE x[2]
        version(x) == CASE x[1] = "Semver" -> x[2]
                        [] x[1] = "Float" -> floatToSemver(x[2])
                        [] x[1] = "Number" -> numberToSemver(x[2])
    IN CASE a[1] \in numbers /\ b[1] \in numbers -> {Order(hundredths(a), hundredths(b))}
         [] a[1] \in days /\ b[1] \in days -> cmpTime(a, b)
         [] \/ a[1] = "Semver" /\ b[1] \in numbers \cup {"Semver"}
            \/ b[1] = "Semver" /\ a[1] \in numbers -> cmpU32Triple(version(a), version(b))
         [] OTHER -> {}

RECURSIVE atomEq(_, _)
atomEq(a, b) ==
    LET kinds == <<a[1], b[1]>>
        names == {"String", "Variable"}
    IN CASE kinds \in names \X names -> a[2] = b[2]
         [] a[1] = b[1] /\ a[1] \in {"Number", "Float", "Boolean", "Semver", "Regex"} -> a[2] = b[2]
         [] kinds \in {"Date", "DateTime"} \X {"Date", "DateTime"} -> cmpTime(a, b) = {0}
         [] kinds = <<"Number", "Semver">> -> numberToSemver(a[2]) = b[2]
         [] kinds = <<"Float", "Semver">> -> floatToSemver(a[2]) = b[2]
         [] kinds = <<"Semver", "Float">> -> floatToSemver(b[2]) = a[2]
         [] kinds = <<"Semver", "Number">> -> numberToSemver(b[2]) = a[2]
         [] kinds = <<"List", "List">> ->
                Len(a[2]) = Len(b[2]) /\ \A i \in DOMAIN a[2] : atomEq(a[2][i], b[2][i])
         [] OTHER -> FALSE

----------------------------------------------------------------------------
(* Expressions *)

InContext(name, ctx) == IF name \in DOMAIN ctx THEN ctx[name] ELSE None

Coalesced(args, ctx) ==
    LET value(i) == IF args[i][1] = "Constant" THEN args[i][2] ELSE InContext(args[i][2][2], ctx)
        given == {i \in DOMAIN args : value(i) # None}
    IN IF given = {} THEN None ELSE value(CHOOSE i \in given : \A j \in given : i <= j)

RECURSIVE getVariableValue(_, _)
getVariableValue(v, ctx) ==
    CASE v[1] \in {"Variable", "Constant"} ->
            IF v[2][1] = "Variable" THEN InContext(v[2][2], ctx) ELSE None
      [] v[1] = "Function" /\ v[2] = "Now" -> <<"DateTime", UtcNow[1], UtcNow[2]>>
      [] v[1] = "Function" /\ v[2] # "Now" ->
            LET x == getVariableValue(v[3], ctx)
            IN IF x = None THEN None
               ELSE <<"String", IF v[2] = "Upper" THEN ToUpper(String(x)) ELSE ToLower(String(x))>>
      [] v[1] = "Coalesce" -> Coalesced(v[2], ctx)
      [] OTHER -> None

EvalConstant(e, ctx) ==
    LET value == IF e[2][1] = "Variable" THEN getVariableValue(e, ctx) ELSE e[2]
    IN value # None /\ value[1] = "Boolean" /\ value[2]

EvalCompare(e, ctx) ==
    LET value == getVariableValue(e[2], ctx)
        constant == e[4][2]
        ord(Test(_)) == \E o \in atomCmp(value, constant) : Test(o)
    IN /\ value # None
       /\ CASE e[3] = "Eq" -> atomEq(value, constant)
            [] e[3] = "NotEq" -> ~atomEq(value, constant)
            [] e[3] = "More" -> ord(LAMBDA o : o > 0)
            [] e[3] = "MoreEq" -> ord(LAMBDA o : o >= 0)
            [] e[3] = "Less" -> ord(LAMBDA o : o < 0)
            [] e[3] = "LessEq" -> ord(LAMBDA o : o <= 0)

\* "variable in (list)", or "value in variable" when the variable is a list.
EvalArray(e, ctx) ==
    LET search == IF e[4][1] # "List" /\ e[2][1] = "Constant" /\ e[2][2][1] # "Variable"
                  THEN e[2][2] ELSE getVariableValue(e[2], ctx)
        list == IF e[4][1] = "List" THEN e[4] ELSE getVariableValue(e[4], ctx)
        found == \E i \in DOMAIN list[2] : atomEq(search, list[2][i])
    IN /\ search # None
       /\ list # None /\ list[1] = "List"
       /\ IF e[3] = "In" THEN found ELSE ~found

EvalMatch(e, ctx) ==
    LET value == getVariableValue(e[2], ctx)
        haystack == String(value)
        rhs == e[4][2]
        needle == String(rhs)
    IN /\ value # None
       /\ IF rhs[1] = "Regex"
          THEN \/ e[3] = "Contains" /\ Finds(rhs[2], haystack)
               \/ e[3] = "NotContains" /\ ~Finds(rhs[2], haystack)
          ELSE CASE e[3] = "Contains" -> Contains(haystack, needle)
                 [] e[3] = "NotContains" -> ~Contains(haystack, needle)
                 [] e[3] = "StartsWith" -> StartsWith(haystack, needle)
                 [] e[3] = "NotStartsWith" -> ~StartsWith(haystack, needle)
                 [] e[3] = "EndsWith" -> EndsWith(haystack, needle)
                 [] e[3] = "NotEndsWith" -> ~EndsWith(haystack, needle)

EvalNullCheck(e, ctx) ==
    LET absent == getVariableValue(e[2], ctx) = None
    IN IF e[3] THEN absent ELSE ~absent

\* A negative rate becomes whatever the build's conversion gives.
HashInput(flag, salt, key) ==
    flag \o <<".">> \o (IF salt = None THEN <<>> ELSE salt[1] \o <<".">>) \o key
Bucket(digest) == (digest[1] * 128 + digest[2]) % 100000
Threshold(rate) == IF rate < 0 THEN NegativeAsUint ELSE rate \div 10
EvalPercentage(e, ctx, flag) ==
    LET key == getVariableValue(e[3], ctx)
    IN /\ key # None
       /\ Bucket(Digest(HashInput(flag, e[4], String(key)))) < Threshold(e[2])

Truth(b) == IF b THEN "yes" ELSE "no"
\* l and r are computed before the operator is looked at.
Combine(l, op, r) ==
    IF "overflow" \in {l, r} THEN "overflow"
    ELSE Truth(IF op = "And" THEN l = "yes" /\ r = "yes" ELSE "yes" \in {l, r})

RECURSIVE evalImpl(_, _, _, _, _)
evalImpl(e, ctx, flag, segments, open) ==
    CASE e[1] = "Constant" -> Truth(EvalConstant(e, ctx))
      [] e[1] = "Compare" -> Truth(EvalCompare(e, ctx))
      [] e[1] = "Array" -> Truth(EvalArray(e, ctx))
      [] e[1] = "Match" -> Truth(EvalMatch(e, ctx))
      [] e[1] = "NullCheck" -> Truth(EvalNullCheck(e, ctx))
      [] e[1] = "Percentage" -> Truth(EvalPercentage(e, ctx, flag))
      [] e[1] = "Logic" -> Combine(evalImpl(e[2], ctx, flag, segments, open), e[3],
                                   evalImpl(e[4], ctx, flag, segments, open))
      [] e[1] = "Scope" ->
            LET res == evalImpl(e[2], ctx, flag, segments, open)
            IN IF e[3] /\ res # "overflow" THEN Truth(res = "no") ELSE res
      [] e[1] = "Segment" ->
            CASE e[2] \notin DOMAIN segments -> "no"
              [] e[2] \in open -> "overflow"
              [] OTHER -> evalImpl(segments[e[2]], ctx, flag, segments, open \cup {e[2]})
      [] OTHER -> "no"

EvalWithSegments(e, ctx, flag, segments) == evalImpl(e, ctx, flag, segments, {})

----------------------------------------------------------------------------
(* Rules *)

RECURSIVE EvaluateRules(_, _, _, _, _)
EvaluateRules(rules, ctx, flag, segments, env) ==
    IF rules = <<>> THEN None
    ELSE LET rule == Head(rules)
             result ==
                CASE rule[1] = "Value" -> rule[2]
                  [] rule[1] = "Expr" ->
                        LET r == EvalWithSegments(rule[2], ctx, flag, segments)
                        IN CASE r = "yes" -> rule[3] [] r = "no" -> None [] OTHER -> Overflow
                  [] rule[1] = "Env" ->
                        IF env = rule[2] THEN EvaluateRules(rule[3], ctx, flag, segments, env) ELSE None
         IN IF result = None THEN EvaluateRules(Tail(rules), ctx, flag, segments, env) ELSE result

EvaluateFlag(flag, ctx, flags, segments, env) ==
    LET value(f) == IF f \in DOMAIN flags THEN EvaluateRules(flags[f].rules, ctx, f, segments, env) ELSE None
        requires == IF flag \in DOMAIN flags THEN flags[flag].requires ELSE <<>>
        unmet == {i \in DOMAIN requires : value(requires[i]) # <<"OnOff", TRUE>>}
        first == CHOOSE i \in unmet : \A j \in unmet : i <= j
    IN IF unmet = {} THEN value(flag)
       ELSE IF value(requires[first]) = Overflow THEN Overflow ELSE None
============================================================================
