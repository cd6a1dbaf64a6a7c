----------------------------- MODULE TsParser ------------------------------
(***************************************************************************)
(* The expression parser of the TypeScript package (flagfile-ts/src/       *)
(* parser.ts): regular expressions for the atoms, and keywords that must   *)
(* end where their word ends.                                              *)
(***************************************************************************)
EXTENDS Peg

----------------------------------------------------------------------------
(* Atoms *)

\* The digits are not checked against the calendar.
parseDateTime(t) ==
    IF Kind(t) = "datetime"
    THEN Ok(<<"DateTime", Day(t[1][2], t[1][3], t[1][4]), t[1][5]>>, Tail(t))
    ELSE Fail

parseDate(t) ==
    IF Kind(t) = "date" /\ t[1][5] = "full" /\ t[1][3] \in 1 .. 12 /\ t[1][4] \in 1 .. 31
    THEN Ok(<<"Date", Day(t[1][2], t[1][3], t[1][4])>>, Tail(t))
    ELSE Fail

parseString(t) == IF Kind(t) = "str" THEN Ok(<<"String", t[1][2]>>, Tail(t)) ELSE Fail

parseBoolean(t) ==
    Whole("true", <<"Boolean", TRUE>>, t) \sqcup Whole("false", <<"Boolean", FALSE>>, t)

parseSemver(t) ==
    IF Kind(t) = "semver" THEN Ok(<<"Semver", <<t[1][2], t[1][3], t[1][4]>>>>, Tail(t)) ELSE Fail

parseFloat_(t) ==
    CASE Kind(t) = "float" -> Ok(<<"Float", t[1][2]>>, Tail(t))
      [] Kind(t) = "brokenfloat" -> Ok(<<"Float", t[1][2]>>, <<<<"word", <<"e">>>>>> \o Tail(t))
      [] OTHER -> Fail

parseNumber(t) ==
    CASE Kind(t) = "num" -> Ok(<<"Number", t[1][2]>>, Tail(t))
      [] Kind(t) = "date" -> Ok(<<"Number", t[1][2]>>, Tail(Undated(t)))
      [] OTHER -> Fail

parseVariable(t) == Map(Word(t), LAMBDA w : <<"Variable", w>>)

parseAtom(t) ==
    parseDateTime(t) \sqcup (parseDate(t) \sqcup (parseString(t) \sqcup
    (parseBoolean(t) \sqcup (parseSemver(t) \sqcup (parseFloat_(t) \sqcup
    (parseNumber(t) \sqcup parseVariable(t)))))))

----------------------------------------------------------------------------
(* Operators *)

parseComparisonOp(t) ==
    OneOf([s \in {"!=", "<>", "==", "=", "<=", "<", ">=", ">"} |->
        CASE s \in {"!=", "<>"} -> "NotEq" [] s \in {"==", "="} -> "Eq"
          [] s = "<=" -> "LessEq" [] s = "<" -> "Less" [] s = ">=" -> "MoreEq" [] s = ">" -> "More"], t)

parseLogicOp(t) ==
    OneOf([s \in {"&&", "||"} |-> IF s = "&&" THEN "And" ELSE "Or"], t) \sqcup
    (Whole("and", "And", t) \sqcup Whole("or", "Or", t))

parseArrayOp(t) ==
    Then(Whole("not", "not", t), LAMBDA n, t1 : Whole("in", "NotIn", t1)) \sqcup
    Whole("in", "In", t)

parseFnName(t) == Whole("upper", "Upper", t) \sqcup Whole("lower", "Lower", t)

parseMatchOp(t) ==
    OneOf([s \in {"!^~", "!~$", "!~", "^~", "~$", "~"} |->
        CASE s = "!^~" -> "NotStartsWith" [] s = "!~$" -> "NotEndsWith" [] s = "!~" -> "NotContains"
          [] s = "^~" -> "StartsWith" [] s = "~$" -> "EndsWith" [] s = "~" -> "Contains"], t)

----------------------------------------------------------------------------
(* Operands *)

\* The loop of a list goes past a comma before it looks for an element.
RECURSIVE Items(_, _)
Items(got, t) ==
    IF ~Parsed(Sym(",", t)) THEN Ok(got, t)
    ELSE Then(parseAtom(Tail(t)), LAMBDA a, t1 : Items(Append(got, a), t1)) \sqcup Ok(got, Tail(t))
parseList(t) ==
    Then(Sym("(", t), LAMBDA o, t1 :
    Then(Then(parseAtom(t1), LAMBDA a, t2 : Items(<<a>>, t2)) \sqcup Ok(<<>>, t1), LAMBDA items, t3 :
        Map(Sym(")", t3), LAMBDA c : <<"List", items>>)))

parseVariableNode(t) == Map(parseVariable(t), LAMBDA v : <<"Variable", v>>)
parseConstant(t) == Map(parseAtom(t), LAMBDA a : <<"Constant", a>>)

parseNullaryFunction(t) ==
    Three(LAMBDA u : Whole("now", "", u), LAMBDA u : Sym("(", u), LAMBDA u : Sym(")", u),
          LAMBDA a, b, c : <<"Function", "Now", <<"Void">>>>, t)

parseVariableNodeModifier(t) ==
    Then(parseFnName(t), LAMBDA fn, t1 :
        Three(LAMBDA u : Sym("(", u), parseVariableNode, LAMBDA u : Sym(")", u),
              LAMBDA o, v, c : <<"Function", fn, v>>, t1))

parseCoalesceArg(t) == parseVariableNode(t) \sqcup parseConstant(t)
RECURSIVE Args(_, _)
Args(got, t) ==
    IF ~Parsed(Sym(",", t)) THEN Ok(got, t)
    ELSE Then(parseCoalesceArg(Tail(t)), LAMBDA a, t1 : Args(Append(got, a), t1))
parseCoalesce(t) ==
    Then(Whole("coalesce", "", t), LAMBDA k, t1 :
    Then(Sym("(", t1), LAMBDA o, t2 :
    Then(parseCoalesceArg(t2), LAMBDA first, t3 :
    Then(Args(<<first>>, t3), LAMBDA args, t4 :
        IF Len(args) < 2 THEN Fail ELSE Map(Sym(")", t4), LAMBDA c : <<"Coalesce", args>>)))))

parseVariableNodeOrModified(t) ==
    parseNullaryFunction(t) \sqcup (parseCoalesce(t) \sqcup
    (parseVariableNodeModifier(t) \sqcup parseVariableNode(t)))

----------------------------------------------------------------------------
(* Comparisons *)

parseCompareExpr(t) ==
    Three(parseVariableNodeOrModified, parseComparisonOp, parseConstant,
          LAMBDA v, op, c : <<"Compare", v, op, c>>, t)

parseArrayExpr(t) ==
    Three(parseVariableNodeOrModified, parseArrayOp, parseList,
          LAMBDA v, op, l : <<"Array", v, op, l>>, t)

parseReverseArrayExpr(t) ==
    Three(parseConstant, parseArrayOp, parseVariableNode,
          LAMBDA c, op, v : <<"Array", c, op, v>>, t)

parseRegexLiteral(t) == IF Kind(t) = "regex" THEN Ok(<<"Regex", t[1][2]>>, Tail(t)) ELSE Fail
parseMatchRhs(t) ==
    Map(parseRegexLiteral(t), LAMBDA a : <<"Constant", a>>) \sqcup parseConstant(t)
parseMatchExpr(t) ==
    Three(parseVariableNodeOrModified, parseMatchOp, parseMatchRhs,
          LAMBDA v, op, c : <<"Match", v, op, c>>, t)

parseNullCheck(t) ==
    Then(parseVariableNodeOrModified(t), LAMBDA v, t1 :
    Then(Whole("is", "", t1), LAMBDA k, t2 :
    Then(Opt(Whole("not", "not", t2), t2), LAMBDA negated, t3 :
        Map(Whole("null", "", t3), LAMBDA n : <<"NullCheck", v, negated = None>>))))

parseCompareOrArrayExpr(t) ==
    parseNullCheck(t) \sqcup (parseArrayExpr(t) \sqcup (parseReverseArrayExpr(t) \sqcup
    (parseMatchExpr(t) \sqcup parseCompareExpr(t))))

----------------------------------------------------------------------------
(* Expressions *)

RECURSIVE parseExpr(_)

parseParenthesizedExpr(t) ==
    Then(Opt(Whole("not", "not", t) \sqcup Sym("!", t), t), LAMBDA negation, t1 :
        Three(LAMBDA u : Sym("(", u), parseExpr, LAMBDA u : Sym(")", u),
              LAMBDA o, e, c : <<"Scope", e, negation # None>>, t1))

\* A rate without sign, with digits on both sides of its point; a comma
\* after the field must be followed by a salt.
parsePercentage(t) ==
    Then(Whole("percentage", "", t), LAMBDA k, t1 :
    Then(Sym("(", t1), LAMBDA o, t2 :
    Then(IF Kind(t2) = "rate" /\ t2[1][3] = "plain" THEN Ok(t2[1][2], Tail(t2)) ELSE Fail, LAMBDA rate, t3 :
    Then(Sym(",", t3), LAMBDA s, t4 :
    Then(parseVariableNode(t4), LAMBDA field, t5 :
    Then(IF Parsed(Sym(",", t5)) THEN Map(Word(Tail(t5)), LAMBDA w : <<w>>) ELSE Ok(None, t5), LAMBDA salt, t6 :
        Map(Sym(")", t6), LAMBDA c : <<"Percentage", rate, field, salt>>)))))))

parseSegmentCall(t) ==
    Then(Whole("segment", "", t), LAMBDA k, t1 :
        Three(LAMBDA u : Sym("(", u), DashedWord, LAMBDA u : Sym(")", u),
              LAMBDA o, name, c : <<"Segment", name>>, t1))

LogicOperand(t) == parseCompareOrArrayExpr(t) \sqcup parseParenthesizedExpr(t)
parseLogicExprOnce(t) ==
    Three(LogicOperand, parseLogicOp, LogicOperand, LAMBDA a, op, b : <<"Logic", a, op, b>>, t)

\* The loop of the tail.
RECURSIVE Chain(_, _)
Chain(head, t) ==
    LET rhs(u) == parsePercentage(u) \sqcup (parseSegmentCall(u) \sqcup
                  (parseCompareOrArrayExpr(u) \sqcup parseParenthesizedExpr(u)))
        link == Then(parseLogicOp(t), LAMBDA op, t1 :
                    Map(rhs(t1), LAMBDA e : <<"Logic", head, op, e>>))
    IN IF Parsed(link) THEN Chain(link[1], link[2]) ELSE Ok(head, t)

parseExpr(t) ==
    Then(parseParenthesizedExpr(t) \sqcup (parsePercentage(t) \sqcup (parseSegmentCall(t) \sqcup
         (parseLogicExprOnce(t) \sqcup (parseCompareOrArrayExpr(t) \sqcup parseConstant(t))))),
         Chain)

Parse(t) == parseExpr(t) \sqcup parseParenthesizedExpr(t)
============================================================================
