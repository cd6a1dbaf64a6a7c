----------------------------- MODULE GoParser ------------------------------
(***************************************************************************)
(* The expression parser of the Go package (flagfile-go/parser.go), written *)
(* by hand after the Rust one: each function tries its parts in turn and   *)
(* gives the text back untouched when one is missing.                      *)
(***************************************************************************)
EXTENDS Peg

CONSTANT I32Max        \* half the range of the uint32 of a version's parts

U32Max == 2 * I32Max + 1

----------------------------------------------------------------------------
(* Atoms *)

\* An int is wide enough for any number of the model; a date that no date
\* parser takes begins with one.
parseNumber(t) ==
    CASE Kind(t) = "num" -> Ok(<<"Number", t[1][2]>>, Tail(t))
      [] Kind(t) \in {"date", "datetime"} -> Ok(<<"Number", t[1][2]>>, Tail(Undated(t)))
      [] OTHER -> Fail

\* An exponent without digits is not part of the float.
parseFloat(t) ==
    CASE Kind(t) = "float" -> Ok(<<"Float", t[1][2]>>, Tail(t))
      [] Kind(t) = "brokenfloat" -> Ok(<<"Float", t[1][2]>>, <<<<"word", <<"e">>>>>> \o Tail(t))
      [] OTHER -> Fail

parseBoolean(t) ==
    Prefix("true", <<"Boolean", TRUE>>, t) \sqcup Prefix("false", <<"Boolean", FALSE>>, t)

\* time.Parse wants the digits of its layout and a day of the calendar.
parseDate(t) ==
    IF \/ Kind(t) \notin {"date", "datetime"}
       \/ ~IsDay(t[1][3], t[1][4])
       \/ Kind(t) = "date" /\ t[1][5] = "short"
    THEN Fail
    ELSE Ok(<<"Date", Day(t[1][2], t[1][3], t[1][4])>>,
            (IF Kind(t) = "datetime" THEN <<<<"word", <<"T">>>>>> ELSE <<>>) \o Tail(t))

parseDateTime(t) ==
    IF Kind(t) = "datetime" /\ IsDay(t[1][3], t[1][4]) /\ t[1][5] < 24
    THEN Ok(<<"DateTime", Day(t[1][2], t[1][3], t[1][4]), t[1][5]>>, Tail(t))
    ELSE Fail

\* ParseUint's error is dropped: a part out of range is the largest one.
parseSemver(t) ==
    LET part(i) == IF t[1][i] > U32Max THEN U32Max ELSE t[1][i]
    IN IF Kind(t) = "semver" THEN Ok(<<"Semver", <<part(2), part(3), part(4)>>>>, Tail(t)) ELSE Fail

parseStringAtom(t) == IF Kind(t) = "str" THEN Ok(<<"String", t[1][2]>>, Tail(t)) ELSE Fail
parseVariable(t) == Map(Word(t), LAMBDA w : <<"Variable", w>>)

parseAtom(t) ==
    parseDateTime(t) \sqcup (parseDate(t) \sqcup (parseStringAtom(t) \sqcup
    (parseBoolean(t) \sqcup (parseSemver(t) \sqcup (parseFloat(t) \sqcup
    (parseNumber(t) \sqcup parseVariable(t)))))))

----------------------------------------------------------------------------
(* Operators *)

parseComparisonOp(t) ==
    OneOf([s \in {"!=", "<>", "==", "=", "<=", "<", ">=", ">"} |->
        CASE s \in {"!=", "<>"} -> "NotEq" [] s \in {"==", "="} -> "Eq"
          [] s = "<=" -> "LessEq" [] s = "<" -> "Less" [] s = ">=" -> "MoreEq" [] s = ">" -> "More"], t)

parseLogicOp(t) ==
    OneOf([s \in {"&&", "||"} |-> IF s = "&&" THEN "And" ELSE "Or"], t) \sqcup
    (Prefix("and", "And", t) \sqcup Prefix("or", "Or", t))

parseArrayOp(t) ==
    Then(Whole("not", "not", t), LAMBDA n, t1 : Prefix("in", "NotIn", t1)) \sqcup
    Prefix("in", "In", t)

parseFunctionNames(t) == Prefix("upper", "Upper", t) \sqcup Prefix("lower", "Lower", t)

parseMatchOp(t) ==
    OneOf([s \in {"!^~", "!~$", "!~", "^~", "~$", "~"} |->
        CASE s = "!^~" -> "NotStartsWith" [] s = "!~$" -> "NotEndsWith" [] s = "!~" -> "NotContains"
          [] s = "^~" -> "StartsWith" [] s = "~$" -> "EndsWith" [] s = "~" -> "Contains"], t)

----------------------------------------------------------------------------
(* Operands *)

\* The loop over ", element": an element missing after its comma fails the
\* whole list.
RECURSIVE Elements(_, _, _)
Elements(Element(_), got, t) ==
    IF ~Parsed(Sym(",", t)) THEN Ok(got, t)
    ELSE Then(Element(Tail(t)), LAMBDA e, t1 : Elements(Element, Append(got, e), t1))

parseList(t) ==
    Then(Sym("(", t), LAMBDA o, t1 :
    Then(IF parseAtom(t1) = Fail THEN Ok(<<>>, t1)
         ELSE Then(parseAtom(t1), LAMBDA a, t2 : Elements(parseAtom, <<a>>, t2)), LAMBDA items, t3 :
        Map(Sym(")", t3), LAMBDA c : <<"List", items>>)))

parseVariableNode(t) == Map(parseVariable(t), LAMBDA v : <<"Variable", v>>)
parseConstant(t) == Map(parseAtom(t), LAMBDA a : <<"Constant", a>>)

parseVariableNodeModifier(t) ==
    Then(parseFunctionNames(t), LAMBDA fn, t1 :
        Three(LAMBDA u : Sym("(", u), parseVariableNode, LAMBDA u : Sym(")", u),
              LAMBDA o, v, c : <<"Function", fn, v>>, t1))

parseNullaryFunction(t) ==
    Three(LAMBDA u : Whole("now", "", u), LAMBDA u : Sym("(", u), LAMBDA u : Sym(")", u),
          LAMBDA a, b, c : <<"Function", "Now", <<"Void">>>>, t)

parseCoalesceArg(t) == parseVariableNode(t) \sqcup parseConstant(t)
parseCoalesce(t) ==
    Then(Prefix("coalesce", "", t), LAMBDA k, t1 :
    Then(Sym("(", t1), LAMBDA o, t2 :
    Then(parseCoalesceArg(t2), LAMBDA first, t3 :
    Then(Elements(parseCoalesceArg, <<first>>, t3), LAMBDA args, t4 :
        IF Len(args) < 2 THEN Fail ELSE Map(Sym(")", t4), LAMBDA c : <<"Coalesce", args>>)))))

\* Mutant of parseVariableNodeOrModified: now() is forgotten.
parseVariableOrOneArgument(t) ==
    parseCoalesce(t) \sqcup (parseVariableNodeModifier(t) \sqcup parseVariableNode(t))

parseVariableNodeOrModified(t) ==
    parseCoalesce(t) \sqcup (parseNullaryFunction(t) \sqcup
    (parseVariableNodeModifier(t) \sqcup parseVariableNode(t)))

parseSegmentName(t) == DashedWord(t)
parseSegmentCall(t) ==
    Then(Prefix("segment", "", t), LAMBDA k, t1 :
        Three(LAMBDA u : Sym("(", u), parseSegmentName, LAMBDA u : Sym(")", u),
              LAMBDA o, name, c : <<"Segment", name>>, t1))

----------------------------------------------------------------------------
(* Comparisons *)

parseArrayExpr(t) ==
    Three(parseVariableNodeOrModified, parseArrayOp, parseList,
          LAMBDA v, op, l : <<"Array", v, op, l>>, t)

parseCompareExpr(t) ==
    Three(parseVariableNodeOrModified, parseComparisonOp, parseConstant,
          LAMBDA v, op, c : <<"Compare", v, op, c>>, t)

parseRegexLiteral(t) == IF Kind(t) = "regex" THEN Ok(<<"Regex", t[1][2]>>, Tail(t)) ELSE Fail
parseMatchRhs(t) ==
    Map(parseRegexLiteral(t), LAMBDA a : <<"Constant", a>>) \sqcup parseConstant(t)
parseMatchExpr(t) ==
    Three(parseVariableNodeOrModified, parseMatchOp, parseMatchRhs,
          LAMBDA v, op, c : <<"Match", v, op, c>>, t)

parseReverseArrayExpr(t) ==
    Three(parseConstant, parseArrayOp, parseVariableNode,
          LAMBDA c, op, v : <<"Array", c, op, v>>, t)

parseNullCheck(t) ==
    Then(parseVariableNodeOrModified(t), LAMBDA v, t1 :
    Then(Prefix("is", "", t1), LAMBDA k, t2 :
    Then(Opt(Prefix("not", "not", t2), t2), LAMBDA negated, t3 :
        Map(Whole("null", "", t3), LAMBDA n : <<"NullCheck", v, negated = None>>))))

parseCompareOrArrayExpr(t) ==
    parseNullCheck(t) \sqcup (parseArrayExpr(t) \sqcup (parseReverseArrayExpr(t) \sqcup
    (parseMatchExpr(t) \sqcup parseCompareExpr(t))))

parsePercentageSalt(t) == Then(Sym(",", t), LAMBDA s, t1 : DashedWord(t1))
parsePercentage(t) ==
    Then(Prefix("percentage", "", t), LAMBDA k, t1 :
    Then(Sym("(", t1), LAMBDA o, t2 :
    Then(IF Kind(t2) = "rate" THEN Ok(t2[1][2], Tail(t2)) ELSE Fail, LAMBDA rate, t3 :
    Then(Sym(",", t3), LAMBDA s, t4 :
    Then(parseVariableNode(t4), LAMBDA field, t5 :
    Then(Opt(parsePercentageSalt(t5), t5), LAMBDA salt, t6 :
        Map(Sym(")", t6), LAMBDA c : <<"Percentage", rate, field, salt>>)))))))

----------------------------------------------------------------------------
(* Expressions *)

RECURSIVE parseExpr(_)

parseParenthesizedExpr(t) ==
    Then(Opt(Prefix("not", "not", t) \sqcup Sym("!", t), t), LAMBDA negation, t1 :
        Three(LAMBDA u : Sym("(", u), parseExpr, LAMBDA u : Sym(")", u),
              LAMBDA o, e, c : <<"Scope", e, negation # None>>, t1))

parseCompareOrArrayOrParen(t) == parseCompareOrArrayExpr(t) \sqcup parseParenthesizedExpr(t)
parseLogicExpr(t) ==
    Three(parseCompareOrArrayOrParen, parseLogicOp, parseCompareOrArrayOrParen,
          LAMBDA a, op, b : <<"Logic", a, op, b>>, t)

\* The loop of the tail.
RECURSIVE Chain(_, _)
Chain(head, t) ==
    LET next(u) == parsePercentage(u) \sqcup (parseSegmentCall(u) \sqcup
                   (parseCompareOrArrayExpr(u) \sqcup parseParenthesizedExpr(u)))
        link == Then(parseLogicOp(t), LAMBDA op, t1 :
                    Map(next(t1), LAMBDA e : <<"Logic", head, op, e>>))
    IN IF Parsed(link) THEN Chain(link[1], link[2]) ELSE Ok(head, t)

parseExpr(t) ==
    Then(parseParenthesizedExpr(t) \sqcup (parsePercentage(t) \sqcup (parseSegmentCall(t) \sqcup
         (parseLogicExpr(t) \sqcup (parseCompareOrArrayExpr(t) \sqcup parseConstant(t))))),
         Chain)

Parse(t) == parseExpr(t) \sqcup parseParenthesizedExpr(t)
============================================================================
