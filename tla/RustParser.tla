---------------------------- MODULE RustParser -----------------------------
(***************************************************************************)
(* The expression parser of the Rust library (src/parse.rs), a parser of   *)
(* nom combinators: every operator is the function of the same name.       *)
(***************************************************************************)
EXTENDS Peg

CONSTANT I32Max        \* the largest i32

U32Max == 2 * I32Max + 1

----------------------------------------------------------------------------
(* Atoms *)

\* str::parse::<i32>().unwrap()
parse_number(t) ==
    IF Kind(t) # "num" THEN Fail
    ELSE IF t[1][2] \in (0 - I32Max - 1) .. I32Max THEN Ok(<<"Number", t[1][2]>>, Tail(t))
    ELSE Panic

\* cut(digit1): an exponent that has begun must have its digits.
parse_float(t) ==
    CASE Kind(t) = "float" -> Ok(<<"Float", t[1][2]>>, Tail(t))
      [] Kind(t) = "brokenfloat" -> Failure
      [] OTHER -> Fail

parse_boolean(t) ==
    Prefix("true", <<"Boolean", TRUE>>, t) \sqcup Prefix("false", <<"Boolean", FALSE>>, t)

\* NaiveDate::parse_from_str(..).expect("Invalid date format")
parse_date(t) ==
    IF Kind(t) # "date" THEN Fail
    ELSE IF IsDay(t[1][3], t[1][4]) THEN Ok(<<"Date", Day(t[1][2], t[1][3], t[1][4])>>, Tail(t))
    ELSE Panic

parse_datetime(t) ==
    IF Kind(t) # "datetime" THEN Fail
    ELSE IF IsDay(t[1][3], t[1][4]) /\ t[1][5] < 24
    THEN Ok(<<"DateTime", Day(t[1][2], t[1][3], t[1][4]), t[1][5]>>, Tail(t))
    ELSE Panic

parse_semver(t) ==
    IF Kind(t) # "semver" THEN Fail
    ELSE IF \A i \in 2 .. 4 : t[1][i] <= U32Max
    THEN Ok(<<"Semver", <<t[1][2], t[1][3], t[1][4]>>>>, Tail(t))
    ELSE Panic

parse_string(t) == IF Kind(t) = "str" THEN Ok(<<"String", t[1][2]>>, Tail(t)) ELSE Fail

parse_variable(t) == Map(Word(t), LAMBDA w : <<"Variable", w>>)

parse_atom(t) ==
    parse_datetime(t) \sqcup (parse_date(t) \sqcup (parse_string(t) \sqcup
    (parse_boolean(t) \sqcup (parse_semver(t) \sqcup (parse_float(t) \sqcup
    (parse_number(t) \sqcup parse_variable(t)))))))

----------------------------------------------------------------------------
(* Operators *)

parse_comparison_op(t) ==
    OneOf([s \in {"!=", "<>", "==", "=", "<=", "<", ">=", ">"} |->
        CASE s \in {"!=", "<>"} -> "NotEq" [] s \in {"==", "="} -> "Eq"
          [] s = "<=" -> "LessEq" [] s = "<" -> "Less" [] s = ">=" -> "MoreEq" [] s = ">" -> "More"], t)

parse_logic_op(t) ==
    Map(Sym("&&", t) \sqcup Prefix("and", "and", t), LAMBDA s : "And") \sqcup
    Map(Sym("||", t) \sqcup Prefix("or", "or", t), LAMBDA s : "Or")

parse_array_op(t) ==
    Then(Whole("not", "not", t), LAMBDA n, t1 : Prefix("in", "NotIn", t1)) \sqcup
    Prefix("in", "In", t)

parse_function_names(t) == Prefix("upper", "Upper", t) \sqcup Prefix("lower", "Lower", t)

parse_match_op(t) ==
    OneOf([s \in {"!^~", "!~$", "!~", "^~", "~$", "~"} |->
        CASE s = "!^~" -> "NotStartsWith" [] s = "!~$" -> "NotEndsWith" [] s = "!~" -> "NotContains"
          [] s = "^~" -> "StartsWith" [] s = "~$" -> "EndsWith" [] s = "~" -> "Contains"], t)

----------------------------------------------------------------------------
(* Operands.  separated_list0 leaves a separator that no element follows. *)

RECURSIVE MoreElements(_, _, _)
MoreElements(Element(_), got, t) ==
    LET next == Then(Sym(",", t), LAMBDA s, t1 : Element(t1))
    IN CASE Parsed(next) -> MoreElements(Element, Append(got, next[1]), next[2])
         [] Stops(next) -> next
         [] OTHER -> Ok(got, t)
separated_list0(Element(_), t) ==
    LET first == Element(t)
    IN CASE Parsed(first) -> MoreElements(Element, <<first[1]>>, first[2])
         [] Stops(first) -> first
         [] OTHER -> Ok(<<>>, t)

parse_list(t) ==
    Three(LAMBDA u : Sym("(", u), LAMBDA u : separated_list0(parse_atom, u), LAMBDA u : Sym(")", u),
          LAMBDA a, items, b : <<"List", items>>, t)

parse_variable_node(t) == Map(parse_variable(t), LAMBDA v : <<"Variable", v>>)
parse_constant(t) == Map(parse_atom(t), LAMBDA a : <<"Constant", a>>)

parse_variable_node_modifier(t) ==
    Then(parse_function_names(t), LAMBDA fn, t1 :
        Three(LAMBDA u : Sym("(", u), parse_variable_node, LAMBDA u : Sym(")", u),
              LAMBDA a, v, b : <<"Function", fn, v>>, t1))

parse_coalesce_arg(t) == parse_variable_node(t) \sqcup parse_constant(t)
parse_coalesce(t) ==
    Then(Prefix("coalesce", "", t), LAMBDA k, t1 :
    Then(Sym("(", t1), LAMBDA o, t2 :
    Then(separated_list0(parse_coalesce_arg, t2), LAMBDA args, t3 :
        IF Len(args) < 2 THEN Fail ELSE Map(Sym(")", t3), LAMBDA c : <<"Coalesce", args>>))))

parse_nullary_function(t) ==
    Three(LAMBDA u : Whole("now", "", u), LAMBDA u : Sym("(", u), LAMBDA u : Sym(")", u),
          LAMBDA a, b, c : <<"Function", "Now", <<"Void">>>>, t)

parse_variable_node_or_modified(t) ==
    parse_coalesce(t) \sqcup (parse_nullary_function(t) \sqcup
    (parse_variable_node_modifier(t) \sqcup parse_variable_node(t)))

parse_segment_call(t) ==
    Then(Prefix("segment", "", t), LAMBDA k, t1 :
        Three(LAMBDA u : Sym("(", u), DashedWord, LAMBDA u : Sym(")", u),
              LAMBDA o, name, c : <<"Segment", name>>, t1))

----------------------------------------------------------------------------
(* Comparisons *)

parse_array_expr(t) ==
    Three(parse_variable_node_or_modified, parse_array_op, parse_list,
          LAMBDA v, op, l : <<"Array", v, op, l>>, t)

parse_compare_expr(t) ==
    Three(parse_variable_node_or_modified, parse_comparison_op, parse_constant,
          LAMBDA v, op, c : <<"Compare", v, op, c>>, t)

parse_regex_literal(t) == IF Kind(t) = "regex" THEN Ok(<<"Regex", t[1][2]>>, Tail(t)) ELSE Fail
parse_match_rhs(t) ==
    Map(parse_regex_literal(t), LAMBDA a : <<"Constant", a>>) \sqcup parse_constant(t)
parse_match_expr(t) ==
    Three(parse_variable_node_or_modified, parse_match_op, parse_match_rhs,
          LAMBDA v, op, c : <<"Match", v, op, c>>, t)

parse_reverse_array_expr(t) ==
    Three(parse_constant, parse_array_op, parse_variable_node,
          LAMBDA c, op, v : <<"Array", c, op, v>>, t)

\* "is" and "not" may run into the next word, "null" may not.
parse_null_check(t) ==
    Then(parse_variable_node_or_modified(t), LAMBDA v, t1 :
    Then(Prefix("is", "", t1), LAMBDA k, t2 :
    Then(Opt(Prefix("not", "not", t2), t2), LAMBDA negated, t3 :
        Map(Whole("null", "", t3), LAMBDA n : <<"NullCheck", v, negated = None>>))))

parse_compare_or_array_expr(t) ==
    parse_null_check(t) \sqcup (parse_array_expr(t) \sqcup (parse_reverse_array_expr(t) \sqcup
    (parse_match_expr(t) \sqcup parse_compare_expr(t))))

\* The rate unwraps nothing that can fail; the salt has no quotes.
parse_percentage_salt(t) == Then(Sym(",", t), LAMBDA s, t1 : DashedWord(t1))
parse_percentage(t) ==
    Then(Prefix("percentage", "", t), LAMBDA k, t1 :
    Then(Sym("(", t1), LAMBDA o, t2 :
    Then(IF Kind(t2) = "rate" THEN Ok(t2[1][2], Tail(t2)) ELSE Fail, LAMBDA rate, t3 :
    Then(Sym(",", t3), LAMBDA s, t4 :
    Then(parse_variable_node(t4), LAMBDA field, t5 :
    Then(Opt(parse_percentage_salt(t5), t5), LAMBDA salt, t6 :
        Map(Sym(")", t6), LAMBDA c : <<"Percentage", rate, field, salt>>)))))))

----------------------------------------------------------------------------
(* Expressions *)

RECURSIVE parse_expr(_)

parse_parenthesized_expr(t) ==
    Then(Opt(Prefix("not", "not", t) \sqcup Sym("!", t), t), LAMBDA negation, t1 :
        Three(LAMBDA u : Sym("(", u), parse_expr, LAMBDA u : Sym(")", u),
              LAMBDA o, e, c : <<"Scope", e, negation # None>>, t1))

LogicOperand(t) == parse_compare_or_array_expr(t) \sqcup parse_parenthesized_expr(t)
parse_logic_expr(t) ==
    Three(LogicOperand, parse_logic_op, LogicOperand, LAMBDA a, op, b : <<"Logic", a, op, b>>, t)

TailOperand(t) ==
    parse_percentage(t) \sqcup (parse_segment_call(t) \sqcup
    (parse_compare_or_array_expr(t) \sqcup parse_parenthesized_expr(t)))

\* many0 of an operator and an operand, folded to the left.
RECURSIVE Chain(_, _)
Chain(head, t) ==
    LET link == Then(parse_logic_op(t), LAMBDA op, t1 :
                    Map(TailOperand(t1), LAMBDA e : <<"Logic", head, op, e>>))
    IN CASE Parsed(link) -> Chain(link[1], link[2])
         [] Stops(link) -> link
         [] OTHER -> Ok(head, t)

\* Mutant of parse_expr: the operators bind to the right.
right_expr(t) ==
    Then(parse_parenthesized_expr(t) \sqcup (parse_percentage(t) \sqcup (parse_segment_call(t) \sqcup
         (parse_compare_or_array_expr(t) \sqcup parse_constant(t)))),
         LAMBDA head, t1 :
            Then(parse_logic_op(t1), LAMBDA op, t2 :
                Map(parse_expr(t2), LAMBDA e : <<"Logic", head, op, e>>)) \sqcup Ok(head, t1))

parse_expr(t) ==
    Then(parse_parenthesized_expr(t) \sqcup (parse_percentage(t) \sqcup (parse_segment_call(t) \sqcup
         (parse_logic_expr(t) \sqcup (parse_compare_or_array_expr(t) \sqcup parse_constant(t))))),
         Chain)

Parse(t) == parse_expr(t) \sqcup parse_parenthesized_expr(t)
============================================================================
