----------------------------- MODULE MCLanguage -----------------------------
\* A small vocabulary for each topic of Language.
EXTENDS LanguageProperties, TLC

W(p) == <<<<"word", <<p>>>>>>
S(s) == <<<<"sym", s>>>>
Num(n) == <<<<"num", n>>>>
Str(s) == <<<<"str", s>>>>
Is(v, n) == W(v) \o S("==") \o Num(n)
One(chunks) == {<<c>> : c \in chunks}

----------------------------------------------------------------------------
(* A comparison: what is compared, how, and with what *)

MCLefts == {
    W("a"), W("upper") \o S("(") \o W("a") \o S(")"),
    W("coalesce") \o S("(") \o W("b") \o S(",") \o W("a") \o S(",") \o Num(1) \o S(")"),
    W("now") \o S("(") \o S(")"),
    Num(1), Str(<<"a", "b">>), <<<<"word", <<"is", "null">>>>>>, <<<<"word", <<"true", "x">>>>>>}
MCOperators == {
    S("=="), S("!="), S("<"), S(">="), S("~"), S("!~"), S("^~"), S("!~$"),
    W("in"), W("not") \o W("in"), <<<<"word", <<"in", "b">>>>>>,
    W("is"), W("is") \o W("not"), S(",")}
List(items) == S("(") \o items \o S(")")
MCRights == {
    Num(1), Num(3000000), <<<<"float", 150>>>>, <<<<"float", -50>>>>, <<<<"brokenfloat", 150>>>>,
    <<<<"semver", 1, 5, 0>>>>, <<<<"semver", 1, 4000003, 0>>>>,
    <<<<"date", 2025, 1, 1, "full">>>>, <<<<"date", 2025, 1, 1, "short">>>>, <<<<"date", 2025, 2, 30, "full">>>>,
    <<<<"datetime", 2025, 1, 1, 0>>>>, <<<<"datetime", 2025, 1, 1, 24>>>>,
    Str(<<"a">>), Str(<<"T">>), <<<<"regex", <<"a">>>>>>, <<<<"regex", <<"(">>>>>>,
    W("true"), W("a"), W("null"), <<<<"word", <<"null", "s">>>>>>,
    List(Num(1) \o S(",") \o Str(<<"a", "b">>)), List(<<>>), List(Num(1) \o S(","))}

(* A condition: operands and connectives *)

A == Is("a", 1)
Bare == W("a")
Percent == W("percentage") \o S("(") \o <<<<"rate", 500000, "plain">>>> \o S(",") \o W("a") \o S(")")
Not(chunks) == <<W("not"), S("(")>> \o chunks
MCFirst == {<<A>>, <<Bare>>, <<Percent>>, <<S("("), A>>, <<S("("), S("("), Bare>>, Not(<<A>>)}
MCSecond == {<<A>>, <<Percent>>, <<S("("), A>>, <<A, S(")")>>, Not(<<A>>)}
MCThird == {<<A>>, <<A, S(")")>>, <<S("!"), S("("), Bare, S(")")>>}
MCFourth == {<<A>>, <<A, S(")")>>}
MCConnectives == {<<W("and")>>, <<W("or")>>}

(* A rollout: its beginning, its rate, its end *)

MCRollout == {<<W("percentage") \o S("(")>>}
MCRates == {<<<<<<"rate", r, w>>>>>> : r \in {0, 123456, 499990, 500000, 700000, 1000000}, w \in {"plain"}}
             \cup {<<<<<<"rate", -50000, "signed">>>>>>, <<<<<<"rate", 5000, "dotted">>>>>>}
MCEnds == {<<S(",") \o W("a") \o S(")")>>,
           <<S(",") \o W("a") \o S(",") \o <<<<"dashed", "x", "b">>>> \o S(")")>>}

(* Segments *)

Seg(name) == W("segment") \o S("(") \o W(name) \o S(")")
MCSegmentTexts == {
    <<A>>, <<Seg("s1")>>, <<Seg("s2")>>, <<Seg("s3")>>,
    <<W("not") \o S("("), Seg("s1"), S(")")>>, <<A, W("or"), Seg("s2")>>, <<Seg("s3"), W("and"), Seg("s2")>>}

MCPhrases ==
    [leaf |-> <<One(MCLefts), One(MCOperators), One(MCRights)>>,
     chain |-> <<MCFirst, MCConnectives, MCSecond, MCConnectives, MCThird, MCConnectives, MCFourth>>,
     rollout |-> <<MCRollout, MCRates, MCEnds>>,
     segments |-> <<MCSegmentTexts>>]

MCSegmentNames == {<<"s1">>, <<"s2">>, <<"s3">>}

----------------------------------------------------------------------------
(* Rules *)

TreeOf(text) == ParseAs("rust", text)[1]
On == <<"OnOff", TRUE>>
Off == <<"OnOff", FALSE>>
MCRules == {
    <<"Value", On>>, <<"Value", Off>>, <<"Expr", TreeOf(A), Off>>, <<"Expr", TreeOf(W("true")), On>>,
    <<"Expr", TreeOf(Seg("s1")), On>>,
    <<"Env", <<"x">>, <<<<"Expr", TreeOf(A), On>>>>>>,
    <<"Env", <<"x">>, <<<<"Expr", TreeOf(W("true")), Off>>, <<"Value", <<"Integer", 1>>>>>>>>}
MCSegmentChoices == {
    [s \in {} |-> <<>>], [s \in {<<"s1">>} |-> TreeOf(A)], [s \in {<<"s1">>} |-> TreeOf(Seg("s1"))]}
MCFlagNames == <<<<"f">>, <<"g">>>>
MCRulePool == <<MCRules, {<<"Value", On>>, <<"Expr", TreeOf(A), On>>}>>
MCMaxRules == <<3, 1>>
MCRequirePool == <<{<<"f">>, <<"g">>, <<"h">>}, {<<"f">>}>>

----------------------------------------------------------------------------
(* Files *)

MCRoot == <<"r", "Flagfile">>
MCFileA == <<"r", "a">>
MCFileB == <<"r", "d", "b">>
MCOutside == <<"out">>
MCLinks == (<<"r", "la">> :> MCFileA) @@ (<<"r", "lout">> :> MCOutside)
Inc(raw) == <<"include", raw>>
MCLinePool ==
    (MCRoot :> {<<"open">>, <<"close">>, <<"hidden", <<"a">>>>, <<"comment", <<"a">>>>, Inc(<<"a">>), Inc(<<"d", "b">>),
                Inc(<<"la">>), Inc(<<"lout">>), Inc(<<"/", "r", "a">>), Inc(<<"..", "r", "a">>), Inc(<<>>)}) @@
    (MCFileA :> {<<"open">>, Inc(<<"d", "b">>), Inc(<<"la">>), Inc(<<"Flagfile">>)}) @@
    (MCFileB :> {<<"text", "x">>, Inc(<<"b">>), Inc(<<"a">>), Inc(<<"..", "a">>)}) @@
    (MCOutside :> {})
MCMaxLines == (MCRoot :> 3) @@ (MCFileA :> 1) @@ (MCFileB :> 1) @@ (MCOutside :> 0)

----------------------------------------------------------------------------
(* Values of the context, and the hash *)

MCAllValues == {
    <<"Number", 1>>, <<"Number", -1>>, <<"Float", 150>>, <<"Float", 100000050>>, <<"Float", -50>>,
    <<"Boolean", TRUE>>, <<"Boolean", FALSE>>, <<"Semver", <<1, 5, 0>>>>,
    <<"Date", 20250101>>, <<"DateTime", 20250101, 0>>, <<"DateTime", 20250101, 7>>,
    <<"String", <<"a">>>>, <<"String", <<"a", "b">>>>, <<"String", <<"1">>>>,
    <<"List", <<<<"Number", 1>>, <<"String", <<"a">>>>>>>>}

MCFewValues == {<<"Number", 1>>, <<"Boolean", TRUE>>, <<"String", <<"a">>>>}
MCValues == [t \in {"leaf", "rollout", "chain", "segments", "flags", "files"} |->
    CASE t \in {"leaf", "rollout"} -> MCAllValues [] t = "chain" -> MCFewValues [] OTHER -> {<<"Number", 1>>}]

\* Digests that depend on every character, with low parts of both roundings,
\* and keys near the threshold of one half and near the ends.
Code == [c \in {"f", ".", "a", "b", "x", "1", "5", "A", "B", "-", "0", "T", "2", " "} |->
    CASE c = "f" -> 3 [] c = "." -> 5 [] c = "a" -> 7 [] c = "b" -> 11 [] c = "x" -> 13 [] c = "1" -> 17
      [] c = "5" -> 19 [] c = "A" -> 23 [] c = "B" -> 29 [] c = "-" -> 31 [] c = "T" -> 43 [] OTHER -> 37]
MCDigest(text) ==
    LET code(c) == IF c \in DOMAIN Code THEN Code[c] ELSE 41
        sum == FoldLeft(LAMBDA acc, c : (acc * 131 + code(c)) % 99991, 7, text)
    IN CASE text = <<"f", ".", "a">> -> <<1953, 17>>       \* bucket 50001
         [] text = <<"f", ".", "a", "b">> -> <<1953, 15>>  \* bucket 49999
         [] text = <<"f", ".", "1">> -> <<25000, 0>>        \* bucket 0
       [] text = <<"f", ".", "1", ".", "5">> -> <<3124, 78>> \* bucket 99950
         [] OTHER -> <<sum, sum % 128>>
MCEnvs == {<<>>, <<"x">>}
MCLocal == <<20250101, 7>>
MCUtc == <<20250101, 0>>
=============================================================================
