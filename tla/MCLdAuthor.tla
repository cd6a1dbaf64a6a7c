----------------------------- MODULE MCLdAuthor -----------------------------
EXTENDS LdAuthor

Name(n) == <<"Variable", <<"Variable", n>>>>
Text(t) == <<"String", t>>
Premium == <<"Compare", Name(<<"p">>), "Eq", <<"Constant", Text(<<"a">>)>>>>
Abroad  == <<"Array", Name(<<"c">>), "NotIn", <<"List", <<Text(<<"x">>), Text(<<"b">>)>>>>>>
Adult   == <<"Compare", Name(<<"n">>), "MoreEq", <<"Constant", <<"Number", 5>>>>>>
Staff   == <<"Match", Name(<<"p">>), "NotEndsWith", <<"Constant", Text(<<"b">>)>>>>
Version(op) == <<"Compare", Name(<<"v">>), op, <<"Constant", <<"Semver", <<1, 2, 0>>>>>>>>
Day(op) == <<"Compare", Name(<<"d">>), op, <<"Constant", <<"Date", 20250301>>>>>>
Beta    == <<"Segment", <<"s">>>>
Percent(rate) == <<"Percentage", rate, Name(<<"p">>), None>>

MCSegments == (<<"s">> :> <<"Logic", Premium, "Or", Adult>>)
MCLeaf == {Abroad, Staff, Version("Less"), Version("MoreEq"), Day("More"), Beta, Percent(333337), Percent(1500000)}

MCReturn == {True, False, <<"Json", <<"Text", <<>>>>>>}
MCRequired == {None, <<<<"Expr", Adult, True>>, <<"Value", False>>>>,
               <<<<"Expr", Adult, False>>, <<"Value", True>>>>}
Dev == <<"d">>
MCEnvs == {Dev, <<"e">>}
MCBlocks == {Dev}
MCContexts ==
    {(<<"p">> :> Text(p)) @@ (<<"c">> :> Text(c)) @@ (<<"n">> :> <<"Number", n[1]>>) @@
     (<<"v">> :> <<"Semver", <<1, n[2], 0>>>>) @@
     (<<"d">> :> <<"Date", IF c = <<"b">> THEN 20250301 ELSE 20250401>>) :
        p \in {<<"a">>, <<"a", "b">>}, c \in {<<"b">>, <<"a">>}, n \in {<<4, 2>>, <<5, 1>>}}

\* Of the two texts that are bucketed, one is below a third and one above.
MCDigest(text) == IF text[Len(text)] = "b" THEN <<100, 0>> ELSE <<500, 0>>
MCLocal == <<20250101, 7>>
=============================================================================
