-------------------------------- MODULE Peg --------------------------------
(***************************************************************************)
(* What the three expression parsers are built from.  A text is a sequence *)
(* of tokens, a token a tuple whose first element is its kind:             *)
(*                                                                         *)
(*   <<"word", ps>>           a maximal run of word characters, cut into   *)
(*                            pieces ps where a keyword ends inside it     *)
(*                            (<<"and", "roid">> is "android")             *)
(*   <<"dashed", p, q>>       p-q                                          *)
(*   <<"str", s>> <<"regex", s>>       a quoted text, /s/                  *)
(*   <<"num", n>> <<"float", h>>       n, h hundredths                     *)
(*   <<"brokenfloat", h>>     a float followed by an exponent with no      *)
(*                            digits ("1.5e")                              *)
(*   <<"semver", a, b, c>>                                                 *)
(*   <<"date", y, m, d, w>>   w tells "full" (two digits) from "short"     *)
(*   <<"datetime", y, m, d, hour>>                                         *)
(*   <<"rate", r, w>>         r ten-thousandths of a percent and "%", w is *)
(*                            "plain", "signed" or "dotted" (".5%")        *)
(*   <<"sym", s>>             an operator or a bracket                     *)
(*                                                                         *)
(* Blanks between tokens are not represented: a text stands for the one    *)
(* with a blank between two words and none before a bracket.               *)
(*                                                                         *)
(* A parse gives <<value, rest>>, or Fail (the parser does not apply and   *)
(* the text is untouched), or stops the whole parse: <<"panic">> when the  *)
(* code unwraps an error, <<"failure">> when nom's cut commits to one.     *)
(***************************************************************************)
EXTENDS Integers, Sequences

Fail == <<>>
Panic == <<"panic">>
Failure == <<"failure">>
Ok(v, t) == <<v, t>>
None == <<>>

Parsed(r) == Len(r) = 2
Stops(r) == Len(r) = 1

\* Ordered choice: the second alternative is tried when the first fails.
a \sqcup b == IF a = Fail THEN b ELSE a

Then(r, Next(_, _)) == IF Parsed(r) THEN Next(r[1], r[2]) ELSE r
Map(r, F(_)) == IF Parsed(r) THEN Ok(F(r[1]), r[2]) ELSE r
\* An optional part: <<its value>>, or None.
Opt(r, t) == Map(r, LAMBDA v : <<v>>) \sqcup Ok(None, t)

Kind(t) == IF t = <<>> THEN "end" ELSE t[1][1]
Pieces(t) == t[1][2]

Sym(s, t) == IF t # <<>> /\ t[1] = <<"sym", s>> THEN Ok(s, Tail(t)) ELSE Fail
OneOf(table, t) ==
    IF Kind(t) = "sym" /\ t[1][2] \in DOMAIN table THEN Ok(table[t[1][2]], Tail(t)) ELSE Fail

\* The text after the first piece of the word it begins with.
AfterPiece(t) ==
    IF Len(Pieces(t)) = 1 THEN Tail(t) ELSE <<<<"word", Tail(Pieces(t))>>>> \o Tail(t)

\* A keyword as a prefix of the text, and one that ends where the word ends.
Prefix(k, v, t) == IF Kind(t) = "word" /\ Pieces(t)[1] = k THEN Ok(v, AfterPiece(t)) ELSE Fail
Whole(k, v, t) == IF Kind(t) = "word" /\ Pieces(t) = <<k>> THEN Ok(v, Tail(t)) ELSE Fail

Word(t) ==
    CASE Kind(t) = "word" -> Ok(Pieces(t), Tail(t))
      [] Kind(t) = "dashed" -> Ok(<<t[1][2]>>, <<<<"sym", "-">>, <<"word", <<t[1][3]>>>>>> \o Tail(t))
      [] OTHER -> Fail
DashedWord(t) ==
    CASE Kind(t) = "word" -> Ok(Pieces(t), Tail(t))
      [] Kind(t) = "dashed" -> Ok(<<t[1][2], "-", t[1][3]>>, Tail(t))
      [] OTHER -> Fail

\* Three parts in a row, and the node built from them.
Three(A(_), B(_), C(_), Build(_, _, _), t) ==
    Then(A(t), LAMBDA a, t1 :
        Then(B(t1), LAMBDA b, t2 :
            Then(C(t2), LAMBDA c, t3 : Ok(Build(a, b, c), t3))))

\* What a date token is when no date parser takes it: the number of its year,
\* then two negative numbers.
Undated(t) ==
    <<<<"num", t[1][2]>>, <<"num", 0 - t[1][3]>>, <<"num", 0 - t[1][4]>>>> \o
    (IF Kind(t) = "datetime" THEN <<<<"word", <<"T">>>>>> ELSE <<>>) \o Tail(t)

\* The calendar, with months of thirty days and a short February, and the
\* days as numbers in their order.
IsDay(m, d) == m \in 1 .. 12 /\ d \in 1 .. (IF m = 2 THEN 28 ELSE 30)
Day(y, m, d) == y * 10000 + m * 100 + d
============================================================================
