------------------------------- MODULE Texts -------------------------------
(***************************************************************************)
(* What the languages' libraries do with texts, which are sequences of     *)
(* characters, and the order of triples the three ports share.             *)
(***************************************************************************)
EXTENDS Integers, Sequences

Digit == <<"0", "1", "2", "3", "4", "5", "6", "7", "8", "9">>

RECURSIVE Decimal(_)
Decimal(n) ==
    CASE n < 0 -> <<"-">> \o Decimal(0 - n)
      [] n < 10 -> <<Digit[n + 1]>>
      [] OTHER -> Decimal(n \div 10) \o <<Digit[(n % 10) + 1]>>

RECURSIVE Joined(_, _)
Joined(parts, sep) ==
    CASE parts = <<>> -> <<>>
      [] Len(parts) = 1 -> parts[1]
      [] OTHER -> parts[1] \o sep \o Joined(Tail(parts), sep)

Two(n) == <<Digit[(n \div 10) + 1], Digit[(n % 10) + 1]>>

\* The characters a text of the model may hold that have another case.
Upper == [a |-> "A", b |-> "B", x |-> "X", true |-> "TRUE", false |-> "FALSE"]
ToUpper(s) == [i \in 1 .. Len(s) |-> IF s[i] \in DOMAIN Upper THEN Upper[s[i]] ELSE s[i]]
ToLower(s) ==
    [i \in 1 .. Len(s) |->
        IF \E c \in DOMAIN Upper : Upper[c] = s[i]
        THEN CHOOSE c \in DOMAIN Upper : Upper[c] = s[i] ELSE s[i]]

StartsWith(s, p) == Len(p) <= Len(s) /\ SubSeq(s, 1, Len(p)) = p
EndsWith(s, p) == Len(p) <= Len(s) /\ SubSeq(s, Len(s) - Len(p) + 1, Len(s)) = p
Contains(s, p) == \E i \in 0 .. Len(s) - Len(p) : SubSeq(s, i + 1, i + Len(p)) = p

\* Regular expressions: a pattern of ordinary characters is found where it is
\* contained, an open bracket does not compile and is then never found.
Finds(p, s) == p # <<"(">> /\ Contains(s, p)

DateText(d) == Decimal(d \div 10000) \o <<"-">> \o Two((d \div 100) % 100) \o <<"-">> \o Two(d % 100)

\* -1, 0 or 1.
Order(a, b) == IF a < b THEN -1 ELSE IF a > b THEN 1 ELSE 0
Lexicographic(s, t) ==
    LET differ == {i \in DOMAIN s : s[i] # t[i]}
        first == CHOOSE i \in differ : \A j \in differ : i <= j
    IN IF differ = {} THEN 0 ELSE Order(s[first], t[first])

\* A float of h hundredths as its shortest decimal form: whole part, and the
\* digits after the point, none when it is whole.
WholePart(h) == (IF h < 0 THEN 0 - h ELSE h) \div 100
Cents(h) == (IF h < 0 THEN 0 - h ELSE h) % 100
Decimals(h) ==
    CASE Cents(h) = 0 -> <<>>
      [] Cents(h) % 10 = 0 -> Decimal(Cents(h) \div 10)
      [] OTHER -> Two(Cents(h))
ShortestFloat(h) ==
    (IF h < 0 THEN <<"-">> ELSE <<>>) \o Decimal(WholePart(h)) \o
    (IF Decimals(h) = <<>> THEN <<>> ELSE <<".">> \o Decimals(h))
\* The number the digits after the point read as.
MinorOf(h) == IF Cents(h) % 10 = 0 THEN Cents(h) \div 10 ELSE Cents(h)
============================================================================
