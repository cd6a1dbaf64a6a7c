------------------------- MODULE LanguageProperties -------------------------
(***************************************************************************)
(* What is expected of the language: that its ports agree, that texts mean *)
(* what the documentation says, and that the linter and the expansion of   *)
(* includes are right about what they accept and refuse.                   *)
(***************************************************************************)
EXTENDS Language

Parsed == ParseAs("rust", Text)
Whole == RustParse!Parsed(Parsed) /\ Parsed[2] = <<>>
Tree == Parsed[1]

----------------------------------------------------------------------------
(* The ports *)

\* The tokens the ports are known to read in different ways: numbers, versions
\* and days outside of their range, a day with one digit, a broken exponent.
Odd(token) ==
    CASE token[1] = "num" -> token[2] \notin (0 - I32Max - 1) .. I32Max
      [] token[1] = "semver" -> \E i \in 2 .. 4 : token[i] > U32Max
      [] token[1] = "date" -> token[5] = "short" \/ ~RustParse!IsDay(token[3], token[4])
      [] token[1] = "datetime" -> token[5] >= 24 \/ ~RustParse!IsDay(token[3], token[4])
      [] OTHER -> token[1] = "brokenfloat"

\* What only the TypeScript parser reads differently: a word that begins with
\* a keyword, a rate with a sign or without a whole part, a comma that ends a
\* list, a salt with a hyphen.
OddInTs(text) ==
    \E i \in DOMAIN text :
        \/ text[i][1] = "word" /\ Len(text[i][2]) > 1
        \/ text[i][1] = "rate" /\ text[i][3] # "plain"
        \/ i > 1 /\ text[i] = <<"sym", ")">> /\ text[i - 1] = <<"sym", ",">>
        \/ i > 1 /\ text[i][1] = "dashed" /\ text[i - 1] = <<"sym", ",">>

\* A text without such tokens is read in the same way by the three parsers,
\* the part of it they leave included: the order of their alternatives and
\* what each gives back when it fails agree (parse.rs, parser.go, parser.ts).
SameTree ==
    typed # <<>> /\ (\A i \in DOMAIN Text : ~Odd(Text[i])) =>
        /\ ParseAs("go", Text) = Parsed
        /\ OddInTs(Text) \/ ParseAs("ts", Text) = Parsed

Atoms(e, ctx) ==
    UNION {IF n[1] = "List" THEN Range(n[2]) ELSE IF n[1] = "Constant" THEN {n[2]} ELSE {}
           : n \in Nodes(e)}
    \cup {ctx[v] : v \in DOMAIN ctx}
TakesText(n) == n[1] \in {"Match", "Percentage"} \/ (n[1] = "Function" /\ n[2] # "Now")
DateTimeAsText(e, ctx) ==
    /\ \E n \in Nodes(e) : TakesText(n)
    /\ \/ \E a \in Atoms(e, ctx) : a[1] = "DateTime"
       \/ \E n \in Nodes(e) : n[1] = "Function" /\ n[2] = "Now"

BucketOf(n, ctx) ==
    Rust!Bucket(Digest(Rust!HashInput(FlagNames[1], n[4],
        Rust!display(Rust!get_variable_value_from_context(n[3], ctx)))))
\* A key within 64 buckets of the threshold, or of the ends.
NearThreshold(n, ctx) ==
    /\ Rust!get_variable_value_from_context(n[3], ctx) # Rust!None
    /\ \/ BucketOf(n, ctx) - Rust!Threshold(n[2]) \in -64 .. 64
       \/ BucketOf(n, ctx) \in 0 .. 64 \cup 99935 .. 99999

\* Go formats large floats with an exponent, has its clock in UTC, and leaves
\* the conversion of a negative rate to the build.
GoDiffers(e, ctx) ==
    \/ DateTimeAsText(e, ctx)
    \/ \E n \in Nodes(e) : n[1] = "Function" /\ n[2] = "Now"
    \/ \E n \in Nodes(e) : n[1] = "Percentage" /\ n[2] < 0
    \/ \E a \in Atoms(e, ctx) : a[1] = "Float" /\ Go!Exponential(a[2])
\* TypeScript reads versions out of negative floats, ignores an anchor before a
\* regular expression, and rounds the sixty bits of a key's hash.
TsDiffers(e, ctx) ==
    \/ DateTimeAsText(e, ctx)
    \/ \E a \in Atoms(e, ctx) : a[1] = "Float" /\ a[2] < 0
    \/ \E n \in Nodes(e) :
        \/ n[1] = "Match" /\ n[3] \notin {"Contains", "NotContains"} /\ n[4][2][1] = "Regex"
        \/ n[1] = "Percentage" /\ NearThreshold(n, ctx)

\* What one port parses whole has the same answer in each of them, for every
\* context, apart from the differences named above (eval.rs, eval.go, eval.ts).
SameAnswer ==
    Whole => \A ctx \in Contexts :
        LET answer == Evaluate("rust", Tree, ctx, FlagNames[1], segments)
        IN /\ GoDiffers(Tree, ctx) \/ Evaluate("go", Tree, ctx, FlagNames[1], segments) = answer
           /\ TsDiffers(Tree, ctx) \/ Evaluate("ts", Tree, ctx, FlagNames[1], segments) = answer

----------------------------------------------------------------------------
(* The meaning of a text *)

Chunk(word) == <<<<"word", <<word>>>>>>
Bracket(s) == <<<<"sym", s>>>>
Connective == {Chunk("and"), Chunk("or")}
Negation == {Chunk("not"), Bracket("!")}

\* The truth of an operand that stands alone, and of a marker of one.
Marker(b) == <<<<"truth", b>>>>
TruthOf(chunk, ctx) ==
    IF chunk[1][1] = "truth" THEN chunk[1][2]
    ELSE Evaluate("rust", ParseAs("rust", chunk)[1], ctx, FlagNames[1], segments) = "yes"

\* Operands and connectives in turn, from the left; precedence has no say.
RECURSIVE LeftToRight(_, _)
LeftToRight(cs, ctx) ==
    LET n == Len(cs)
    IN IF n = 1 THEN TruthOf(cs[1], ctx)
       ELSE IF cs[n - 1] = Chunk("and")
            THEN LeftToRight(SubSeq(cs, 1, n - 2), ctx) /\ TruthOf(cs[n], ctx)
            ELSE LeftToRight(SubSeq(cs, 1, n - 2), ctx) \/ TruthOf(cs[n], ctx)

\* The first bracket that closes gives way to the truth of what it encloses.
RECURSIVE Meaning(_, _)
Meaning(cs, ctx) ==
    LET closing == {i \in DOMAIN cs : cs[i] = Bracket(")")}
        j == CHOOSE i \in closing : \A k \in closing : i <= k
        opening == {i \in 1 .. j : cs[i] = Bracket("(")}
        i == CHOOSE h \in opening : \A k \in opening : k <= h
        inside == LeftToRight(SubSeq(cs, i + 1, j - 1), ctx)
        negated == i > 1 /\ cs[i - 1] \in Negation
        before == SubSeq(cs, 1, IF negated THEN i - 2 ELSE i - 1)
    IN IF closing = {} THEN LeftToRight(cs, ctx)
       ELSE Meaning(before \o <<Marker(inside # negated)>> \o SubSeq(cs, j + 1, Len(cs)), ctx)

\* A condition of operands, connectives and brackets that parses means what
\* docs/syntax/05-logic-and-grouping.md says: connectives from left to right,
\* brackets first, "not" for the bracket it stands before.
ChainsLeft ==
    topic = "chain" /\ Whole =>
        \A ctx \in Contexts :
            Meaning(Chunks, ctx) = (Evaluate("rust", Tree, ctx, FlagNames[1], segments) = "yes")

----------------------------------------------------------------------------
(* Rollouts *)

\* The ports in which a text's rollout includes the key of a context.  Go's
\* conversion of a negative rate is left out.
RolledOut(text, ctx) ==
    LET e == ParseAs("rust", text)[1]
    IN {p \in {"rust", "go", "ts"} :
            CASE p = "rust" -> Evaluate("rust", e, ctx, FlagNames[1], segments) = "yes"
              [] p = "go" -> Rate(text) >= 0 /\ Evaluate("go", e, ctx, FlagNames[1], segments) = "yes"
              [] p = "ts" -> Evaluate("ts", e, ctx, FlagNames[1], segments) = "yes"}

\* Raising the rate of a rollout takes it away from nobody who had it, in any
\* of the ports: a key's bucket does not depend on the rate and the threshold
\* grows with it (docs/syntax/10-percentage-rollouts.md: the same user gets
\* the same answer every time).
RampUpKeepsUsers ==
    [][topic = "rollout" /\ Len(typed) = 3 =>
        \A ctx \in Contexts : RolledOut(Text, ctx) \subseteq RolledOut(Text', ctx)]_vars

----------------------------------------------------------------------------
(* Segments, rules and the linter *)

\* The linter reports a circle of segments exactly when the evaluation of some
\* segment does not end, in whatever order it meets the segments; the three
\* evaluators recurse without a limit (eval.rs:213, circular_segments.rs:34).
LintFindsLoops ==
    topic = "segments" =>
        LET endless == \E s \in DOMAIN segments : \E ctx \in Contexts :
                Evaluate("rust", <<"Segment", s>>, ctx, FlagNames[1], segments) = "overflow"
        IN \A order \in Orders : endless = (circular_segments(segments, order) # {})

\* The server answers with a copy of the library's loop (routes.rs:552-617):
\* for every flag, context and environment it gives the value the library and
\* the Go and TypeScript packages give, none included.
ServerAgrees ==
    topic = "flags" => \A f \in DOMAIN FlagMap, ctx \in Contexts, env \in Envs :
        LET value == ValueOf("rust", f, ctx, FlagMap, segments, env)
        IN \A port \in {"server", "go", "ts"} :
                ValueOf(port, f, ctx, FlagMap, segments, env) = value

\* The value of a flag with these rules and no requirements.
Alone(f, rules, ctx, env) ==
    ValueOf("rust", f, ctx, [g \in {f} |-> [rules |-> rules, requires |-> <<>>]], segments, env)

\* A rule the linter calls unreachable, or one that follows a condition it
\* calls always true, never decides: without it every answer is the same.
UnreachableNeverDecides ==
    topic = "flags" =>
        LET rules == flags[1].rules
            useless == {i \in DOMAIN rules :
                            \/ i \in unreachable_rules(rules)
                            \/ \E j \in 1 .. i - 1 : <<j>> \in tautology(rules)}
        IN \A i \in useless, ctx \in Contexts, env \in Envs :
                Alone(FlagNames[1], RemoveAt(rules, i), ctx, env) = Alone(FlagNames[1], rules, ctx, env)

\* A flagfile the linter accepts answers: for every flag, context and
\* environment the evaluation ends, and it gives a value unless a flag it
\* requires is not on.
AcceptedAnswers ==
    topic = "flags" /\ (\E order \in Orders : run_lint_inner(flags, segments, order)) =>
        \A f \in DOMAIN FlagMap, ctx \in Contexts, env \in Envs :
            LET value(g) == Alone(g, FlagMap[g].rules, ctx, env)
            IN /\ value(f) \notin {Rust!None, Rust!Overflow}
               /\ ValueOf("rust", f, ctx, FlagMap, segments, env) =
                    IF \E r \in Range(FlagMap[f].requires) : value(r) # <<"OnOff", TRUE>>
                    THEN Rust!None ELSE value(f)

----------------------------------------------------------------------------
(* Includes *)

\* The lines of a file that are not inside a comment.
Active(lines) ==
    {k \in DOMAIN lines :
        ~ \E j \in 1 .. k - 1 : lines[j][1] = "open" /\ \A m \in j + 1 .. k - 1 : lines[m][1] \notin {"close", "comment"}}
Includes(path) ==
    {k \in DOMAIN disk[path] : disk[path][k][1] = "include" /\ k \in Active(disk[path])}
Target(path, k) == CanonicalOf(parent_dir(path) \o disk[path][k][2], Links)
Good(path, k) ==
    /\ ~ \E n \in DOMAIN disk[path][k][2] : disk[path][k][2][n] \in {"/", ".."}
    /\ Target(path, k) \in DOMAIN disk
    /\ SubSeq(Target(path, k), 1, Len(parent_dir(Root))) = parent_dir(Root)
Included(path) == {Target(path, k) : k \in {m \in Includes(path) : Good(path, m)}}
RECURSIVE Reach(_)
Reach(paths) ==
    LET more == paths \cup UNION {Included(p) : p \in paths}
    IN IF more = paths THEN paths ELSE Reach(more)

\* The expansion of a flagfile succeeds exactly when every include line it
\* reaches outside of comments names a file below its directory and no file
\* includes itself, directly or not; a file two others include is included
\* twice.  What succeeds has included the files reached and no others.
IncludesResolve ==
    topic = "files" =>
        LET r == resolve_includes_from_path(Root, disk, Links)
            files == Reach({Root})
        IN /\ (r.error = "ok") =
                (\A p \in files : (\A k \in Includes(p) : Good(p, k)) /\ p \notin Reach(Included(p)))
           /\ r.error = "ok" =>
                {CanonicalOf(p, Links) : p \in Range(r.includes)} = files \ {Root}
============================================================================
