----------------------------- MODULE Language ------------------------------
(***************************************************************************)
(* The Flagfile language at its authors' hands: an author types a          *)
(* condition, defines segments, writes rules, states requirements, raises  *)
(* the rate of a rollout, or splits a flagfile into files.  Each behaviour *)
(* is about one of these topics.  The three ports parse and evaluate what  *)
(* is written, the linter judges it, the expansion of includes merges it.  *)
(*                                                                         *)
(* A text is typed in phrases, a phrase is a sequence of chunks, a chunk   *)
(* a sequence of tokens (Peg).                                             *)
(***************************************************************************)
EXTENDS Ports, Lints, Includes, SequencesExt

CONSTANTS
    ParseAs(_, _),    \* the three parsers, evaluators and rules' loops, which are
    Evaluate(_, _, _, _, _),    \* ParseIn, AnswerIn and ValueIn of Ports
    ValueOf(_, _, _, _, _, _),
    Phrases,        \* of each topic, the phrases that may come first, second ..
    SegmentNames,
    SegmentChoices, \* the segments a flag's rules find defined
    FlagNames,      \* a sequence: the flags, first the one written in full
    RulePool,       \* of each flag in the sequence, the rules it may get
    MaxRules,       \* how many
    RequirePool,    \* and the flags it may require
    LinePool,       \* of each file, the lines it may get
    MaxLines,       \* and how many
    Links, Root,    \* links to real paths, and the flagfile's directory
    Values,         \* of each topic, the values of the context's variable
    Envs

\* The phrases of a rollout: its beginning, a rate, its end.
ASSUME RolloutAssumption ==
    Len(Phrases["rollout"]) = 3 /\ \A p \in Phrases["rollout"][2] : p[1][1][1] = "rate"

VARIABLES
    topic,
    typed,      \* the phrases typed so far
    segments,   \* of each segment defined, its expression
    flags,      \* the flags in order, with their rules and requirements
    disk        \* of each file, its lines

vars == <<topic, typed, segments, flags, disk>>

NoFlag(name) == [name |-> name, rules |-> <<>>, requires |-> <<>>]
NoSegments == [s \in {} |-> <<>>]

Init ==
    /\ topic \in {"leaf", "chain", "rollout", "segments", "flags", "files"}
    /\ typed = <<>>
    /\ IF topic = "flags" THEN segments \in SegmentChoices ELSE segments = NoSegments
    /\ flags = [i \in DOMAIN FlagNames |-> NoFlag(FlagNames[i])]
    /\ disk = [path \in DOMAIN LinePool |-> <<>>]

Chunks == FlattenSeq(typed)
Text == FlattenSeq(Chunks)

----------------------------------------------------------------------------

Type(phrase) ==
    /\ topic \in DOMAIN Phrases
    /\ Len(typed) < Len(Phrases[topic])
    /\ phrase \in Phrases[topic][Len(typed) + 1]
    /\ typed' = Append(typed, phrase)
    /\ UNCHANGED <<topic, segments, flags, disk>>

\* parse_flagfile keeps a segment's whole condition; a second definition of a
\* name replaces the first.
Define(name) ==
    LET parsed == ParseAs("rust", Text)
    IN /\ topic = "segments"
       /\ typed # <<>>
       /\ RustParse!Parsed(parsed) /\ parsed[2] = <<>>
       /\ segments' = [s \in DOMAIN segments \cup {name} |->
                            IF s = name THEN parsed[1] ELSE segments[s]]
       /\ typed' = <<>>
       /\ UNCHANGED <<topic, flags, disk>>

AddRule(i, rule) ==
    /\ topic = "flags"
    /\ Len(flags[i].rules) < MaxRules[i]
    /\ flags' = [flags EXCEPT ![i].rules = Append(@, rule)]
    /\ UNCHANGED <<topic, typed, segments, disk>>

\* One requirement for each flag.
Require(i, name) ==
    /\ topic = "flags"
    /\ flags[i].requires = <<>>
    /\ flags' = [flags EXCEPT ![i].requires = <<name>>]
    /\ UNCHANGED <<topic, typed, segments, disk>>

AddLine(path, line) ==
    /\ topic = "files"
    /\ Len(disk[path]) < MaxLines[path]
    /\ disk' = [disk EXCEPT ![path] = Append(@, line)]
    /\ UNCHANGED <<topic, typed, segments, flags>>

Rate(text) == text[CHOOSE i \in DOMAIN text : text[i][1] = "rate"][2]
RaiseRate(phrase) ==
    /\ topic = "rollout" /\ Len(typed) = 3
    /\ phrase[1][1][2] > Rate(Text)
    /\ typed' = [typed EXCEPT ![2] = phrase]
    /\ UNCHANGED <<topic, segments, flags, disk>>

Next ==
    \/ \E t \in DOMAIN Phrases : \E i \in DOMAIN Phrases[t] : \E phrase \in Phrases[t][i] :
            topic = t /\ Len(typed) + 1 = i /\ Type(phrase)
    \/ \E name \in SegmentNames : Define(name)
    \/ \E i \in DOMAIN FlagNames :
        \/ \E rule \in RulePool[i] : AddRule(i, rule)
        \/ \E name \in RequirePool[i] : Require(i, name)
    \/ \E path \in DOMAIN LinePool : \E line \in LinePool[path] : AddLine(path, line)
    \/ \E phrase \in Phrases["rollout"][2] : RaiseRate(phrase)

Spec == Init /\ [][Next]_vars

----------------------------------------------------------------------------
(* Contexts and flags *)

Contexts == {[v \in {} |-> <<>>]} \cup {[v \in {<<"a">>} |-> value] : value \in Values[topic]}

\* The library keeps flags by name, the last definition of a name.
FlagMap ==
    [n \in Names(flags) |->
        LET last == CHOOSE i \in DOMAIN flags : flags[i].name = n /\
                        \A j \in DOMAIN flags : flags[j].name = n => j <= i
        IN [rules |-> flags[last].rules, requires |-> flags[last].requires]]

Orders == SetToSeqs(SegmentNames)
============================================================================
