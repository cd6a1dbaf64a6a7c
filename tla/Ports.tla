------------------------------- MODULE Ports -------------------------------
(***************************************************************************)
(* The three implementations of the language side by side, and the         *)
(* server's copy of the rules' loop.                                       *)
(***************************************************************************)
EXTENDS Integers, Sequences

CONSTANTS I32Max, Digest(_), LocalNow, UtcNow, NegativeAsUint

ASSUME RangeAssumption == I32Max \in Nat /\ I32Max > 0

U32Max == 2 * I32Max + 1
RustParse == INSTANCE RustParser
GoParse == INSTANCE GoParser
TsParse == INSTANCE TsParser
Rust == INSTANCE RustEval
Go == INSTANCE GoEval
Ts == INSTANCE TsEval

\* What a port's parser makes of a text.
ParseIn(port, text) ==
    LET rust == RustParse!Parse(text)
        go == GoParse!Parse(text)
        ts == TsParse!Parse(text)
    IN CASE port = "rust" -> rust [] port = "go" -> go [] port = "ts" -> ts

\* A port's answer to an expression.
AnswerIn(port, e, ctx, flag, segments) ==
    LET rust == Rust!eval_with_segments(e, ctx, flag, segments)
        go == Go!EvalWithSegments(e, ctx, flag, segments)
        ts == Ts!evaluate(e, ctx, flag, segments, {})
    IN CASE port = "rust" -> rust [] port = "go" -> go [] port = "ts" -> ts

\* A port's value of a flag; the server's comes with a reason.
ValueIn(port, flag, ctx, flags, segments, env) ==
    LET rust == Rust!ff(flag, ctx, flags, segments, env)
        server == Rust!evaluate_flag_with_reason(flag, ctx, flags, segments, env)
        go == Go!EvaluateFlag(flag, ctx, flags, segments, env)
        ts == Ts!ffRaw(flag, ctx, flags, segments, env)
    IN CASE port = "rust" -> rust [] port = "go" -> go [] port = "ts" -> ts
         [] port = "server" -> IF Len(server) = 2 THEN server[1] ELSE server
============================================================================
