------------------------------ MODULE MCFlagSync ------------------------------
\* Small followings of one flag server.
EXTENDS FlagSync, TLC

CONSTANTS s1, s2, r1, t1

\* The TypeScript client follows the sidecar s1, the others the server.
MCUpstream == [c \in Sub |-> IF c = t1 /\ s1 \in Sub THEN s1 ELSE Origin]

\* The Rust client alone, or a sidecar with a TypeScript client behind it.
MCRustOrChain == {{r1}, {s1, t1}}
MCAll         == {Sub}

MCKind == [c \in Sub |-> IF c \in {s1, s2} THEN "sidecar" ELSE IF c = r1 THEN "rust" ELSE "ts"]

PutSymmetry == Permutations(Put)
===============================================================================
