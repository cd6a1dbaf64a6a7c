-------------------------- MODULE MCLaunchDarklyPush --------------------------
\* A few pushes of two Flagfiles to a project that has their flag, or not yet.
EXTENDS LaunchDarklyPush, TLC

CONSTANTS flag, a, b, c, prod, dev, p1, p2, p3, p4, p5

Serving(vs, i, j) == [values |-> vs, serve |-> [e \in Env |-> IF e = prod THEN i ELSE j]]

\* p1 and p2 push the same Flagfile; p3 one that returns other values, for dev;
\* p4 is given an --env nobody configured; p5 is a dry run.
MCWants == [p \in Push |->
    [g \in Flag |-> IF p = p3 THEN Serving(<<c, a>>, 2, 1) ELSE Serving(<<b, c>>, 1, 2)]]

MCOnly == [p \in Push |-> CASE p = p3 -> {dev} [] p = p4 -> {} [] OTHER -> Env]

MCBefore == <<a, b>>

\* p1 and p2 are the same command.
Alike == Permutations({p1, p2})
===============================================================================
