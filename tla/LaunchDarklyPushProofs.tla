------------------------ MODULE LaunchDarklyPushProofs ------------------------
(***************************************************************************)
(* What pushes to LaunchDarkly keep, for every Flagfile, number of pushes, *)
(* failures and clicks: references are resolved by value, a kill switch    *)
(* survives, and nobody else's targeting moves.                            *)
(***************************************************************************)
EXTENDS LaunchDarklyPush, FunctionTheorems, FiniteSetTheorems, TLAPS

-----------------------------------------------------------------------------
(***************************************************************************)
(* Nth, Appended and Position.                                             *)
(***************************************************************************)
rank(S, k) == Cardinality({i \in S : i <= k})

\* A finite set of numbers has an element of every rank, and no two of one.
LEMMA Ranks ==
  ASSUME NEW S, S \subseteq Int, IsFiniteSet(S)
  PROVE  /\ Cardinality(S) \in Nat
         /\ \A k \in S : rank(S, k) \in 1..Cardinality(S)
         /\ \A k, l \in S : k < l => rank(S, k) < rank(S, l)
         /\ \A j \in 1..Cardinality(S) : \E k \in S : rank(S, k) = j
<1> DEFINE below(k) == {i \in S : i <= k}
           f == [k \in S |-> rank(S, k)]
           n == Cardinality(S)
<1>1. n \in Nat
  BY FS_CardinalityType
<1>2. ASSUME NEW k \in S
      PROVE  /\ IsFiniteSet(below(k)) /\ Cardinality(below(k)) \in Nat
             /\ Cardinality(below(k)) <= n /\ Cardinality(below(k)) # 0
  <2>1. below(k) \in SUBSET S /\ k \in below(k)
    BY <1>2
  <2>2. IsFiniteSet(below(k)) /\ Cardinality(below(k)) <= n
    BY <2>1, FS_Subset
  <2> QED BY <2>1, <2>2, FS_CardinalityType, FS_EmptySet
<1>3. ASSUME NEW k \in S PROVE rank(S, k) \in 1..n
  BY <1>1, <1>2 DEF rank
<1>4. ASSUME NEW k \in S, NEW l \in S, k < l PROVE rank(S, k) < rank(S, l)
  <2>1. below(k) \in SUBSET below(l) /\ l \in below(l) /\ l \notin below(k)
    <3>1. k \in Int /\ l \in Int /\ \A i \in S : i \in Int
      OBVIOUS
    <3>2. \A i \in S : i <= k => i <= l
      BY <1>4, <3>1
    <3>3. k <= k /\ l <= l /\ ~(l <= k)
      BY <1>4, <3>1
    <3> QED BY <3>2, <3>3
  <2>2. below(k) # below(l)
    BY <2>1
  <2>3. IsFiniteSet(below(l))
    BY <1>2
  <2> HIDE DEF below
  <2>4. Cardinality(below(k)) <= Cardinality(below(l)) /\ Cardinality(below(k)) # Cardinality(below(l))
    BY <2>1, <2>2, <2>3, FS_Subset
  <2>5. Cardinality(below(k)) \in Nat /\ Cardinality(below(l)) \in Nat
    BY <1>2
  <2> QED BY <2>4, <2>5 DEF rank, below
<1>5. f \in Injection(S, 1..n)
  <2>1. f \in [S -> 1..n]
    BY <1>3
  <2>2. ASSUME NEW k \in S, NEW l \in S, k # l PROVE f[k] # f[l]
    <3>1. k < l \/ l < k
      BY <2>2
    <3>2. rank(S, k) \in Nat /\ rank(S, l) \in Nat
      BY <1>1, <1>3
    <3> QED BY <1>4, <3>1, <3>2
  <2> QED BY <2>1, <2>2 DEF Injection, IsInjective
<1>6. IsFiniteSet(1..n) /\ Cardinality(1..n) = n
  BY <1>1, FS_Interval
<1>7. f \in Surjection(S, 1..n)
  BY <1>5, <1>6, FS_Injection
<1>8. ASSUME NEW j \in 1..n PROVE \E k \in S : rank(S, k) = j
  BY <1>7 DEF Surjection
<1> QED BY <1>1, <1>3, <1>4, <1>8

\* The places of a sequence, and those of its missing values, can be ranked.
LEMMA Places ==
  ASSUME NEW s \in Seq(Value), NEW S \in SUBSET (DOMAIN s)
  PROVE  IsFiniteSet(S) /\ S \subseteq Int /\ Cardinality(S) \in Nat
<1>1. DOMAIN s = 1..Len(s) /\ Len(s) \in Nat
  OBVIOUS
<1>2. IsFiniteSet(DOMAIN s)
  BY <1>1, FS_Interval
<1>3. IsFiniteSet(S)
  BY <1>2, FS_Subset
<1> QED BY <1>1, <1>3, FS_CardinalityType

LEMMA NthIsRanked ==
  ASSUME NEW s \in Seq(Value), NEW S \in SUBSET (DOMAIN s), NEW j \in 1..Cardinality(S)
  PROVE  Nth(S, j) \in S /\ rank(S, Nth(S, j)) = j
<1>1. \E k \in S : rank(S, k) = j
  BY Places, Ranks
<1> QED BY <1>1 DEF Nth, rank

\* What is appended to the live values, and where it ends up.
LEMMA MappedHolds ==
  ASSUME NEW live \in Seq(Value), NEW ws \in Seq(Value)
  PROVE  /\ Appended(live, ws) \in Seq(Value)
         /\ mapped(live, ws) \in Seq(Value)
         /\ Len(live) <= Len(mapped(live, ws))
         /\ \A i \in 1..Len(live) : mapped(live, ws)[i] = live[i]
         /\ \A k \in DOMAIN ws : Has(mapped(live, ws), ws[k])
         /\ Missing(live, ws) = {} => mapped(live, ws) = live
<1> DEFINE new == Missing(live, ws)
           n   == Cardinality(new)
<1>1. new \in SUBSET (DOMAIN ws) /\ n \in Nat /\ IsFiniteSet(new) /\ new \subseteq Int
  BY Places DEF Missing
<1>2. \A j \in 1..n : Nth(new, j) \in new /\ rank(new, Nth(new, j)) = j
  BY <1>1, NthIsRanked
<1>3. \A j \in 1..n : ws[Nth(new, j)] \in Value
  BY <1>1, <1>2
<1>4. Appended(live, ws) = [j \in 1..n |-> ws[Nth(new, j)]]
  BY DEF Appended
<1> HIDE DEF new, n
<1>5. Appended(live, ws) \in Seq(Value) /\ Len(Appended(live, ws)) = n
  BY <1>1, <1>3, <1>4
<1>6. /\ mapped(live, ws) \in Seq(Value) /\ Len(mapped(live, ws)) = Len(live) + n
      /\ \A i \in 1..Len(live) : mapped(live, ws)[i] = live[i]
      /\ \A j \in 1..n : mapped(live, ws)[Len(live) + j] = Appended(live, ws)[j]
  BY <1>1, <1>5, SMTT(30) DEF mapped
<1>7. ASSUME NEW k \in DOMAIN ws PROVE Has(mapped(live, ws), ws[k])
  <2>1. CASE k \notin new
    <3>1. PICK i \in DOMAIN live : live[i] = ws[k]
      BY <2>1 DEF new, Missing, Has
    <3> QED BY <1>1, <1>6, <3>1, SMTT(30) DEF Has
  <2>2. CASE k \in new
    <3> DEFINE j == rank(new, k)
    <3>1. j \in 1..n
      BY <1>1, <2>2, Ranks DEF n
    <3>2. Nth(new, j) \in new /\ rank(new, Nth(new, j)) = j
      BY <1>2, <3>1
    <3>3. Nth(new, j) \in Int /\ k \in Int /\ j \in Nat
      BY <1>1, <2>2, <3>1, <3>2
    <3>4. /\ k < Nth(new, j) => rank(new, k) < rank(new, Nth(new, j))
          /\ Nth(new, j) < k => rank(new, Nth(new, j)) < rank(new, k)
      BY <1>1, <2>2, <3>2, Ranks
    <3>5. Nth(new, j) = k
      BY <3>2, <3>3, <3>4
    <3>6. Appended(live, ws)[j] = ws[k]
      BY <1>4, <3>1, <3>5
    <3>7. mapped(live, ws)[Len(live) + j] = ws[k]
      BY <1>6, <3>1, <3>6
    <3>8. Len(live) + j \in DOMAIN mapped(live, ws)
      BY <1>1, <1>6, <3>1
    <3> QED BY <3>7, <3>8 DEF Has
  <2> QED BY <2>1, <2>2
<1>8. ASSUME new = {} PROVE mapped(live, ws) = live
  <2>1. n = 0
    BY <1>8, FS_EmptySet DEF n
  <2>2. Len(mapped(live, ws)) = Len(live)
    BY <1>6, <2>1
  <2> QED BY <1>6, <2>2
<1> QED BY <1>1, <1>5, <1>6, <1>7, <1>8 DEF new

\* The first position of a value that is there holds it.
LEMMA PositionHolds ==
  ASSUME NEW s \in Seq(Value), NEW v, Has(s, v)
  PROVE  Position(s, v) \in DOMAIN s /\ s[Position(s, v)] = v
<1> DEFINE S == {i \in DOMAIN s : s[i] = v}
<1>1. S \in SUBSET (DOMAIN s) /\ S # {}
  BY DEF Has
<1>2. IsFiniteSet(S) /\ S \subseteq Int /\ Cardinality(S) \in Nat
  BY <1>1, Places
<1>3. 1 \in 1..Cardinality(S)
  <2> HIDE DEF S
  <2>1. Cardinality(S) # 0
    BY <1>1, <1>2, FS_EmptySet
  <2> QED BY <1>2, <2>1
<1>4. PICK k \in S : rank(S, k) = 1
  BY <1>2, <1>3, Ranks
<1>5. ASSUME NEW j \in S PROVE k <= j
  <2>1. rank(S, j) \in 1..Cardinality(S) /\ (j < k => rank(S, j) < rank(S, k))
    BY <1>2, Ranks
  <2>2. j \in Int /\ k \in Int
    BY <1>2
  <2> QED BY <1>2, <1>4, <2>1, <2>2
<1>6. k \in DOMAIN s /\ s[k] = v /\ \A j \in DOMAIN s : s[j] = v => k <= j
  BY <1>5
<1> QED BY <1>6 DEF Position

-----------------------------------------------------------------------------
(***************************************************************************)
(* The invariant.                                                          *)
(***************************************************************************)
Prefix(s, t) == Len(s) <= Len(t) /\ \A i \in 1..Len(s) : t[i] = s[i]
Record == [exists : BOOLEAN, values : Seq(Value), on : SUBSET Env, serve : [Env -> Nat]]
Progress == [pc : {"start", "next", "get", "create", "vars", "target", "ended"},
             flag : Flag, live : Seq(Value), fresh : BOOLEAN,
             result : [Flag -> {"none", "failed", "created", "updated",
                                "would create", "would update"}]]
Reported(q, g) == push[q].result[g] \in {"created", "updated"}
Indexed(r) == r.exists => \A e \in Env : r.serve[e] \in DOMAIN r.values

\* A push knows a beginning of the values of the flag it writes to.
WorkingAt(q) ==
    LET g == push[q].flag  live == push[q].live IN
    /\ push[q].pc \in {"get", "create", "vars", "target"} => g \in FlagsOf(q) /\ ~Reported(q, g)
    /\ push[q].pc = "create" => push[q].fresh /\ live = Wants[q][g].values
    /\ push[q].pc = "vars"   => ~push[q].fresh /\ ld[g].exists /\ Prefix(live, ld[g].values)
    /\ push[q].pc = "target" => ld[g].exists /\ Len(mapped(live, Wants[q][g].values)) <= Len(ld[g].values)
    /\ \A h \in Flag : Reported(q, h) => ld[h].exists

\* One nobody overtook knows the very values its references will be looked up
\* in: either they are as it read them, or the missing ones have been added in
\* its order, by itself or by a push of the same Flagfile.
ResolvedAt(q, g) ==
    LET vs == mapped(push[q].live, Wants[q][g].values) IN
    <<q, g>> \notin stale =>
    /\ At(q, "vars") /\ push[q].flag = g =>
           ld[g].values = push[q].live \/ Prefix(vs, ld[g].values)
    /\ At(q, "target") /\ push[q].flag = g => Prefix(vs, ld[g].values)
    /\ Reported(q, g) => \A e \in Scope(q) : Serves(g, e) = Wants[q][g].values[Wants[q][g].serve[e]]

\* A flag with a kill switch is not one a push is about to enable.
KilledAt(g, e) == <<g, e>> \in killed => ld[g].exists /\ e \notin ld[g].on /\ ~Enabling(g)

Working  == \A q \in Push : WorkingAt(q)
Resolved == \A q \in Push : \A g \in FlagsOf(q) : ResolvedAt(q, g)
Killing  == \A g \in Flag, e \in Env : KilledAt(g, e)
PInv     == TypeOK /\ Working /\ Resolved /\ Killing

\* What the types say, and what the transpiler gives.
LEMMA Shapes ==
  ASSUME TypeOK
  PROVE  /\ ld \in [Flag -> Record] /\ \A g \in Flag : Indexed(ld[g])
         /\ push \in [Push -> Progress]
BY DEF TypeOK, Record, Progress, Indexed

LEMMA Transpiled ==
  ASSUME NEW p \in Push, NEW f \in FlagsOf(p)
  PROVE  /\ f \in Flag /\ Scope(p) \subseteq Env
         /\ Wants[p][f].values \in Seq(Value)
         /\ \A e \in Env : Wants[p][f].serve[e] \in DOMAIN Wants[p][f].values
BY PushesAssumption DEF FlagsOf, Scope

LEMMA PrefixFacts ==
  ASSUME NEW r \in Seq(Value), NEW s \in Seq(Value), NEW t \in Seq(Value)
  PROVE  /\ Prefix(r, r) /\ Prefix(r, r \o s)
         /\ Prefix(r, s) /\ Prefix(s, t) => Prefix(r, t)
<1>1. Prefix(r, r) /\ Prefix(r, r \o s)
  BY DEF Prefix
<1>2. ASSUME Prefix(r, s), Prefix(s, t) PROVE Prefix(r, t)
  BY <1>2 DEF Prefix
<1> QED BY <1>1, <1>2

\* A push whose wanted values are all there misses none of them.
LEMMA NothingMissing ==
  ASSUME NEW live \in Seq(Value), NEW ws \in Seq(Value), NEW vs \in Seq(Value),
         Prefix(mapped(live, ws), vs)
  PROVE  mapped(vs, ws) = vs
<1>1. ASSUME NEW k \in DOMAIN ws PROVE Has(vs, ws[k])
  <2>1. mapped(live, ws) \in Seq(Value) /\ Has(mapped(live, ws), ws[k])
    BY MappedHolds
  <2>2. PICK i \in DOMAIN mapped(live, ws) : mapped(live, ws)[i] = ws[k]
    BY <2>1 DEF Has
  <2>3. i \in 1..Len(mapped(live, ws)) /\ i \in DOMAIN vs
    BY <2>1 DEF Prefix
  <2> QED BY <2>2, <2>3 DEF Prefix, Has
<1>2. Missing(vs, ws) = {}
  BY <1>1 DEF Missing
<1> QED BY <1>2, MappedHolds

\* A reference is looked up by its value.
LEMMA LookedUp ==
  ASSUME NEW p \in Push, NEW f \in FlagsOf(p), NEW e \in Env, NEW live \in Seq(Value)
  PROVE  LET W == Wants[p][f]
             i == live_index(live, W, W.serve[e])
             vs == mapped(live, W.values) IN
         i \in DOMAIN vs /\ vs[i] = W.values[W.serve[e]]
<1> DEFINE W == Wants[p][f]  v == W.values[W.serve[e]]  vs == mapped(live, W.values)
<1>1. W.values \in Seq(Value) /\ W.serve[e] \in DOMAIN W.values
  BY Transpiled
<1>2. vs \in Seq(Value) /\ Has(vs, v)
  BY <1>1, MappedHolds
<1>3. live_index(live, W, W.serve[e]) = Position(vs, v)
  BY DEF live_index
<1> HIDE DEF vs, v
<1>4. Position(vs, v) \in DOMAIN vs /\ vs[Position(vs, v)] = v
  BY <1>2, PositionHolds
<1> QED BY <1>3, <1>4 DEF vs, v

-----------------------------------------------------------------------------
(***************************************************************************)
(* What a request changes in LaunchDarkly, and a step in its push.         *)
(***************************************************************************)
\* A record with some fields replaced.
LEMMA CreatedRecord ==
  ASSUME NEW r \in Record, NEW x \in BOOLEAN, NEW vs \in Seq(Value)
  PROVE  LET to == [r EXCEPT !.exists = x, !.values = vs] IN
         to \in Record /\ to.exists = x /\ to.values = vs /\ to.on = r.on /\ to.serve = r.serve
BY DEF Record

LEMMA ExtendedRecord ==
  ASSUME NEW r \in Record, NEW vs \in Seq(Value)
  PROVE  LET to == [r EXCEPT !.values = vs] IN
         to \in Record /\ to.exists = r.exists /\ to.values = vs /\ to.on = r.on /\ to.serve = r.serve
BY DEF Record

LEMMA ToggledRecord ==
  ASSUME NEW r \in Record, NEW on \in SUBSET Env
  PROVE  LET to == [r EXCEPT !.on = on] IN
         to \in Record /\ to.exists = r.exists /\ to.values = r.values /\ to.on = on /\ to.serve = r.serve
BY DEF Record

\* The flag that is created has the wanted values, all of its environments off.
LEMMA CreatedDoes ==
  ASSUME NEW p \in Push, NEW f \in FlagsOf(p), push[p].flag = f, TypeOK, ~ld[f].exists
  PROVE  LET to == Created(p) IN
         /\ to \in [Flag -> Record] /\ \A g \in Flag : g # f => to[g] = ld[g]
         /\ to[f].exists /\ to[f].values = Wants[p][f].values /\ to[f].on = {}
         /\ \A e \in Env : to[f].serve[e] = 1
<1> DEFINE vs == Wants[p][f].values
           r == [Absent EXCEPT !.exists = TRUE, !.values = vs]
<1>1. Absent \in Record /\ vs \in Seq(Value)
  BY Transpiled DEF Record, Absent
<1>2. Created(p) = [ld EXCEPT ![f] = r]
  BY DEF Created, Live, Want
<1>3. ld \in [Flag -> Record] /\ f \in Flag
  BY Shapes, Transpiled
<1>4. Absent.on = {} /\ \A e \in Env : Absent.serve[e] = 1
  BY DEF Absent
<1> HIDE DEF vs
<1>5. r \in Record /\ r.exists = TRUE /\ r.values = vs /\ r.on = Absent.on /\ r.serve = Absent.serve
  BY <1>1, CreatedRecord
<1> HIDE DEF r
<1> QED BY <1>2, <1>3, <1>4, <1>5 DEF vs

\* The missing values go behind those LaunchDarkly has.
LEMMA ExtendedDoes ==
  ASSUME NEW p \in Push, NEW f \in FlagsOf(p), push[p].flag = f, TypeOK
  PROVE  LET to == Extended(p) IN
         /\ to \in [Flag -> Record] /\ \A g \in Flag : g # f => to[g] = ld[g]
         /\ to[f].exists = ld[f].exists /\ to[f].on = ld[f].on /\ to[f].serve = ld[f].serve
         /\ to[f].values = ld[f].values \o Appended(push[p].live, Wants[p][f].values)
<1> DEFINE vs == ld[f].values \o Appended(push[p].live, Wants[p][f].values)
           r == [ld[f] EXCEPT !.values = vs]
<1>1. ld \in [Flag -> Record] /\ f \in Flag /\ push[p].live \in Seq(Value)
  BY Shapes, Transpiled DEF Progress
<1>2. ld[f] \in Record /\ ld[f].values \in Seq(Value)
  BY <1>1 DEF Record
<1>3. Appended(push[p].live, Wants[p][f].values) \in Seq(Value)
  BY <1>1, Transpiled, MappedHolds
<1>4. vs \in Seq(Value)
  BY <1>2, <1>3
<1>5. Extended(p) = [ld EXCEPT ![f] = r]
  BY <1>1 DEF Extended, Want
<1> HIDE DEF vs
<1>6. /\ r \in Record /\ r.exists = ld[f].exists /\ r.on = ld[f].on
      /\ r.serve = ld[f].serve /\ r.values = vs
  BY <1>2, <1>4, ExtendedRecord
<1> HIDE DEF r
<1> QED BY <1>1, <1>5, <1>6 DEF vs

\* Targeting changes what the environments in scope serve, and enables them in
\* a new flag only.
LEMMA TargetedDoes ==
  ASSUME NEW p \in Push, NEW f \in FlagsOf(p), push[p].flag = f, TypeOK
  PROVE  LET to == Targeted(p) IN
         /\ to \in [Flag -> Record] /\ \A g \in Flag : g # f => to[g] = ld[g]
         /\ to[f].exists = ld[f].exists /\ to[f].values = ld[f].values
         /\ ~push[p].fresh => to[f].on = ld[f].on
         /\ \A e \in Env : to[f].serve[e] =
               IF e \in Scope(p)
               THEN live_index(push[p].live, Wants[p][f], Wants[p][f].serve[e])
               ELSE ld[f].serve[e]
<1> DEFINE on == IF push[p].fresh THEN ld[f].on \cup Scope(p) ELSE ld[f].on
           sv == [e \in Env |-> IF e \in Scope(p)
                                THEN live_index(push[p].live, Wants[p][f], Wants[p][f].serve[e])
                                ELSE ld[f].serve[e]]
           r == [ld[f] EXCEPT !.on = on, !.serve = sv]
<1>1. ld \in [Flag -> Record] /\ f \in Flag /\ push[p].live \in Seq(Value) /\ Scope(p) \subseteq Env
  BY Shapes, Transpiled DEF Progress
<1>2. ld[f] \in Record /\ ld[f].on \subseteq Env /\ ld[f].serve \in [Env -> Nat]
  BY <1>1 DEF Record
<1>3. on \in SUBSET Env
  BY <1>1, <1>2
<1>4. ASSUME NEW e \in Env
      PROVE  live_index(push[p].live, Wants[p][f], Wants[p][f].serve[e]) \in Nat
  <2> DEFINE i == live_index(push[p].live, Wants[p][f], Wants[p][f].serve[e])
             vs == mapped(push[p].live, Wants[p][f].values)
  <2>1. i \in DOMAIN vs
    BY <1>1, LookedUp
  <2>2. vs \in Seq(Value)
    BY <1>1, Transpiled, MappedHolds
  <2> HIDE DEF i, vs
  <2>3. i \in Nat
    BY <2>1, <2>2
  <2> QED BY <2>3 DEF i
<1>5. sv \in [Env -> Nat]
  BY <1>2, <1>4
<1>6. Targeted(p) = [ld EXCEPT ![f] = r]
  BY <1>1 DEF Targeted, Want
<1>7. /\ ~push[p].fresh => on = ld[f].on
      /\ \A e \in Env : sv[e] = IF e \in Scope(p)
                                THEN live_index(push[p].live, Wants[p][f], Wants[p][f].serve[e])
                                ELSE ld[f].serve[e]
  OBVIOUS
<1> HIDE DEF on, sv
<1>8. /\ r \in Record /\ r.exists = ld[f].exists /\ r.values = ld[f].values
      /\ r.on = on /\ r.serve = sv
  <2>1. PICK r0 \in Record, on0 \in SUBSET Env, sv0 \in [Env -> Nat] :
           r0 = ld[f] /\ on0 = on /\ sv0 = sv
    BY <1>2, <1>3, <1>5
  <2> DEFINE to == [r0 EXCEPT !.on = on0, !.serve = sv0]
  <2>2. to \in Record /\ to.exists = r0.exists /\ to.values = r0.values /\ to.on = on0 /\ to.serve = sv0
    BY <2>1 DEF Record
  <2>3. r = to
    BY <2>1, Zenon
  <2> HIDE DEF to, r
  <2> QED BY <2>1, <2>2, <2>3
<1> HIDE DEF r
<1> QED BY <1>1, <1>6, <1>7, <1>8

\* A step of a push leaves the others where they are.
LEMMA GoesTo ==
  ASSUME NEW p \in Push, push \in [Push -> Progress],
         NEW pc \in {"start", "next", "get", "create", "vars", "target", "ended"}, Goto(p, pc)
  PROVE  /\ push' \in [Push -> Progress] /\ \A q \in Push : q # p => push'[q] = push[q]
         /\ push'[p].pc = pc /\ push'[p].flag = push[p].flag /\ push'[p].live = push[p].live
         /\ push'[p].fresh = push[p].fresh /\ push'[p].result = push[p].result
<1> DEFINE x == [push[p] EXCEPT !.pc = pc]
<1>1. push[p] \in Progress
  OBVIOUS
<1>2. /\ x \in Progress /\ x.pc = pc /\ x.flag = push[p].flag /\ x.live = push[p].live
      /\ x.fresh = push[p].fresh /\ x.result = push[p].result
  BY <1>1 DEF Progress
<1>3. push' = [push EXCEPT ![p] = x]
  BY DEF Goto
<1> HIDE DEF x
<1> QED BY <1>2, <1>3

LEMMA Settles ==
  ASSUME NEW p \in Push, push \in [Push -> Progress],
         NEW r \in {"none", "failed", "created", "updated", "would create", "would update"},
         Settle(p, r)
  PROVE  /\ push' \in [Push -> Progress] /\ \A q \in Push : q # p => push'[q] = push[q]
         /\ push'[p].pc = "next" /\ push'[p].flag = push[p].flag /\ push'[p].live = push[p].live
         /\ push'[p].fresh = push[p].fresh
         /\ push'[p].result[push[p].flag] = r
         /\ \A g \in Flag : g # push[p].flag => push'[p].result[g] = push[p].result[g]
<1> DEFINE rs == [push[p].result EXCEPT ![push[p].flag] = r]
           x == [push[p] EXCEPT !.pc = "next", !.result = rs]
<1>1. push[p] \in Progress
  OBVIOUS
<1>2. push[p].flag \in Flag
      /\ push[p].result \in [Flag -> {"none", "failed", "created", "updated",
                                      "would create", "would update"}]
  BY <1>1 DEF Progress
<1>3. /\ rs \in [Flag -> {"none", "failed", "created", "updated", "would create", "would update"}]
      /\ rs[push[p].flag] = r
      /\ \A g \in Flag : g # push[p].flag => rs[g] = push[p].result[g]
  BY <1>2
<1>4. push' = [push EXCEPT ![p] = x]
  BY DEF Settle
<1> HIDE DEF rs
<1>5. /\ x \in Progress /\ x.pc = "next" /\ x.flag = push[p].flag /\ x.live = push[p].live
      /\ x.fresh = push[p].fresh /\ x.result = rs
  BY <1>1, <1>3 DEF Progress
<1> HIDE DEF x
<1> QED BY <1>3, <1>4, <1>5

LEMMA Takes ==
  ASSUME NEW p \in Push, NEW f \in Flag, push \in [Push -> Progress],
         push' = [push EXCEPT ![p].pc = "get", ![p].flag = f]
  PROVE  /\ push' \in [Push -> Progress] /\ \A q \in Push : q # p => push'[q] = push[q]
         /\ push'[p].pc = "get" /\ push'[p].flag = f /\ push'[p].result = push[p].result
<1> DEFINE x == [push[p] EXCEPT !.pc = "get", !.flag = f]
<1>1. push[p] \in Progress
  OBVIOUS
<1>2. x \in Progress /\ x.pc = "get" /\ x.flag = f /\ x.result = push[p].result
  BY <1>1 DEF Progress
<1>3. push' = [push EXCEPT ![p] = x]
  OBVIOUS
<1> HIDE DEF x
<1> QED BY <1>2, <1>3

LEMMA Reads ==
  ASSUME NEW p \in Push, push \in [Push -> Progress], NEW live \in Seq(Value), NEW fresh \in BOOLEAN,
         NEW pc \in {"create", "vars", "target"},
         push' = [push EXCEPT ![p].pc = pc, ![p].live = live, ![p].fresh = fresh]
  PROVE  /\ push' \in [Push -> Progress] /\ \A q \in Push : q # p => push'[q] = push[q]
         /\ push'[p].pc = pc /\ push'[p].flag = push[p].flag /\ push'[p].live = live
         /\ push'[p].fresh = fresh /\ push'[p].result = push[p].result
<1> DEFINE x == [push[p] EXCEPT !.pc = pc, !.live = live, !.fresh = fresh]
<1>1. push[p] \in Progress
  OBVIOUS
<1>2. /\ x \in Progress /\ x.pc = pc /\ x.flag = push[p].flag /\ x.live = live
      /\ x.fresh = fresh /\ x.result = push[p].result
  BY <1>1 DEF Progress
<1>3. push' = [push EXCEPT ![p] = x]
  OBVIOUS
<1> HIDE DEF x
<1>4. push'[p] = x /\ \A q \in Push : q # p => push'[q] = push[q]
  BY <1>3, Zenon
<1>5. push' \in [Push -> Progress]
  BY <1>2, <1>3, Zenon
<1> QED BY <1>2, <1>4, <1>5

-----------------------------------------------------------------------------
(***************************************************************************)
(* The other pushes, while one writes to LaunchDarkly.                     *)
(***************************************************************************)
\* The values of a flag only ever grow, and it is never deleted.
Grows(g) == /\ ld'[g] \in Record
            /\ ld[g].exists => ld'[g].exists /\ Prefix(ld[g].values, ld'[g].values)

LEMMA OthersWork ==
  ASSUME TypeOK, NEW q \in Push, WorkingAt(q), push'[q] = push[q], \A g \in Flag : Grows(g)
  PROVE  WorkingAt(q)'
<1> DEFINE g == push[q].flag  live == push[q].live
<1>1. ld \in [Flag -> Record] /\ push[q] \in Progress
  BY Shapes
<1>2. g \in Flag /\ live \in Seq(Value)
  BY <1>1 DEF Progress
<1>3. /\ ld[g].values \in Seq(Value) /\ ld'[g].values \in Seq(Value)
      /\ ld[g].exists => ld'[g].exists /\ Prefix(ld[g].values, ld'[g].values)
  BY <1>1, <1>2 DEF Grows, Record
<1>4. push[q].pc \in {"get", "create", "vars", "target"} => g \in FlagsOf(q) /\ ~Reported(q, g)
  BY DEF WorkingAt
<1>5. push[q].pc = "create" => push[q].fresh /\ live = Wants[q][g].values
  BY DEF WorkingAt
<1>6. push[q].pc = "vars" => ~push[q].fresh /\ ld'[g].exists /\ Prefix(live, ld'[g].values)
  <2>1. push[q].pc = "vars" => ~push[q].fresh /\ ld[g].exists /\ Prefix(live, ld[g].values)
    BY DEF WorkingAt
  <2> HIDE DEF g, live
  <2> QED BY <1>2, <1>3, <2>1, PrefixFacts
<1>7. push[q].pc = "target" => ld'[g].exists /\ Len(mapped(live, Wants[q][g].values)) <= Len(ld'[g].values)
  <2> SUFFICES ASSUME push[q].pc = "target"
      PROVE  ld'[g].exists /\ Len(mapped(live, Wants[q][g].values)) <= Len(ld'[g].values)
    OBVIOUS
  <2> DEFINE n == Len(mapped(live, Wants[q][g].values))
  <2>1. g \in FlagsOf(q) /\ ld[g].exists /\ n <= Len(ld[g].values)
    BY <1>4 DEF WorkingAt
  <2>2. mapped(live, Wants[q][g].values) \in Seq(Value)
    BY <1>2, <2>1, Transpiled, MappedHolds
  <2>3. n \in Nat
    BY <2>2
  <2>4. Len(ld[g].values) <= Len(ld'[g].values) /\ Len(ld[g].values) \in Nat /\ Len(ld'[g].values) \in Nat
    BY <1>3, <2>1, SMTT(30) DEF Prefix
  <2> HIDE DEF n, g
  <2>5. n <= Len(ld'[g].values)
    BY <2>1, <2>3, <2>4
  <2> QED BY <1>3, <2>1, <2>5 DEF n
<1>8. \A h \in Flag : Reported(q, h) => ld'[h].exists
  BY DEF WorkingAt, Grows
<1>9. /\ push'[q].pc = push[q].pc /\ push'[q].flag = g /\ push'[q].live = live
      /\ push'[q].fresh = push[q].fresh /\ \A h \in Flag : push'[q].result[h] = push[q].result[h]
  OBVIOUS
<1> HIDE DEF g, live
<1> QED BY <1>4, <1>5, <1>6, <1>7, <1>8, <1>9 DEF WorkingAt, Reported

LEMMA StaysResolved ==
  ASSUME NEW q \in Push, NEW g \in FlagsOf(q), ResolvedAt(q, g), stale \subseteq stale',
         push'[q] = push[q], ld'[g].values = ld[g].values,
         \A e \in Scope(q) : ld'[g].serve[e] = ld[g].serve[e]
  PROVE  ResolvedAt(q, g)'
BY DEF ResolvedAt, At, Reported, Serves, Scope

\* Of the pushes that know a flag, one that writes to it overtakes all but those
\* of its own Flagfile.
LEMMA SameFlagfile ==
  ASSUME NEW p \in Push, NEW q \in Push, q # p, NEW g \in FlagsOf(q), push[p].flag = g,
         stale' = stale \cup Overtaken(p), <<q, g>> \notin stale', HasRead(q, g)
  PROVE  Wants[q][g] = Wants[p][g] /\ <<p, g>> \notin stale
BY DEF Overtaken

LEMMA Known ==
  ASSUME NEW q \in Push, NEW g \in Flag,
         ((At(q, "vars") \/ At(q, "target")) /\ push[q].flag = g) \/ Reported(q, g)
  PROVE  HasRead(q, g)
BY DEF At, Reported, HasRead

\* Adding values: whoever waits to add the same finds them there.
LEMMA ResolvedAdding ==
  ASSUME TypeOK, Working, Resolved,
         NEW p \in Push, NEW g \in FlagsOf(p), push[p].flag = g, At(p, "vars"), ld' = Extended(p),
         NEW q \in Push, q # p, g \in FlagsOf(q), push'[q] = push[q],
         stale' = stale \cup Overtaken(p)
  PROVE  ResolvedAt(q, g)'
<1> DEFINE w == Wants[p][g].values  lp == push[p].live  lq == push[q].live
           vs == ld[g].values  to == ld'[g].values
<1>1. /\ ld \in [Flag -> Record] /\ push \in [Push -> Progress] /\ g \in Flag /\ w \in Seq(Value)
      /\ \A e \in Env : Wants[p][g].serve[e] \in DOMAIN w
      /\ \A x \in Flag : Indexed(ld[x])
  BY Shapes, Transpiled
<1>2. lp \in Seq(Value) /\ lq \in Seq(Value) /\ vs \in Seq(Value)
  BY <1>1 DEF Progress, Record
<1>3. to = vs \o Appended(lp, w) /\ ld'[g].serve = ld[g].serve
  BY ExtendedDoes
<1>4. Appended(lp, w) \in Seq(Value) /\ mapped(lp, w) = lp \o Appended(lp, w)
      /\ mapped(lq, w) \in Seq(Value)
  BY <1>1, <1>2, MappedHolds DEF mapped
<1>5. Prefix(vs, to) /\ to \in Seq(Value)
  <2> HIDE DEF w, lp, vs, to
  <2> QED BY <1>2, <1>3, <1>4, PrefixFacts
<1> SUFFICES ASSUME <<q, g>> \notin stale', HasRead(q, g)
    PROVE  ResolvedAt(q, g)'
  <2> SUFFICES ASSUME ~HasRead(q, g) PROVE ResolvedAt(q, g)'
    BY DEF ResolvedAt
  <2>1. (~At(q, "vars") /\ ~At(q, "target")) \/ push[q].flag # g
    BY <1>1, Known
  <2>2. ~Reported(q, g)
    BY <1>1, Known
  <2> QED BY <2>1, <2>2 DEF ResolvedAt, At, Reported
<1>6. Wants[q][g] = Wants[p][g] /\ <<p, g>> \notin stale /\ <<q, g>> \notin stale
  BY SameFlagfile
<1>7. vs = lp \/ Prefix(mapped(lp, w), vs)
  BY <1>6 DEF Resolved, ResolvedAt
<1>8. ASSUME At(q, "vars"), push[q].flag = g PROVE Prefix(mapped(lq, w), to)
  <2>1. vs = lq \/ Prefix(mapped(lq, w), vs)
    BY <1>6, <1>8 DEF Resolved, ResolvedAt
  <2>2. CASE Prefix(mapped(lq, w), vs)
    <3> HIDE DEF w, lq, vs, to
    <3> QED BY <1>2, <1>4, <1>5, <2>2, PrefixFacts
  <2>3. CASE vs = lq /\ vs = lp
    <3>1. to = mapped(lq, w)
      BY <1>3, <1>4, <2>3
    <3> HIDE DEF w, lq, to
    <3> QED BY <1>4, <3>1, PrefixFacts
  <2>4. CASE vs = lq /\ Prefix(mapped(lp, w), vs)
    <3> HIDE DEF w, lp, lq, vs, to
    <3>1. mapped(vs, w) = vs
      BY <1>1, <1>2, <2>4, NothingMissing
    <3> QED BY <1>5, <2>4, <3>1
  <2> QED BY <1>7, <2>1, <2>2, <2>3, <2>4
<1>9. ASSUME At(q, "target"), push[q].flag = g PROVE Prefix(mapped(lq, w), to)
  <2>1. Prefix(mapped(lq, w), vs)
    BY <1>6, <1>9 DEF Resolved, ResolvedAt
  <2> HIDE DEF w, lq, vs, to
  <2> QED BY <1>2, <1>4, <1>5, <2>1, PrefixFacts
<1>10. ASSUME Reported(q, g), NEW e \in Scope(q) PROVE to[ld'[g].serve[e]] = w[Wants[p][g].serve[e]]
  <2>1. vs[ld[g].serve[e]] = w[Wants[p][g].serve[e]] /\ ld[g].exists
    BY <1>1, <1>6, <1>10, SMTT(30) DEF Resolved, ResolvedAt, Serves, Working, WorkingAt
  <2>2. e \in Env
    BY Transpiled
  <2>3. ld[g].serve[e] \in DOMAIN vs
    BY <1>1, <2>1, <2>2 DEF Indexed
  <2> HIDE DEF vs, to
  <2>4. ld[g].serve[e] \in 1..Len(vs)
    BY <1>2, <2>3
  <2>5. to[ld[g].serve[e]] = vs[ld[g].serve[e]]
    BY <1>5, <2>4 DEF Prefix
  <2> QED BY <1>3, <2>1, <2>5
<1> QED BY <1>6, <1>8, <1>9, <1>10 DEF ResolvedAt, At, Reported, Serves, Scope

\* Targeting, by a push nobody overtook: what it refers to is what it wants.
LEMMA TargetServes ==
  ASSUME TypeOK, Resolved,
         NEW p \in Push, NEW g \in FlagsOf(p), push[p].flag = g, At(p, "target"), ld' = Targeted(p),
         <<p, g>> \notin stale, NEW e \in Scope(p)
  PROVE  ld'[g].values[ld'[g].serve[e]] = Wants[p][g].values[Wants[p][g].serve[e]]
<1> DEFINE w == Wants[p][g].values  lp == push[p].live  vs == ld[g].values
           i == live_index(lp, Wants[p][g], Wants[p][g].serve[e])
<1>1. push \in [Push -> Progress] /\ w \in Seq(Value) /\ e \in Env
  BY Shapes, Transpiled
<1>2. lp \in Seq(Value)
  BY <1>1 DEF Progress
<1>3. mapped(lp, w) \in Seq(Value)
  BY <1>1, <1>2, MappedHolds
<1>4. ld'[g].values = vs /\ ld'[g].serve[e] = i
  BY <1>1, TargetedDoes
<1>5. i \in DOMAIN mapped(lp, w) /\ mapped(lp, w)[i] = w[Wants[p][g].serve[e]]
  BY <1>1, <1>2, LookedUp
<1>6. Prefix(mapped(lp, w), vs)
  BY DEF Resolved, ResolvedAt
<1> HIDE DEF w, vs, i, lp
<1>7. i \in 1..Len(mapped(lp, w))
  BY <1>3, <1>5
<1>8. vs[i] = mapped(lp, w)[i]
  BY <1>6, <1>7 DEF Prefix
<1> QED BY <1>4, <1>5, <1>8 DEF w

LEMMA ResolvedTargeting ==
  ASSUME TypeOK, Working, Resolved,
         NEW p \in Push, NEW g \in FlagsOf(p), push[p].flag = g, At(p, "target"), ld' = Targeted(p),
         NEW q \in Push, q # p, g \in FlagsOf(q), push'[q] = push[q],
         stale' = stale \cup Overtaken(p)
  PROVE  ResolvedAt(q, g)'
<1>1. g \in Flag /\ Scope(q) \subseteq Env
  BY Transpiled
<1> SUFFICES ASSUME <<q, g>> \notin stale', HasRead(q, g)
    PROVE  ResolvedAt(q, g)'
  <2> SUFFICES ASSUME ~HasRead(q, g) PROVE ResolvedAt(q, g)'
    BY DEF ResolvedAt
  <2>1. (~At(q, "vars") /\ ~At(q, "target")) \/ push[q].flag # g
    BY <1>1, Known
  <2>2. ~Reported(q, g)
    BY <1>1, Known
  <2> QED BY <2>1, <2>2 DEF ResolvedAt, At, Reported
<1>2. Wants[q][g] = Wants[p][g] /\ <<p, g>> \notin stale /\ <<q, g>> \notin stale
  BY SameFlagfile
<1>3. ld'[g].values = ld[g].values
      /\ \A e \in Env : e \notin Scope(p) => ld'[g].serve[e] = ld[g].serve[e]
  BY TargetedDoes
<1>4. ASSUME Reported(q, g), NEW e \in Scope(q)
      PROVE  ld'[g].values[ld'[g].serve[e]] = Wants[q][g].values[Wants[q][g].serve[e]]
  <2>1. CASE e \in Scope(p)
    BY <1>2, <2>1, TargetServes
  <2>2. CASE e \notin Scope(p)
    <3>1. ld[g].values[ld[g].serve[e]] = Wants[q][g].values[Wants[q][g].serve[e]]
      BY <1>2, <1>4 DEF Resolved, ResolvedAt, Serves
    <3> QED BY <1>1, <1>3, <2>2, <3>1
  <2> QED BY <2>1, <2>2
<1>5. ResolvedAt(q, g)
  BY DEF Resolved
<1> QED BY <1>2, <1>3, <1>4, <1>5 DEF ResolvedAt, At, Reported, Serves, Scope

\* A flag that is created is not one anybody has read.
LEMMA ResolvedCreating ==
  ASSUME TypeOK, Working, NEW q \in Push, NEW g \in FlagsOf(q), ~ld[g].exists, push'[q] = push[q]
  PROVE  ResolvedAt(q, g)'
<1>1. g \in Flag
  BY Transpiled
<1>2. ~(At(q, "vars") /\ push[q].flag = g) /\ ~(At(q, "target") /\ push[q].flag = g) /\ ~Reported(q, g)
  BY <1>1 DEF Working, WorkingAt, At
<1> QED BY <1>2 DEF ResolvedAt, At, Reported

\* The three requests, one after the other, in LaunchDarkly.
Writes(p, g) ==
    /\ push[p].flag = g /\ stale' = stale \cup Overtaken(p)
    /\ \/ At(p, "create") /\ ld' = Created(p)
       \/ At(p, "vars")   /\ ld' = Extended(p)
       \/ At(p, "target") /\ ld' = Targeted(p)

\* A request keeps the records and leaves the other flags alone; values only grow.
LEMMA WriteKeeps ==
  ASSUME TypeOK, Working, NEW p \in Push, NEW f \in FlagsOf(p), Writes(p, f)
  PROVE  /\ ld' \in [Flag -> Record] /\ \A g \in Flag : Indexed(ld'[g]) /\ Grows(g)
         /\ \A g \in Flag : g # f => ld'[g] = ld[g]
         /\ ld'[f].exists
<1>1. /\ ld \in [Flag -> Record] /\ f \in Flag /\ push \in [Push -> Progress]
      /\ \A g \in Flag : Indexed(ld[g])
  BY Shapes, Transpiled
<1> DEFINE vs == ld[f].values  to == ld'[f].values  lp == push[p].live  w == Wants[p][f].values
<1>2. lp \in Seq(Value) /\ vs \in Seq(Value) /\ w \in Seq(Value)
      /\ \A e \in Env : Wants[p][f].serve[e] \in DOMAIN w
  BY <1>1, Transpiled DEF Progress, Record
<1>3. \A g \in Flag : Prefix(ld[g].values, ld[g].values)
  BY <1>1, PrefixFacts DEF Record
<1> SUFFICES /\ ld' \in [Flag -> Record] /\ \A g \in Flag : g # f => ld'[g] = ld[g]
             /\ ld'[f].exists /\ Indexed(ld'[f])
             /\ ld[f].exists => Prefix(vs, to)
  BY <1>1, <1>3 DEF Grows
<1>4. CASE At(p, "create") /\ ld' = Created(p) /\ ld[f].exists
  <2>1. ld' = ld
    BY <1>4 DEF Created, Live, Writes
  <2> QED BY <1>1, <1>3, <1>4, <2>1
<1>5. CASE At(p, "create") /\ ld' = Created(p) /\ ~ld[f].exists
  <2>1. /\ ld' \in [Flag -> Record] /\ \A g \in Flag : g # f => ld'[g] = ld[g]
        /\ ld'[f].exists /\ to = w /\ \A e \in Env : ld'[f].serve[e] = 1
    BY <1>5, CreatedDoes DEF Writes
  <2>2. ASSUME NEW e \in Env PROVE 1 \in DOMAIN w
    <3>1. Wants[p][f].serve[e] \in DOMAIN w
      BY <1>2
    <3> HIDE DEF w
    <3>2. Wants[p][f].serve[e] \in 1..Len(w)
      BY <1>2, <3>1
    <3> QED BY <1>2, <3>2
  <2>3. Indexed(ld'[f])
    BY <2>1, <2>2 DEF Indexed
  <2> QED BY <1>5, <2>1, <2>3
<1>6. CASE At(p, "vars") /\ ld' = Extended(p)
  <2>1. /\ ld' \in [Flag -> Record] /\ \A g \in Flag : g # f => ld'[g] = ld[g]
        /\ ld'[f].exists = ld[f].exists /\ ld'[f].serve = ld[f].serve
        /\ to = vs \o Appended(lp, w)
    BY <1>6, ExtendedDoes DEF Writes
  <2>2. ld[f].exists
    BY <1>6 DEF Working, WorkingAt, At, Writes
  <2>3. Appended(lp, w) \in Seq(Value)
    BY <1>2, MappedHolds
  <2>4. Prefix(vs, to) /\ to \in Seq(Value)
    <3> HIDE DEF vs, to, lp, w
    <3> QED BY <1>2, <2>1, <2>3, PrefixFacts
  <2>5. ASSUME NEW e \in Env PROVE ld'[f].serve[e] \in DOMAIN to
    <3>1. ld[f].serve[e] \in DOMAIN vs
      BY <1>1, <2>2 DEF Indexed
    <3> HIDE DEF vs, to
    <3>2. ld[f].serve[e] \in 1..Len(vs) /\ Len(vs) <= Len(to) /\ Len(vs) \in Nat /\ Len(to) \in Nat
      BY <1>2, <2>4, <3>1 DEF Prefix
    <3>3. ld[f].serve[e] \in 1..Len(to)
      BY <3>2
    <3> QED BY <2>1, <2>4, <3>3
  <2>6. Indexed(ld'[f])
    BY <2>5 DEF Indexed
  <2> QED BY <2>1, <2>2, <2>4, <2>6
<1>7. CASE At(p, "target") /\ ld' = Targeted(p)
  <2>1. /\ ld' \in [Flag -> Record] /\ \A g \in Flag : g # f => ld'[g] = ld[g]
        /\ ld'[f].exists = ld[f].exists /\ to = vs
        /\ \A e \in Env : ld'[f].serve[e] =
               IF e \in Scope(p) THEN live_index(lp, Wants[p][f], Wants[p][f].serve[e])
               ELSE ld[f].serve[e]
    BY <1>7, TargetedDoes DEF Writes
  <2>2. ld[f].exists /\ Len(mapped(lp, w)) <= Len(vs)
    BY <1>7 DEF Working, WorkingAt, At, Writes
  <2>3. mapped(lp, w) \in Seq(Value)
    BY <1>2, MappedHolds
  <2>4. ASSUME NEW e \in Env PROVE ld'[f].serve[e] \in DOMAIN to
    <3> DEFINE i == live_index(lp, Wants[p][f], Wants[p][f].serve[e])
    <3>1. i \in DOMAIN mapped(lp, w)
      BY <1>2, LookedUp
    <3>2. ld'[f].serve[e] = i \/ ld'[f].serve[e] = ld[f].serve[e]
      BY <2>1
    <3>3. ld[f].serve[e] \in DOMAIN vs
      BY <1>1, <2>2 DEF Indexed
    <3> HIDE DEF i, w, lp, vs, to
    <3>4. i \in 1..Len(mapped(lp, w)) /\ Len(mapped(lp, w)) \in Nat /\ Len(vs) \in Nat
      BY <1>2, <2>3, <3>1
    <3>5. i \in 1..Len(vs)
      BY <2>2, <3>4
    <3>6. i \in DOMAIN vs
      BY <1>2, <3>5
    <3> QED BY <2>1, <3>2, <3>3, <3>6
  <2>5. Indexed(ld'[f])
    BY <2>4 DEF Indexed
  <2> QED BY <1>3, <1>1, <2>1, <2>2, <2>5
<1> QED BY <1>4, <1>5, <1>6, <1>7 DEF Writes

LEMMA OthersHold ==
  ASSUME PInv, NEW p \in Push, NEW f \in FlagsOf(p), Writes(p, f),
         NEW q \in Push, q # p, push'[q] = push[q]
  PROVE  WorkingAt(q)' /\ \A g \in FlagsOf(q) : ResolvedAt(q, g)'
<1> USE DEF PInv
<1>1. \A g \in Flag : Grows(g) /\ (g # f => ld'[g] = ld[g])
  BY WriteKeeps
<1>2. WorkingAt(q)'
  BY <1>1, OthersWork DEF Working
<1>3. ASSUME NEW g \in FlagsOf(q) PROVE ResolvedAt(q, g)'
  <2>1. g \in Flag /\ Scope(q) \subseteq Env /\ stale \subseteq stale' /\ ResolvedAt(q, g)
    BY Transpiled DEF Writes, Resolved
  <2>2. CASE g # f \/ ld' = ld
    BY <1>1, <2>1, <2>2, StaysResolved
  <2>3. CASE g = f /\ At(p, "create") /\ ld' = Created(p)
    <3>1. CASE ld[f].exists
      <4>1. ld' = ld
        BY <2>3, <3>1 DEF Created, Live, Writes
      <4> QED BY <2>2, <4>1
    <3>2. CASE ~ld[f].exists
      BY <2>3, <3>2, ResolvedCreating
    <3> QED BY <3>1, <3>2
  <2>4. CASE g = f /\ At(p, "vars") /\ ld' = Extended(p)
    BY <2>4, ResolvedAdding DEF Writes
  <2>5. CASE g = f /\ At(p, "target") /\ ld' = Targeted(p)
    BY <2>5, ResolvedTargeting DEF Writes
  <2> QED BY <2>2, <2>3, <2>4, <2>5 DEF Writes
<1> QED BY <1>2, <1>3

\* A request leaves the environments off that a person has turned off.
LEMMA SwitchesHold ==
  ASSUME PInv, NEW p \in Push, NEW f \in FlagsOf(p), Writes(p, f),
         NEW g \in Flag, NEW e \in Env, <<g, e>> \in killed
  PROVE  ld'[g].exists /\ e \notin ld'[g].on
<1> USE DEF PInv
<1>1. ld[g].exists /\ e \notin ld[g].on /\ ~Enabling(g)
  BY DEF Killing, KilledAt
<1>2. Grows(g) /\ (g # f => ld'[g] = ld[g])
  BY WriteKeeps
<1>3. ld'[g].exists
  BY <1>1, <1>2 DEF Grows
<1>4. CASE g # f
  BY <1>1, <1>2, <1>4
<1>5. CASE g = f /\ At(p, "create") /\ ld' = Created(p)
  BY <1>1, <1>5 DEF Created, Live, Writes
<1>6. CASE g = f /\ At(p, "vars") /\ ld' = Extended(p)
  BY <1>1, <1>3, <1>6, ExtendedDoes DEF Writes
<1>7. CASE g = f /\ At(p, "target") /\ ld' = Targeted(p)
  <2>1. ~push[p].fresh
    BY <1>1, <1>7 DEF Enabling, Writes
  <2>2. ld'[f].on = ld[f].on
    BY <1>7, <2>1, TargetedDoes DEF Writes
  <2> QED BY <1>1, <1>3, <1>7, <2>2
<1> QED BY <1>4, <1>5, <1>6, <1>7 DEF Writes

-----------------------------------------------------------------------------
(***************************************************************************)
(* Every step keeps the invariant.                                         *)
(***************************************************************************)
\* What is left to show of a step of p: where p itself stands after it.
LEMMA StepKeeps ==
  ASSUME PInv, NEW p \in Push,
         push' \in [Push -> Progress], \A q \in Push : q # p => push'[q] = push[q],
         WorkingAt(p)', \A g \in FlagsOf(p) : ResolvedAt(p, g)',
         failures' \in 0..MaxFailures, UNCHANGED ui,
         \/ UNCHANGED <<ld, stale>>
         \/ push[p].flag \in FlagsOf(p) /\ Writes(p, push[p].flag),
         push'[p].pc = "target" /\ push'[p].fresh => ~ld[push'[p].flag].exists
                                                     \/ Enabling(push'[p].flag)
  PROVE  PInv'
<1> DEFINE f == push[p].flag
<1> USE DEF PInv
<1>1. /\ ld \in [Flag -> Record] /\ push \in [Push -> Progress]
      /\ \A g \in Flag : Indexed(ld[g])
  BY Shapes
<1> DEFINE Hold == /\ \A q \in Push : WorkingAt(q)' /\ \A g \in FlagsOf(q) : ResolvedAt(q, g)'
                   /\ \A g \in Flag, e \in Env : <<g, e>> \in killed =>
                          ld'[g].exists /\ e \notin ld'[g].on
                   /\ ld' \in [Flag -> Record] /\ \A g \in Flag : Indexed(ld'[g])
                   /\ stale' \subseteq Push \X Flag
<1>2. ASSUME UNCHANGED <<ld, stale>> PROVE Hold
  <2>1. ASSUME NEW q \in Push PROVE WorkingAt(q)'
    <3>1. CASE q # p
      BY <1>2, <3>1 DEF Working, WorkingAt, Reported
    <3> QED BY <3>1
  <2>2. ASSUME NEW q \in Push, NEW g \in FlagsOf(q) PROVE ResolvedAt(q, g)'
    <3>1. CASE q # p
      BY <1>2, <2>2, <3>1, SMTT(30) DEF Resolved, ResolvedAt, At, Reported, Serves, Scope
    <3> QED BY <2>2, <3>1
  <2>3. ASSUME NEW g \in Flag, NEW e \in Env, <<g, e>> \in killed
        PROVE  ld'[g].exists /\ e \notin ld'[g].on
    BY <1>2, <2>3 DEF Killing, KilledAt
  <2>4. ld' \in [Flag -> Record] /\ \A g \in Flag : Indexed(ld'[g])
    BY <1>1, <1>2
  <2>5. stale' \subseteq Push \X Flag
    BY <1>2 DEF TypeOK
  <2> QED BY <2>1, <2>2, <2>3, <2>4, <2>5
<1>3. ASSUME f \in FlagsOf(p), Writes(p, f) PROVE Hold
  <2>1. ASSUME NEW q \in Push PROVE WorkingAt(q)' /\ \A g \in FlagsOf(q) : ResolvedAt(q, g)'
    BY <1>3, OthersHold
  <2>2. ASSUME NEW g \in Flag, NEW e \in Env, <<g, e>> \in killed
        PROVE  ld'[g].exists /\ e \notin ld'[g].on
    BY <1>3, <2>2, SwitchesHold
  <2>3. ld' \in [Flag -> Record] /\ \A g \in Flag : Indexed(ld'[g])
    BY <1>3, WriteKeeps
  <2>4. f \in Flag
    BY <1>3, Transpiled
  <2>5. stale' \subseteq Push \X Flag
    <3>1. Overtaken(p) \subseteq Push \X Flag
      BY <2>4 DEF Overtaken
    <3> QED BY <1>3, <3>1 DEF TypeOK, Writes
  <2> QED BY <2>1, <2>2, <2>3, <2>5
<1>4. Hold
  BY <1>2, <1>3
<1>5. TypeOK'
  BY <1>4 DEF TypeOK, Record, Progress, Indexed, ui
<1>6. ASSUME NEW g \in Flag, NEW e \in Env, <<g, e>> \in killed PROVE ~Enabling(g)'
  <2>1. ld[g].exists /\ ~Enabling(g)
    BY <1>6 DEF Killing, KilledAt
  <2>2. ASSUME NEW q \in Push, At(q, "target")', push'[q].flag = g, push'[q].fresh PROVE FALSE
    <3>1. CASE q = p
      BY <2>1, <2>2, <3>1 DEF At
    <3>2. CASE q # p
      BY <2>1, <2>2, <3>2 DEF At, Enabling
    <3> QED BY <3>1, <3>2
  <2> QED BY <2>2 DEF Enabling
<1>7. Killing'
  BY <1>4, <1>6 DEF Killing, KilledAt, ui
<1>8. Working' /\ Resolved'
  BY <1>4 DEF Working, Resolved, FlagsOf
<1> QED BY <1>5, <1>7, <1>8

\* What a push has reported stays as it was, whatever it does next.
LEMMA Reports ==
  ASSUME PInv, NEW p \in Push, \A h \in Flag : Reported(p, h)' => Reported(p, h),
         \/ UNCHANGED <<ld, stale>>
         \/ push[p].flag \in FlagsOf(p) /\ Writes(p, push[p].flag)
  PROVE  /\ \A h \in Flag : Reported(p, h)' => ld'[h].exists
         /\ \A g \in FlagsOf(p) : <<p, g>> \notin stale' /\ Reported(p, g)' =>
                \A e \in Scope(p) : ld'[g].values[ld'[g].serve[e]] = Wants[p][g].values[Wants[p][g].serve[e]]
<1> USE DEF PInv
<1>1. ASSUME NEW h \in Flag, Reported(p, h) PROVE ld'[h] = ld[h]
  <2>1. CASE UNCHANGED <<ld, stale>>
    BY <2>1
  <2>2. CASE push[p].flag \in FlagsOf(p) /\ Writes(p, push[p].flag)
    <3>1. h # push[p].flag
      BY <1>1, <2>2 DEF Writes, At, Working, WorkingAt
    <3> QED BY <2>2, <3>1, WriteKeeps
  <2> QED BY <2>1, <2>2
<1>2. ASSUME NEW h \in Flag, Reported(p, h)' PROVE ld'[h].exists
  BY <1>1, <1>2 DEF Working, WorkingAt
<1>3. ASSUME NEW g \in FlagsOf(p), <<p, g>> \notin stale', Reported(p, g)', NEW e \in Scope(p)
      PROVE  ld'[g].values[ld'[g].serve[e]] = Wants[p][g].values[Wants[p][g].serve[e]]
  <2>1. g \in Flag
    BY Transpiled
  <2>2. Reported(p, g) /\ ld'[g] = ld[g]
    BY <1>1, <1>3, <2>1
  <2>3. <<p, g>> \notin stale
    BY <1>3 DEF Writes
  <2>4. ld[g].values[ld[g].serve[e]] = Wants[p][g].values[Wants[p][g].serve[e]]
    BY <2>2, <2>3 DEF Resolved, ResolvedAt, Serves
  <2> QED BY <2>2, <2>4
<1> QED BY <1>2, <1>3

\* A push between two flags, or at its end, that has nothing new to report.
LEMMA Rests ==
  ASSUME PInv, NEW p \in Push, push'[p].pc \in {"next", "ended"},
         \A h \in Flag : Reported(p, h)' => Reported(p, h),
         \/ UNCHANGED <<ld, stale>>
         \/ push[p].flag \in FlagsOf(p) /\ Writes(p, push[p].flag)
  PROVE  WorkingAt(p)' /\ \A g \in FlagsOf(p) : ResolvedAt(p, g)'
<1>1. WorkingAt(p)'
  BY Reports DEF WorkingAt
<1>2. ~At(p, "vars")' /\ ~At(p, "target")'
  BY DEF At
<1>3. ASSUME NEW g \in FlagsOf(p) PROVE ResolvedAt(p, g)'
  BY <1>2, Reports DEF ResolvedAt, Serves, Scope
<1> QED BY <1>1, <1>3

\* Nothing is sent, and nothing new is reported.
LEMMA QuietStep ==
  ASSUME PInv, NEW p \in Push, UNCHANGED <<ld, ui, stale>>,
         failures' \in 0..MaxFailures,
         \/ Goto(p, "next") \/ Goto(p, "ended")
         \/ \E r \in {"failed", "would create", "would update"} : Settle(p, r)
  PROVE  PInv'
<1> USE DEF PInv
<1>1. push \in [Push -> Progress]
  BY Shapes
<1>2. /\ push' \in [Push -> Progress] /\ \A q \in Push : q # p => push'[q] = push[q]
      /\ push'[p].pc \in {"next", "ended"}
      /\ \A h \in Flag : Reported(p, h)' => Reported(p, h)
  <2>1. CASE Goto(p, "next")
    BY <1>1, <2>1, GoesTo DEF Reported
  <2>2. CASE Goto(p, "ended")
    BY <1>1, <2>2, GoesTo DEF Reported
  <2>3. ASSUME NEW r \in {"failed", "would create", "would update"}, Settle(p, r)
        PROVE  /\ push' \in [Push -> Progress] /\ \A q \in Push : q # p => push'[q] = push[q]
               /\ push'[p].pc \in {"next", "ended"}
               /\ \A h \in Flag : Reported(p, h)' => Reported(p, h)
    <3>1. /\ push' \in [Push -> Progress] /\ \A q \in Push : q # p => push'[q] = push[q]
          /\ push'[p].pc = "next" /\ push'[p].result[push[p].flag] = r
          /\ \A h \in Flag : h # push[p].flag => push'[p].result[h] = push[p].result[h]
      BY <1>1, <2>3, Settles
    <3>2. ASSUME NEW h \in Flag, Reported(p, h)' PROVE Reported(p, h)
      BY <3>1, <3>2 DEF Reported
    <3> QED BY <3>1, <3>2
  <2> QED BY <2>1, <2>2, <2>3
<1>3. WorkingAt(p)' /\ \A g \in FlagsOf(p) : ResolvedAt(p, g)'
  BY <1>2, Rests
<1> QED BY <1>2, <1>3, StepKeeps

\* A request is sent, and the push goes on to the next flag without a report.
LEMMA FailedWrite ==
  ASSUME PInv, NEW p \in Push, Writes(p, push[p].flag), Settle(p, "failed"),
         failures' \in 0..MaxFailures, UNCHANGED ui
  PROVE  PInv'
<1> USE DEF PInv
<1>1. push \in [Push -> Progress] /\ push[p].flag \in FlagsOf(p)
  BY Shapes DEF Working, WorkingAt, Writes, At
<1>2. /\ push' \in [Push -> Progress] /\ \A q \in Push : q # p => push'[q] = push[q]
      /\ push'[p].pc = "next" /\ push'[p].result[push[p].flag] = "failed"
      /\ \A h \in Flag : h # push[p].flag => push'[p].result[h] = push[p].result[h]
  BY <1>1, Settles
<1>3. ASSUME NEW h \in Flag, Reported(p, h)' PROVE Reported(p, h)
  BY <1>2, <1>3 DEF Reported
<1>4. WorkingAt(p)' /\ \A g \in FlagsOf(p) : ResolvedAt(p, g)'
  BY <1>1, <1>2, <1>3, Rests
<1> QED BY <1>1, <1>2, <1>4, StepKeeps

\* Every environment in scope serves what the Flagfile says.
LEMMA TargetKeeps ==
  ASSUME PInv, NEW p \in Push, Target(p)
  PROVE  PInv'
<1> USE DEF PInv
<1> DEFINE f == push[p].flag
           r == IF push[p].fresh THEN "created" ELSE "updated"
<1>1. push \in [Push -> Progress] /\ f \in FlagsOf(p) /\ failures \in 0..MaxFailures
  BY Shapes DEF Working, WorkingAt, Target, At, TypeOK
<1>2. Writes(p, f) /\ At(p, "target") /\ ld' = Targeted(p)
  BY DEF Target, Writes
<1>3. /\ push' \in [Push -> Progress] /\ \A q \in Push : q # p => push'[q] = push[q]
      /\ push'[p].pc = "next"
      /\ \A h \in Flag : h # f => push'[p].result[h] = push[p].result[h]
  <2>1. Settle(p, r) /\ r \in {"created", "updated"}
    BY DEF Target
  <2> HIDE DEF r
  <2> QED BY <1>1, <2>1, Settles
<1>4. f \in Flag /\ (\A h \in Flag : h # f => ld'[h] = ld[h]) /\ ld'[f].exists
  BY <1>1, <1>2, WriteKeeps, Transpiled
<1>5. ASSUME NEW h \in Flag, Reported(p, h)' PROVE ld'[h].exists
  BY <1>3, <1>4, <1>5 DEF Working, WorkingAt, Reported
<1>6. WorkingAt(p)'
  BY <1>3, <1>5 DEF WorkingAt
<1>7. ASSUME NEW g \in FlagsOf(p), <<p, g>> \notin stale', Reported(p, g)', NEW e \in Scope(p)
      PROVE  ld'[g].values[ld'[g].serve[e]] = Wants[p][g].values[Wants[p][g].serve[e]]
  <2>1. <<p, g>> \notin stale /\ g \in Flag
    BY <1>2, <1>7, Transpiled DEF Writes
  <2>2. CASE g = f
    BY <1>2, <2>1, <2>2, TargetServes
  <2>3. CASE g # f
    <3>1. Reported(p, g) /\ ld'[g] = ld[g]
      BY <1>3, <1>4, <1>7, <2>1, <2>3 DEF Reported
    <3>2. ld[g].values[ld[g].serve[e]] = Wants[p][g].values[Wants[p][g].serve[e]]
      BY <2>1, <3>1 DEF Resolved, ResolvedAt, Serves
    <3> QED BY <3>1, <3>2
  <2> QED BY <2>2, <2>3
<1>8. ASSUME NEW g \in FlagsOf(p) PROVE ResolvedAt(p, g)'
  <2>1. ~At(p, "vars")' /\ ~At(p, "target")'
    BY <1>3 DEF At
  <2> QED BY <1>7, <2>1 DEF ResolvedAt, Serves, Scope
<1>9. failures' \in 0..MaxFailures /\ UNCHANGED ui
  BY <1>1 DEF Target
<1> QED BY <1>1, <1>2, <1>3, <1>6, <1>8, <1>9, StepKeeps

LEMMA SyncKeeps ==
  ASSUME PInv, NEW p \in Push, NEW f \in FlagsOf(p), SyncFlag(p, f)
  PROVE  PInv'
<1> USE DEF PInv
<1>1. push \in [Push -> Progress] /\ f \in Flag
  BY Shapes, Transpiled
<1>2. /\ push' \in [Push -> Progress] /\ \A q \in Push : q # p => push'[q] = push[q]
      /\ push'[p].pc = "get" /\ push'[p].flag = f /\ push'[p].result = push[p].result
  BY <1>1, Takes DEF SyncFlag
<1>3. UNCHANGED <<ld, stale>> /\ UNCHANGED ui /\ failures' \in 0..MaxFailures
  BY DEF SyncFlag, TypeOK
<1>4. ~Reported(p, f)' /\ \A h \in Flag : Reported(p, h)' => Reported(p, h)
  BY <1>2 DEF SyncFlag, Reported
<1>5. WorkingAt(p)'
  BY <1>2, <1>3, <1>4, Reports DEF WorkingAt
<1>6. ASSUME NEW g \in FlagsOf(p) PROVE ResolvedAt(p, g)'
  <2>1. ~At(p, "vars")' /\ ~At(p, "target")'
    BY <1>2 DEF At
  <2> QED BY <1>3, <1>4, <2>1, Reports DEF ResolvedAt, Serves, Scope
<1> QED BY <1>2, <1>3, <1>5, <1>6, StepKeeps

\* What has just been read is what is there.
LEMMA GetKeeps ==
  ASSUME PInv, NEW p \in Push, Get(p)
  PROVE  PInv'
<1> USE DEF PInv
<1> DEFINE f == push[p].flag
           w == Wants[p][f].values
           there == ld[f].exists
           live == IF there THEN ld[f].values ELSE w
           fresh == ~there
           pc == IF ~there THEN "create" ELSE IF Missing(live, w) # {} THEN "vars" ELSE "target"
<1>1. push \in [Push -> Progress] /\ ld \in [Flag -> Record]
  BY Shapes
<1>2. f \in FlagsOf(p) /\ ~Reported(p, f)
  BY DEF Get, At, Working, WorkingAt
<1>3. f \in Flag /\ w \in Seq(Value) /\ ld[f].values \in Seq(Value) /\ there \in BOOLEAN
  BY <1>1, <1>2, Transpiled DEF Record
<1>4. live \in Seq(Value) /\ pc \in {"create", "vars", "target"} /\ fresh \in BOOLEAN
  BY <1>3
<1>5. push' = [push EXCEPT ![p].pc = pc, ![p].live = live, ![p].fresh = fresh]
  BY DEF Get, Live, Want
<1>6. /\ pc = "create" => fresh /\ ~there /\ live = w
      /\ pc # "create" => ~fresh /\ there /\ live = ld[f].values
      /\ pc = "target" => Missing(live, w) = {}
  OBVIOUS
<1>7. UNCHANGED <<ld, stale>> /\ UNCHANGED ui /\ failures' \in 0..MaxFailures
  BY DEF Get, TypeOK
<1> HIDE DEF live, pc, fresh
<1>8. /\ push' \in [Push -> Progress] /\ \A q \in Push : q # p => push'[q] = push[q]
      /\ push'[p].pc = pc /\ push'[p].flag = f /\ push'[p].live = live
      /\ push'[p].fresh = fresh /\ push'[p].result = push[p].result
  BY <1>1, <1>3, <1>4, <1>5, Reads
<1>9. push'[p].result[f] \notin {"created", "updated"} /\ \A h \in Flag : Reported(p, h)' => Reported(p, h)
  BY <1>2, <1>8 DEF Reported
<1>10. pc = "target" => mapped(live, w) = ld[f].values
  BY <1>3, <1>4, <1>6, MappedHolds
<1>11. pc # "create" => Prefix(live, ld[f].values)
  BY <1>3, <1>6, PrefixFacts
<1>12. Len(ld[f].values) <= Len(ld[f].values) /\ Prefix(ld[f].values, ld[f].values)
  BY <1>3, PrefixFacts DEF Prefix
<1>13. /\ \A h \in Flag : Reported(p, h)' => ld'[h].exists
       /\ \A g \in FlagsOf(p) : <<p, g>> \notin stale' /\ Reported(p, g)' =>
              \A e \in Scope(p) : ld'[g].values[ld'[g].serve[e]] = Wants[p][g].values[Wants[p][g].serve[e]]
  BY <1>7, <1>9, Reports
<1> HIDE DEF f
<1>14. WorkingAt(p)'
  BY <1>2, <1>4, <1>6, <1>7, <1>8, <1>9, <1>10, <1>11, <1>12, <1>13 DEF WorkingAt, Reported
<1>15. ASSUME NEW g \in FlagsOf(p) PROVE ResolvedAt(p, g)'
  BY <1>6, <1>7, <1>8, <1>10, <1>12, <1>13 DEF ResolvedAt, Serves, Scope, At
<1>16. push'[p].pc = "target" => ~push'[p].fresh
  BY <1>6, <1>8
<1> QED BY <1>7, <1>8, <1>14, <1>15, <1>16, StepKeeps

\* A flag this push creates holds the values it wants, in its order.
LEMMA CreateKeeps ==
  ASSUME PInv, NEW p \in Push, Create(p), Scope(p) # {}
  PROVE  PInv'
<1> USE DEF PInv
<1> DEFINE f == push[p].flag
           w == Wants[p][f].values
<1>1. push \in [Push -> Progress] /\ ~ld[f].exists /\ Goto(p, "target")
  BY Shapes DEF Create, Live
<1>2. f \in FlagsOf(p) /\ ~Reported(p, f) /\ push[p].fresh /\ push[p].live = w
  BY DEF Create, At, Working, WorkingAt
<1>3. Writes(p, f) /\ ld' = Created(p) /\ UNCHANGED ui /\ failures' \in 0..MaxFailures
  BY DEF Create, Writes, TypeOK
<1>4. w \in Seq(Value)
  BY <1>2, Transpiled
<1>5. /\ push' \in [Push -> Progress] /\ \A q \in Push : q # p => push'[q] = push[q]
      /\ push'[p].pc = "target" /\ push'[p].flag = f /\ push'[p].live = w
      /\ push'[p].result = push[p].result
  BY <1>1, <1>2, GoesTo
<1>6. ld'[f].exists /\ ld'[f].values = w
  BY <1>1, <1>2, <1>3, CreatedDoes
<1>7. mapped(w, w) = w /\ Len(w) <= Len(w) /\ Prefix(w, w)
  <2>1. Missing(w, w) = {}
    BY DEF Missing, Has
  <2> HIDE DEF w
  <2> QED BY <1>4, <2>1, MappedHolds, PrefixFacts DEF Prefix
<1>8. push'[p].result[f] \notin {"created", "updated"} /\ \A h \in Flag : Reported(p, h)' => Reported(p, h)
  BY <1>2, <1>5 DEF Reported
<1>9. /\ \A h \in Flag : Reported(p, h)' => ld'[h].exists
      /\ \A g \in FlagsOf(p) : <<p, g>> \notin stale' /\ Reported(p, g)' =>
             \A e \in Scope(p) : ld'[g].values[ld'[g].serve[e]] = Wants[p][g].values[Wants[p][g].serve[e]]
  BY <1>2, <1>3, <1>8, Reports
<1> HIDE DEF f
<1>10. WorkingAt(p)'
  BY <1>2, <1>5, <1>6, <1>7, <1>8, <1>9 DEF WorkingAt, Reported
<1>11. ASSUME NEW g \in FlagsOf(p) PROVE ResolvedAt(p, g)'
  BY <1>5, <1>6, <1>7, <1>9 DEF ResolvedAt, Serves, Scope, At
<1> QED BY <1>1, <1>2, <1>3, <1>5, <1>10, <1>11, StepKeeps DEF f

\* After its own values, the push knows all of the flag's up to them.
LEMMA AddKeeps ==
  ASSUME PInv, NEW p \in Push, AddValues(p)
  PROVE  PInv'
<1> USE DEF PInv
<1> DEFINE f == push[p].flag
           w == Wants[p][f].values
           lp == push[p].live
           vs == ld[f].values
           to == ld'[f].values
<1>1. push \in [Push -> Progress] /\ ld \in [Flag -> Record] /\ Goto(p, "target") /\ At(p, "vars")
  BY Shapes DEF AddValues
<1>2. f \in FlagsOf(p) /\ ~Reported(p, f) /\ ~push[p].fresh /\ ld[f].exists /\ Prefix(lp, vs)
  BY <1>1 DEF At, Working, WorkingAt
<1>3. Writes(p, f) /\ ld' = Extended(p) /\ UNCHANGED ui /\ failures' \in 0..MaxFailures
  BY DEF AddValues, Writes, TypeOK
<1>4. f \in Flag /\ w \in Seq(Value) /\ vs \in Seq(Value) /\ lp \in Seq(Value)
  BY <1>1, <1>2, Transpiled DEF Record, Progress
<1>5. /\ push' \in [Push -> Progress] /\ \A q \in Push : q # p => push'[q] = push[q]
      /\ push'[p].pc = "target" /\ push'[p].flag = f /\ push'[p].live = lp
      /\ push'[p].fresh = push[p].fresh /\ push'[p].result = push[p].result
  BY <1>1, GoesTo
<1>6. ld'[f].exists /\ to = vs \o Appended(lp, w)
  BY <1>2, <1>3, ExtendedDoes
<1>7. Appended(lp, w) \in Seq(Value) /\ mapped(lp, w) = lp \o Appended(lp, w) /\ mapped(lp, w) \in Seq(Value)
  BY <1>4, MappedHolds DEF mapped
<1>8. Len(mapped(lp, w)) <= Len(to)
  <2> HIDE DEF w, lp, vs, to
  <2>1. Len(mapped(lp, w)) = Len(lp) + Len(Appended(lp, w)) /\ Len(to) = Len(vs) + Len(Appended(lp, w))
    BY <1>4, <1>6, <1>7
  <2>2. Len(lp) <= Len(vs) /\ Len(lp) \in Nat /\ Len(vs) \in Nat /\ Len(Appended(lp, w)) \in Nat
    BY <1>2, <1>4, <1>7 DEF Prefix
  <2> QED BY <2>1, <2>2
<1>9. <<p, f>> \notin stale => Prefix(mapped(lp, w), to)
  <2> SUFFICES ASSUME <<p, f>> \notin stale PROVE Prefix(mapped(lp, w), to)
    OBVIOUS
  <2>1. vs = lp \/ Prefix(mapped(lp, w), vs)
    BY <1>1, <1>2 DEF Resolved, ResolvedAt
  <2>2. to \in Seq(Value) /\ Prefix(vs, to)
    <3> HIDE DEF w, lp, vs, to
    <3> QED BY <1>4, <1>6, <1>7, PrefixFacts
  <2> HIDE DEF w, lp, vs, to
  <2>3. CASE vs = lp
    BY <1>6, <1>7, <2>3, PrefixFacts
  <2>4. CASE Prefix(mapped(lp, w), vs)
    BY <1>4, <1>7, <2>2, <2>4, PrefixFacts
  <2> QED BY <2>1, <2>3, <2>4
<1>10. push'[p].result[f] \notin {"created", "updated"} /\ \A h \in Flag : Reported(p, h)' => Reported(p, h)
  BY <1>2, <1>5 DEF Reported
<1>11. /\ \A h \in Flag : Reported(p, h)' => ld'[h].exists
       /\ \A g \in FlagsOf(p) : <<p, g>> \notin stale' /\ Reported(p, g)' =>
              \A e \in Scope(p) : ld'[g].values[ld'[g].serve[e]] = Wants[p][g].values[Wants[p][g].serve[e]]
  BY <1>2, <1>3, <1>10, Reports
<1>12. <<p, f>> \notin stale' => <<p, f>> \notin stale
  BY <1>3 DEF Writes
<1> HIDE DEF f, lp, to
<1>13. WorkingAt(p)'
  BY <1>2, <1>5, <1>6, <1>8, <1>10, <1>11 DEF WorkingAt, Reported, to
<1>14. ASSUME NEW g \in FlagsOf(p) PROVE ResolvedAt(p, g)'
  BY <1>5, <1>9, <1>11, <1>12 DEF ResolvedAt, Serves, Scope, At, to
<1> QED BY <1>2, <1>3, <1>5, <1>13, <1>14, StepKeeps DEF f

\* A click changes what is on, and nothing a push relies on.
LEMMA ToggleKeeps ==
  ASSUME PInv, NEW g \in Flag, NEW e \in Env, Toggle(g, e)
  PROVE  /\ PInv'
         /\ \A h \in Flag : ld'[h].values = ld[h].values /\ ld'[h].serve = ld[h].serve
<1> USE DEF PInv
<1> DEFINE on == IF e \in ld[g].on THEN ld[g].on \ {e} ELSE ld[g].on \cup {e}
           r == [ld[g] EXCEPT !.on = on]
<1>1. ld \in [Flag -> Record] /\ push \in [Push -> Progress] /\ \A h \in Flag : Indexed(ld[h])
  BY Shapes
<1>2. ld[g] \in Record /\ ld[g].on \subseteq Env
  BY <1>1 DEF Record
<1>3. on \in SUBSET Env
  BY <1>2
<1>4. ld' = [ld EXCEPT ![g] = r]
  BY <1>1 DEF Toggle
<1>5. killed' \subseteq killed \cup {<<g, e>>} /\ (<<g, e>> \in killed' => e \notin on /\ ~Enabling(g))
  <2>1. CASE e \in ld[g].on
    <3>1. killed' = IF Enabling(g) THEN killed ELSE killed \cup {<<g, e>>}
      BY <2>1 DEF Toggle
    <3>2. Enabling(g) => <<g, e>> \notin killed
      BY DEF Killing, KilledAt
    <3> QED BY <2>1, <3>1, <3>2
  <2>2. CASE e \notin ld[g].on
    BY <2>2 DEF Toggle
  <2> QED BY <2>1, <2>2
<1>6. \A d \in Env : d # e => (d \in on <=> d \in ld[g].on)
  OBVIOUS
<1> HIDE DEF on
<1>7. r \in Record /\ r.exists = ld[g].exists /\ r.values = ld[g].values /\ r.on = on /\ r.serve = ld[g].serve
  BY <1>2, <1>3, ToggledRecord
<1> HIDE DEF r
<1>8. /\ ld' \in [Flag -> Record] /\ \A h \in Flag : h # g => ld'[h] = ld[h]
      /\ ld'[g] = r
  BY <1>1, <1>4, <1>7
<1>9. \A h \in Flag : /\ ld'[h].exists = ld[h].exists /\ ld'[h].values = ld[h].values
                      /\ ld'[h].serve = ld[h].serve
  BY <1>7, <1>8
<1>10. UNCHANGED <<push, failures, stale>> /\ toggles' \in 0..MaxToggles
  <2>1. toggles \in 0..MaxToggles /\ MaxToggles \in Nat
    BY PushesAssumption DEF TypeOK
  <2>2. toggles' = toggles + 1 /\ toggles < MaxToggles /\ UNCHANGED <<push, failures, stale>>
    BY DEF Toggle
  <2> QED BY <2>1, <2>2
<1>11. killed' \subseteq Flag \X Env
  <2>1. killed \subseteq Flag \X Env /\ <<g, e>> \in Flag \X Env
    BY DEF TypeOK
  <2> QED BY <1>5, <2>1
<1>12. \A h \in Flag : Indexed(ld'[h])
  BY <1>1, <1>9 DEF Indexed
<1>13. TypeOK'
  BY <1>8, <1>10, <1>11, <1>12 DEF TypeOK, Record, Progress, Indexed
<1>14. ASSUME NEW q \in Push PROVE WorkingAt(q)'
  <2>1. WorkingAt(q) /\ push[q].flag \in Flag
    BY <1>1 DEF Working, Progress
  <2> QED BY <1>9, <1>10, <2>1 DEF WorkingAt, Reported
<1>15. ASSUME NEW q \in Push, NEW h \in FlagsOf(q) PROVE ResolvedAt(q, h)'
  <2>1. h \in Flag /\ ResolvedAt(q, h)
    BY Transpiled DEF Resolved
  <2> QED BY <1>9, <1>10, <2>1, StaysResolved
<1>16. ASSUME NEW h \in Flag, NEW d \in Env, <<h, d>> \in killed'
       PROVE  ld'[h].exists /\ d \notin ld'[h].on /\ ~Enabling(h)'
  <2>1. CASE h = g /\ d = e
    <3>1. ld[g].exists
      BY DEF Toggle
    <3> QED BY <1>5, <1>7, <1>8, <1>10, <1>16, <2>1, <3>1 DEF Enabling, At
  <2>2. CASE ~(h = g /\ d = e)
    <3>1. <<h, d>> \in killed
      BY <1>5, <1>16, <2>2
    <3>2. ld[h].exists /\ d \notin ld[h].on /\ ~Enabling(h)
      BY <3>1 DEF Killing, KilledAt
    <3>3. d \notin ld'[h].on
      BY <1>6, <1>7, <1>8, <2>2, <3>2
    <3> QED BY <1>9, <1>10, <3>2, <3>3 DEF Enabling, At
  <2> QED BY <2>1, <2>2
<1>17. Killing'
  BY <1>16 DEF Killing, KilledAt
<1>18. Working' /\ Resolved'
  BY <1>14, <1>15 DEF Working, Resolved, FlagsOf
<1> QED BY <1>9, <1>13, <1>17, <1>18

LEMMA InitHolds == Init => PInv
<1> SUFFICES ASSUME Init PROVE PInv
  OBVIOUS
<1> DEFINE there == [Absent EXCEPT !.exists = TRUE, !.values = Before]
<1>1. Absent \in Record /\ ~Absent.exists
  BY DEF Absent, Record
<1>2. Before \in Seq(Value) /\ Before # <<>> /\ MaxFailures \in Nat /\ MaxToggles \in Nat
  BY PushesAssumption
<1>3. /\ there \in Record /\ there.exists = TRUE /\ there.values = Before /\ there.on = Absent.on
      /\ there.serve = Absent.serve
  BY <1>1, <1>2, CreatedRecord
<1>4. ASSUME NEW e \in Env PROVE there.serve[e] \in DOMAIN there.values
  <2>1. there.serve[e] = 1
    BY <1>3 DEF Absent
  <2>2. 1 \in DOMAIN Before
    BY <1>2
  <2> QED BY <1>3, <2>1, <2>2
<1>5. Indexed(there) /\ Indexed(Absent)
  BY <1>1, <1>4 DEF Indexed
<1>6. ld \in [Flag -> {there, Absent}]
  BY DEF Init
<1> HIDE DEF there
<1>7. ld \in [Flag -> Record] /\ \A g \in Flag : Indexed(ld[g])
  BY <1>1, <1>3, <1>5, <1>6
<1>8. PICK f \in Flag : push = [p \in Push |-> [pc |-> "start", flag |-> f, live |-> <<>>, fresh |-> FALSE,
                                                result |-> [g \in Flag |-> "none"]]]
  BY DEF Init
<1>9. push \in [Push -> Progress]
  BY <1>8 DEF Progress
<1>10. TypeOK
  BY <1>2, <1>7, <1>9 DEF Init, TypeOK, Record, Progress, Indexed
<1>11. \A q \in Push : push[q].pc = "start" /\ \A g \in Flag : push[q].result[g] = "none"
  BY <1>8
<1>12. Working
  BY <1>11 DEF Working, WorkingAt, Reported
<1>13. Resolved
  <2>1. ASSUME NEW q \in Push, NEW g \in FlagsOf(q) PROVE ResolvedAt(q, g)
    <3>1. g \in Flag
      BY Transpiled
    <3> QED BY <1>11, <3>1 DEF ResolvedAt, At, Reported
  <2> QED BY <2>1 DEF Resolved
<1>14. Killing
  BY DEF Init, Killing, KilledAt
<1> QED BY <1>10, <1>12, <1>13, <1>14 DEF PInv

LEMMA PushStepKeeps ==
  ASSUME PInv, NEW p \in Push, PushStep(p)
  PROVE  PInv'
<1>1. failures \in 0..MaxFailures /\ MaxFailures \in Nat
  BY PushesAssumption DEF PInv, TypeOK
<1>2. failures < MaxFailures => failures + 1 \in 0..MaxFailures
  BY <1>1
<1>3. CASE Refuse(p) \/ Begin(p) \/ End(p)
  BY <1>1, <1>3, QuietStep DEF Refuse, Begin, End, ui
<1>4. CASE Plan(p)
  <2> DEFINE r == IF Scope(p) = {} THEN "failed" ELSE IF Live(p).exists THEN "would update" ELSE "would create"
  <2>1. Settle(p, r) /\ r \in {"failed", "would create", "would update"}
    BY <1>4 DEF Plan
  <2>2. UNCHANGED <<ld, ui, stale>> /\ failures' \in 0..MaxFailures
    BY <1>1, <1>4 DEF Plan, ui
  <2> HIDE DEF r
  <2> QED BY <2>1, <2>2, QuietStep
<1>5. CASE NotConfigured(p) \/ CreateConflicts(p)
  BY <1>1, <1>5, QuietStep DEF NotConfigured, CreateConflicts, ui
<1>6. CASE RequestFails(p)
  <2>1. UNCHANGED <<ld, ui, stale>> /\ failures' \in 0..MaxFailures /\ Settle(p, "failed")
    BY <1>2, <1>6 DEF RequestFails, ui
  <2> QED BY <2>1, QuietStep
<1>7. ASSUME NEW f \in FlagsOf(p), SyncFlag(p, f) PROVE PInv'
  BY <1>7, SyncKeeps
<1>8. CASE Get(p)
  BY <1>8, GetKeeps
<1>9. CASE Create(p)
  <2>1. CASE Scope(p) # {}
    BY <1>9, <2>1, CreateKeeps
  <2>2. CASE Scope(p) = {}
    <3>1. Writes(p, push[p].flag) /\ Settle(p, "failed") /\ UNCHANGED ui /\ failures' \in 0..MaxFailures
      BY <1>1, <1>9, <2>2 DEF Create, Writes
    <3> QED BY <3>1, FailedWrite
  <2> QED BY <2>1, <2>2
<1>10. CASE AddValues(p)
  BY <1>10, AddKeeps
<1>11. CASE Target(p)
  BY <1>11, TargetKeeps
<1>12. CASE AnswerLost(p)
  <2>1. Writes(p, push[p].flag) /\ Settle(p, "failed") /\ UNCHANGED ui /\ failures' \in 0..MaxFailures
    BY <1>2, <1>12 DEF AnswerLost, Writes
  <2> QED BY <2>1, FailedWrite
<1> QED BY <1>3, <1>4, <1>5, <1>6, <1>7, <1>8, <1>9, <1>10, <1>11, <1>12 DEF PushStep

LEMMA StepHolds == PInv /\ [Next]_vars => PInv'
<1> SUFFICES ASSUME PInv, [Next]_vars PROVE PInv'
  OBVIOUS
<1>1. CASE Next
  BY <1>1, PushStepKeeps, ToggleKeeps DEF Next
<1>2. CASE UNCHANGED vars
  <2>1. UNCHANGED <<ld, push, failures, toggles, killed, stale>>
    BY <1>2 DEF vars
  <2>2. TypeOK'
    BY <2>1 DEF PInv, TypeOK
  <2>3. Working'
    BY <2>1 DEF PInv, Working, WorkingAt, Reported, FlagsOf
  <2>4. Resolved'
    BY <2>1 DEF PInv, Resolved, ResolvedAt, Reported, At, Serves, Scope, FlagsOf
  <2>5. Killing'
    BY <2>1 DEF PInv, Killing, KilledAt, Enabling, At
  <2> QED BY <2>2, <2>3, <2>4, <2>5 DEF PInv
<1> QED BY <1>1, <1>2

-----------------------------------------------------------------------------
(***************************************************************************)
(* Theorems.                                                               *)
(***************************************************************************)
LEMMA Invariance == Spec => []PInv
<1> QED BY InitHolds, StepHolds, PTL DEF Spec

\* What LaunchDarkly holds and where the pushes are is well typed; every
\* environment of a flag refers to a variation the flag has, whatever order the
\* requests of several pushes arrive in.
THEOREM PushTypes == Spec => []TypeOK
<1>1. PInv => TypeOK
  BY DEF PInv
<1> QED BY <1>1, Invariance, PTL

\* A push that reports success, and that no push of another Flagfile overtook,
\* has every environment of its scope serve the value its Flagfile says.
THEOREM ReferencesResolved == Spec => []TargetingByValue
<1>1. PInv => TargetingByValue
  BY DEF PInv, TargetingByValue, Resolved, ResolvedAt, Reported
<1> QED BY <1>1, Invariance, PTL

\* No push turns an environment on that a person has turned off.
THEOREM KillSwitchesHold == Spec => []KillSwitchSurvives
<1>1. PInv => KillSwitchSurvives
  BY DEF PInv, KillSwitchSurvives, Killing, KilledAt
<1> QED BY <1>1, Invariance, PTL

\* A step that changes what an environment serves is the targeting of a push
\* that is for this environment.
LEMMA StepServes ==
  ASSUME PInv, NEW p \in Push, Writes(p, push[p].flag),
         NEW g \in Flag, NEW e \in Env, ld[g].exists,
         ~(e \in Scope(p) /\ At(p, "target") /\ push[p].flag = g)
  PROVE  ld'[g].values[ld'[g].serve[e]] = ld[g].values[ld[g].serve[e]]
<1> USE DEF PInv
<1> DEFINE f == push[p].flag  vs == ld[g].values  to == ld'[g].values
<1>1. /\ f \in FlagsOf(p) /\ ld \in [Flag -> Record] /\ Indexed(ld[g])
  BY Shapes DEF Working, WorkingAt, Writes, At
<1>2. Grows(g) /\ (g # f => ld'[g] = ld[g])
  BY <1>1, WriteKeeps
<1>3. vs \in Seq(Value) /\ to \in Seq(Value) /\ Prefix(vs, to) /\ ld[g].serve[e] \in DOMAIN vs
  BY <1>1, <1>2 DEF Grows, Record, Indexed
<1>4. to[ld[g].serve[e]] = vs[ld[g].serve[e]]
  <2> HIDE DEF vs, to
  <2>1. ld[g].serve[e] \in 1..Len(vs)
    BY <1>3
  <2> QED BY <1>3, <2>1 DEF Prefix
<1>5. ld'[g].serve[e] = ld[g].serve[e]
  <2>1. CASE g # f
    BY <1>2, <2>1
  <2>2. CASE g = f /\ At(p, "create") /\ ld' = Created(p)
    BY <2>2 DEF Created, Live
  <2>3. CASE g = f /\ At(p, "vars") /\ ld' = Extended(p)
    BY <1>1, <2>3, ExtendedDoes
  <2>4. CASE g = f /\ At(p, "target") /\ ld' = Targeted(p)
    BY <1>1, <2>4, TargetedDoes
  <2> QED BY <2>1, <2>2, <2>3, <2>4 DEF Writes
<1> QED BY <1>4, <1>5

\* What one environment serves is nobody else's to change.
THEOREM OthersUntouched == Spec => OthersKeepServing
<1> DEFINE A == \A f \in Flag, e \in Env :
                  ld[f].exists /\ Serves(f, e)' # Serves(f, e) =>
                     \E p \in Push : e \in Scope(p) /\ At(p, "target") /\ push[p].flag = f
<1>1. ASSUME PInv, Next PROVE A
  <2>1. ASSUME NEW p \in Push, PushStep(p) PROVE A
    <3>1. ld' = ld \/ Writes(p, push[p].flag)
      BY <2>1 DEF PushStep, Refuse, Begin, SyncFlag, End, Plan, NotConfigured, Get, Create,
                  CreateConflicts, AddValues, Target, AnswerLost, RequestFails, Writes
    <3> QED BY <1>1, <3>1, StepServes DEF Serves
  <2>2. ASSUME NEW g \in Flag, NEW e \in Env, Toggle(g, e) PROVE A
    BY <1>1, <2>2, ToggleKeeps DEF Serves
  <2> QED BY <1>1, <2>1, <2>2 DEF Next
<1>2. PInv /\ [Next]_vars => [A]_vars
  BY <1>1
<1> QED BY <1>2, Invariance, PTL DEF Spec, OthersKeepServing
=============================================================================
