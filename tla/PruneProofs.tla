---------------------------- MODULE PruneProofs ----------------------------
(***************************************************************************)
(* Facts about the pure part of retention, for any policy and any number   *)
(* of backups: what survives in the index when entries are dropped from    *)
(* it, and what the policy spares.                                         *)
(***************************************************************************)
EXTENDS Prune, TLAPS

-----------------------------------------------------------------------------
(* The entries that are kept.                                              *)

\* A set of naturals that is not empty has a least element.  Induction over
\* what a recursive function computes is done with it: the least place where a
\* claim fails has a predecessor where it holds.  It is a hypothesis of the
\* lemmas that need it, and is proved (LeastNatural) where they are used: the
\* module it is proved from slows down every proof that has it in sight.
WellOrdered == \A A \in SUBSET Nat : A # {} => \E m \in A : \A n \in A : m <= n

\* One step of Kept: the entry at place n is taken, or passed over.
KeepAt(es, places, n, s) == IF n \in places THEN Append(s, es[n]) ELSE s

\* g[n] is what was taken of the first n entries, for n up to m.
Takes(es, places, g, m) ==
    g[0] = <<>> /\ \A n \in 1..m : g[n] = KeepAt(es, places, n, g[n - 1])

(* The recursion of Kept has a solution, so its CHOOSE picks one.          *)
LEMMA TakingExists ==
    ASSUME WellOrdered, NEW E, NEW es \in Seq(E), NEW places
    PROVE  \E g \in [0..Len(es) -> Seq(E)] : Takes(es, places, g, Len(es))
<1> DEFINE L == Len(es)
           Good(m) == \E g \in [0..L -> Seq(E)] : Takes(es, places, g, m)
           Bad == {m \in 0..L : ~Good(m)}
<1>0. L \in Nat OBVIOUS
<1>1. Good(0)
  <2>1. <<>> \in Seq(E)  OBVIOUS
  <2> DEFINE g == [n \in 0..L |-> <<>>]
  <2>2. g \in [0..L -> Seq(E)] BY <2>1
  <2>3. Takes(es, places, g, 0) BY <1>0 DEF Takes
  <2> QED BY <2>2, <2>3
<1>2. ASSUME NEW m \in Nat, m + 1 <= L, Good(m) PROVE Good(m + 1)
  <2>1. PICK g \in [0..L -> Seq(E)] : Takes(es, places, g, m)
    BY <1>2
  <2>2. g[m] \in Seq(E) /\ es[m + 1] \in E  BY <1>2
  <2>3. KeepAt(es, places, m + 1, g[m]) \in Seq(E)  BY <2>2 DEF KeepAt
  <2> DEFINE h == [g EXCEPT ![m + 1] = KeepAt(es, places, m + 1, g[m])]
  <2>4. h \in [0..L -> Seq(E)]  BY <2>1, <2>3, <1>2
  <2>5. h[0] = <<>>  BY <2>1, <1>2 DEF Takes
  <2>6. ASSUME NEW n \in 1..(m + 1) PROVE h[n] = KeepAt(es, places, n, h[n - 1])
    <3>1. CASE n = m + 1
      <4>1. h[n] = KeepAt(es, places, m + 1, g[m]) BY <3>1, <1>2
      <4>2. h[n - 1] = g[m] BY <3>1, <1>2
      <4> QED BY <4>1, <4>2, <3>1
    <3>2. CASE n # m + 1
      <4>1. n \in 1..m /\ h[n] = g[n] /\ h[n - 1] = g[n - 1] BY <3>2, <1>2
      <4> QED BY <4>1, <2>1 DEF Takes
    <3> QED BY <3>1, <3>2
  <2>7. Takes(es, places, h, m + 1) BY <2>5, <2>6 DEF Takes
  <2> QED BY <2>4, <2>7, Zenon
<1>3. Bad = {}
  <2> SUFFICES ASSUME Bad # {} PROVE FALSE  OBVIOUS
  <2> HIDE DEF Good
  <2>1. Bad \in SUBSET Nat  OBVIOUS
  <2>2. PICK m \in Bad : \A n \in Bad : m <= n
    BY <2>1, Zenon DEF WellOrdered
  <2>3. m \in Nat /\ m <= L /\ ~Good(m)  BY <2>2
  <2>4. m # 0 BY <2>3, <1>1
  <2>5. m - 1 \in Nat /\ m - 1 <= L /\ m - 1 \notin Bad BY <2>2, <2>3, <2>4
  <2>6. Good(m - 1) BY <2>5, <1>0
  <2>7. (m - 1) + 1 = m BY <2>3
  <2>8. Good(m) BY <1>2, <2>5, <2>6, <2>7, <2>3
  <2> QED BY <2>3, <2>8
<1>4. Good(L) BY <1>3, <1>0
<1> QED BY <1>4

(* Kept is the last value of that recursion.                               *)
LEMMA KeptTakes ==
    ASSUME WellOrdered, NEW E, NEW es \in Seq(E), NEW places
    PROVE  \E g \in [0..Len(es) -> Seq(E)] :
             Takes(es, places, g, Len(es)) /\ Kept(es, places) = g[Len(es)]
<1> DEFINE L == Len(es)
           Body(g) == [n \in 0..L |->
                IF n = 0 THEN <<>>
                ELSE IF n \in places THEN Append(g[n - 1], es[n]) ELSE g[n - 1]]
           F == CHOOSE g : g = Body(g)
<1>0. L \in Nat OBVIOUS
<1>1. PICK g \in [0..L -> Seq(E)] : Takes(es, places, g, L)
  BY TakingExists, Zenon
<1>2. g = Body(g)
  <2>1. ASSUME NEW n \in 0..L PROVE g[n] = Body(g)[n]
    <3>1. CASE n = 0
      BY <3>1, <1>1, <1>0 DEF Takes
    <3>2. CASE n # 0
      <4>1. n \in 1..L
        BY <3>2, <1>0
      <4>2. g[n] = KeepAt(es, places, n, g[n - 1])
        BY <4>1, <1>1 DEF Takes
      <4> QED BY <3>2, <4>2 DEF KeepAt
    <3> QED BY <3>1, <3>2
  <2> QED BY <2>1
<1>3. F = Body(F)
  <2> HIDE DEF Body
  <2> QED BY <1>2
<1>4. Kept(es, places) = F[L]
  BY DEF Kept
<1> HIDE DEF F
<1>5. F[0] = <<>> /\ \A n \in 1..L : F[n] = KeepAt(es, places, n, F[n - 1])
  <2>1. \A n \in 0..L : F[n] = Body(F)[n] BY <1>3, Zenon
  <2> QED BY <2>1, <1>0 DEF KeepAt
<1>6. Takes(es, places, F, L) BY <1>5 DEF Takes
<1>7. F \in [0..L -> Seq(E)]
  <2> DEFINE Bad == {n \in 0..L : F[n] \notin Seq(E)}
  <2>1. Bad = {}
    <3> SUFFICES ASSUME Bad # {} PROVE FALSE  OBVIOUS
    <3>1. Bad \in SUBSET Nat  OBVIOUS
    <3>2. PICK m \in Bad : \A n \in Bad : m <= n
      BY <3>1, Zenon DEF WellOrdered
    <3>3. m \in 0..L /\ F[m] \notin Seq(E) BY <3>2
    <3>4. m # 0
      <4>1. <<>> \in Seq(E)
        OBVIOUS
      <4> QED BY <4>1, <1>5, <3>3, Zenon
    <3>5. m - 1 \in 0..L /\ m - 1 \notin Bad BY <3>2, <3>3, <3>4, <1>0
    <3>6. F[m - 1] \in Seq(E) BY <3>5
    <3>7. m \in 1..L /\ es[m] \in E BY <3>3, <3>4, <1>0
    <3>8. Append(F[m - 1], es[m]) \in Seq(E)
      BY <3>6, <3>7
    <3>9. F[m] = KeepAt(es, places, m, F[m - 1])
      BY <3>7, <1>5
    <3>10. F[m] \in Seq(E) BY <3>6, <3>8, <3>9 DEF KeepAt
    <3> QED BY <3>3, <3>10
  <2>2. F = [n \in 0..L |-> F[n]]
    <3>1. Body(F) = [n \in 0..L |-> Body(F)[n]] OBVIOUS
    <3> HIDE DEF Body
    <3> QED BY <3>1, <1>3, Zenon
  <2>3. \A n \in 0..L : F[n] \in Seq(E)
    BY <2>1, Zenon
  <2> HIDE DEF L, Body
  <2> QED BY <2>2, <2>3, Zenon
<1> QED BY <1>4, <1>6, <1>7

\* The entries ks are those of es at the given places, and no others.
Picked(es, places, ks) ==
    /\ \A i \in DOMAIN ks : \E j \in DOMAIN es : j \in places /\ ks[i] = es[j]
    /\ \A j \in DOMAIN es : j \in places => \E i \in DOMAIN ks : ks[i] = es[j]

(* The loop of prune and of Rebuild keeps every entry at the given places  *)
(* and nothing else (internal/index, prune and Rebuild).                   *)
LEMMA KeptElements ==
    ASSUME WellOrdered, NEW E, NEW es \in Seq(E), NEW places
    PROVE  Kept(es, places) \in Seq(E) /\ Picked(es, places, Kept(es, places))
<1> DEFINE L == Len(es)
<1>0. L \in Nat /\ DOMAIN es = 1..L OBVIOUS
<1>1. PICK g \in [0..L -> Seq(E)] : Takes(es, places, g, L) /\ Kept(es, places) = g[L]
  BY KeptTakes
<1> DEFINE In(m) == \A i \in DOMAIN g[m] : \E j \in 1..m : j \in places /\ g[m][i] = es[j]
           All(m) == \A j \in 1..m : j \in places => \E i \in DOMAIN g[m] : g[m][i] = es[j]
           Bad == {m \in 0..L : ~(In(m) /\ All(m))}
<1>2. In(0) /\ All(0)
  BY <1>1 DEF Takes
<1>3. ASSUME NEW m \in 1..L, In(m - 1), All(m - 1) PROVE In(m) /\ All(m)
  <2>1. g[m - 1] \in Seq(E) /\ es[m] \in E /\ m - 1 \in Nat BY <1>0
  <2>2. CASE m \notin places
    <3>1. g[m] = g[m - 1] BY <2>2, <1>1 DEF Takes, KeepAt
    <3>2. \A j \in 1..m : j \in places => j \in 1..(m - 1)
      BY <2>2, <1>0
    <3>3. \A j \in 1..(m - 1) : j \in 1..m
      BY <1>0
    <3>4. In(m)
      BY <3>1, <3>3, <1>3
    <3>5. All(m)
      BY <3>1, <3>2, <1>3
    <3> QED BY <3>4, <3>5
  <2>3. CASE m \in places
    <3>1. g[m] = Append(g[m - 1], es[m]) BY <2>3, <1>1, Zenon DEF Takes, KeepAt
    <3>2. DOMAIN g[m] = 1..(Len(g[m - 1]) + 1) /\ DOMAIN g[m - 1] = 1..Len(g[m - 1])
          /\ Len(g[m - 1]) \in Nat
      BY <3>1, <2>1
    <3>3. g[m][Len(g[m - 1]) + 1] = es[m] BY <3>1, <2>1
    <3>4. \A i \in 1..Len(g[m - 1]) : g[m][i] = g[m - 1][i] BY <3>1, <2>1
    <3>5. In(m)
      <4> SUFFICES ASSUME NEW i \in DOMAIN g[m] PROVE \E j \in 1..m : j \in places /\ g[m][i] = es[j]
        BY Zenon
      <4>1. CASE i = Len(g[m - 1]) + 1 BY <4>1, <3>3, <2>3, <1>0
      <4>2. CASE i \in 1..Len(g[m - 1])
        <5>1. g[m][i] = g[m - 1][i] BY <4>2, <3>4
        <5>2. PICK j \in 1..(m - 1) : j \in places /\ g[m - 1][i] = es[j]
          BY <4>2, <3>2, <1>3
        <5> QED BY <5>1, <5>2, <1>0
      <4> QED BY <4>1, <4>2, <3>2
    <3>6. All(m)
      <4> SUFFICES ASSUME NEW j \in 1..m, j \in places PROVE \E i \in DOMAIN g[m] : g[m][i] = es[j]
        OBVIOUS
      <4>1. CASE j = m
        <5>1. Len(g[m - 1]) + 1 \in DOMAIN g[m]
          BY <3>2
        <5> QED BY <4>1, <5>1, <3>3
      <4>2. CASE j # m
        <5>1. j \in 1..(m - 1) BY <4>2, <1>0
        <5>2. PICK i \in DOMAIN g[m - 1] : g[m - 1][i] = es[j] BY <5>1, <1>3
        <5>3. i \in 1..Len(g[m - 1]) /\ i \in DOMAIN g[m] BY <5>2, <3>2
        <5> QED BY <5>2, <5>3, <3>4
      <4> QED BY <4>1, <4>2
    <3> QED BY <3>5, <3>6
  <2> QED BY <2>2, <2>3
<1>4. Bad = {}
  <2> SUFFICES ASSUME Bad # {} PROVE FALSE  OBVIOUS
  <2> HIDE DEF In, All
  <2>1. Bad \in SUBSET Nat  OBVIOUS
  <2>2. PICK m \in Bad : \A n \in Bad : m <= n
    BY <2>1, Zenon DEF WellOrdered
  <2>3. m \in 0..L /\ ~(In(m) /\ All(m))  BY <2>2
  <2>4. m # 0 BY <2>3, <1>2
  <2>5. m - 1 \in 0..L /\ m - 1 \notin Bad /\ m \in 1..L BY <2>2, <2>3, <2>4, <1>0
  <2>6. In(m - 1) /\ All(m - 1) BY <2>5
  <2> QED BY <2>3, <2>5, <2>6, <1>3, SMTT(30)
<1>5. L \in 0..L BY <1>0
<1>6. In(L) /\ All(L)
  <2> HIDE DEF In, All
  <2> QED BY <1>4, <1>5
<1> DEFINE K == g[L]
<1>7. K \in Seq(E)
  BY <1>5
<1>8. \A i \in DOMAIN K : \E j \in DOMAIN es : j \in places /\ K[i] = es[j]
  BY <1>0, <1>6, Zenon
<1>9. \A j \in DOMAIN es : j \in places => \E i \in DOMAIN K : K[i] = es[j]
  BY <1>0, <1>6, Zenon
<1> HIDE DEF K
<1>10. Picked(es, places, K)
  BY <1>8, <1>9, Zenon DEF Picked
<1>11. Kept(es, places) = K
  BY <1>1, Zenon DEF K
<1> QED BY <1>7, <1>10, <1>11, Zenon

(* Dropping entries from the index loses no stored backup but those named, *)
(* and lists none it did not list before (internal/index, prune).          *)
LEMMA PruneLists ==
    ASSUME WellOrdered, NEW E, NEW es \in Seq(E), NEW gone, NEW oldest, NEW b
    PROVE  /\ prune(es, gone, oldest) \in Seq(E)
           /\ Listed(prune(es, gone, oldest), b) => Listed(es, b)
           /\ Listed(es, b) /\ b \notin gone /\ (\A e \in E : e.id = b => e.ok)
                => Listed(prune(es, gone, oldest), b)
<1> DEFINE places == {i \in DOMAIN es : IF es[i].ok THEN es[i].id \notin gone
                                         ELSE oldest = 0 \/ es[i].at >= oldest}
           K == Kept(es, places)
<1>1. prune(es, gone, oldest) = K
  BY DEF prune
<1> HIDE DEF places
<1>2. /\ K \in Seq(E)
      /\ \A i \in DOMAIN K : \E j \in DOMAIN es : j \in places /\ K[i] = es[j]
      /\ \A j \in DOMAIN es : j \in places => \E i \in DOMAIN K : K[i] = es[j]
  <2>1. K \in Seq(E) /\ Picked(es, places, K)
    BY KeptElements, Zenon
  <2> QED BY <2>1, Zenon DEF Picked
<1> HIDE DEF K
<1>3. Listed(K, b) => Listed(es, b)
  BY <1>2 DEF Listed
<1>4. ASSUME Listed(es, b), b \notin gone, \A e \in E : e.id = b => e.ok
      PROVE  Listed(K, b)
  <2>1. PICK j \in DOMAIN es : es[j].id = b
    BY <1>4 DEF Listed
  <2>2. es[j].ok
    <3>1. es[j] \in E
      OBVIOUS
    <3> QED BY <1>4, <2>1, <3>1
  <2>3. j \in places
    BY <1>4, <2>1, <2>2 DEF places
  <2> QED BY <1>2, <2>1, <2>3 DEF Listed
<1> QED BY <1>1, <1>2, <1>3, <1>4

-----------------------------------------------------------------------------
(* The policy.                                                             *)

(* A set of naturals below a bound has a greatest element.                 *)
LEMMA GreatestNatural ==
    ASSUME WellOrdered, NEW A \in SUBSET Nat, A # {}, NEW m \in Nat, \A n \in A : n <= m
    PROVE  \E g \in A : \A n \in A : n <= g
<1> DEFINE B == {m - n : n \in A}
<1>1. B \in SUBSET Nat /\ B # {}
  <2>1. \A n \in A : m - n \in Nat
    OBVIOUS
  <2> QED BY <2>1, Zenon
<1>2. PICK l \in B : \A k \in B : l <= k
  BY <1>1, Zenon DEF WellOrdered
<1>3. PICK g \in A : l = m - g
  BY <1>2
<1>4. \A n \in A : l <= m - n
  BY <1>2
<1> QED BY <1>3, <1>4

(* The newest of some backups is one of them, and none is newer            *)
(* (internal/retention, which sorts them by FinishedAt).                   *)
LEMMA NewestIs ==
    ASSUME WellOrdered, NEW S, S # {}, NEW m \in Nat, \A b \in S : b.at \in Nat /\ b.at <= m
    PROVE  Newest(S) \in S /\ \A c \in S : c.at <= Newest(S).at
<1> DEFINE A == {b.at : b \in S}
<1>1. A \in SUBSET Nat /\ A # {} /\ \A n \in A : n <= m
  OBVIOUS
<1>2. PICK g \in A : \A n \in A : n <= g
  BY <1>1, GreatestNatural, Zenon
<1>3. PICK b \in S : g = b.at
  BY <1>2
<1>4. \A c \in S : c.at <= b.at
  BY <1>2, <1>3
<1> QED BY <1>4 DEF Newest

(* The plan deletes only backups it was given, and none while the most     *)
(* recent run failed (Policy.Plan, invariant 3).                           *)
LEMMA PlanDooms ==
    ASSUME NEW policy, NEW S, NEW failed
    PROVE  /\ Plan(policy, S, failed) \subseteq {b.id : b \in S}
           /\ failed => Plan(policy, S, failed) = {}
BY DEF Plan

(* The newest verified backup is never planned away (Policy.Plan,          *)
(* invariant 2), whatever the tiers and the floor say.                     *)
LEMMA PlanSparesVerified ==
    ASSUME WellOrdered, NEW policy, NEW S, NEW failed, NEW b \in S, b.verified
    PROVE  Newest({c \in S : c.verified}).id \notin Plan(policy, S, failed)
<1> DEFINE V == {c \in S : c.verified}
           id == Newest(V).id
<1>0. b \in V
  OBVIOUS
<1>1. newestVerified(S) = {id}
  BY <1>0, Zenon DEF newestVerified
<1> HIDE DEF id
<1>2. id \in KeptIDs(policy, S) \/ KeptIDs(policy, S) = {c.id : c \in S}
  BY <1>1 DEF KeptIDs
<1>3. id \notin {c.id : c \in S} \ KeptIDs(policy, S)
  BY <1>2
<1>4. id \notin Plan(policy, S, failed)
  BY <1>3 DEF Plan
<1> QED BY <1>4 DEF id

-----------------------------------------------------------------------------
(* The floor.                                                              *)

\* What is used of finite sets.  Like WellOrdered it is a hypothesis, proved
\* where the lemmas are used.
CountingOf(Fin(_), Size(_)) ==
    /\ \A S : Fin(S) => Size(S) \in Nat
    /\ \A m, n \in Nat : Fin(m..n)
    /\ \A S : Fin(S) => \A T \in SUBSET S : Fin(T) /\ Size(T) <= Size(S)
    /\ \A S, T : Fin(S) /\ Fin(T) /\ S \cap T = {} => Size(S \cup T) = Size(S) + Size(T)
    /\ \A S, T : \A f \in [S -> T] :
         Fin(S) /\ (\A t \in T : \E s \in S : f[s] = t) => Fin(T) /\ Size(T) <= Size(S)
    /\ \A S, T : \A f \in [S -> T] :
         Fin(T) /\ (\A x, y \in S : f[x] = f[y] => x = y) => Size(S) <= Size(T)

Counting == CountingOf(IsFiniteSet, Cardinality)

(* A set has at least as many elements as there are ids among them.        *)
LEMMA FewerIds ==
    ASSUME Counting, NEW S, IsFiniteSet(S)
    PROVE  /\ IsFiniteSet({c.id : c \in S})
           /\ Cardinality({c.id : c \in S}) \in Nat
           /\ Cardinality(S) \in Nat
           /\ Cardinality({c.id : c \in S}) <= Cardinality(S)
<1> DEFINE T == {c.id : c \in S}
           f == [c \in S |-> c.id]
<1>1. f \in [S -> T] /\ \A t \in T : \E s \in S : f[s] = t
  OBVIOUS
<1> HIDE DEF f, T
<1>2. IsFiniteSet(T) /\ Cardinality(T) <= Cardinality(S)
  BY <1>1, Zenon DEF Counting, CountingOf
<1>3. Cardinality(T) \in Nat /\ Cardinality(S) \in Nat
  BY <1>2, Zenon DEF Counting, CountingOf
<1> QED BY <1>2, <1>3 DEF T

(* A plan leaves at least min_keep backups, or deletes none: what is left  *)
(* out is older than everything the floor promoted (Policy.Plan).          *)
LEMMA PlanFloor ==
    ASSUME WellOrdered, Counting, NEW pol \in Policy, NEW S, IsFiniteSet(S), NEW m \in Nat,
           \A b \in S : b.at \in Nat /\ b.at <= m,
           NEW failed
    PROVE  LET kept == {b \in S : b.id \notin Plan(pol, S, failed)}
           IN  kept = S \/ Cardinality(kept) >= pol.minKeep
<1> DEFINE kept == {b \in S : b.id \notin Plan(pol, S, failed)}
           chosen == newestVerified(S) \cup UNION {survivors(pol, tier, S) : tier \in rungs}
           doomed == {b \in S : b.id \notin chosen}
           newer(d) == {x \in doomed : x.at > d.at}
           ids(d) == {c.id : c \in newer(d)}
           few(d) == Cardinality(ids(d)) + countKept(S, chosen) < pol.minKeep
           left == {d \in doomed : d.id \notin Floor(pol, S, chosen)}
<1> HIDE DEF chosen
<1>0. Floor(pol, S, chosen) = {b.id : b \in {d \in doomed : few(d)}}
  BY DEF Floor
<1>1. CASE failed \/ empty(pol)
  BY <1>1, Zenon DEF Plan, KeptIDs
<1>2. CASE ~failed /\ ~empty(pol)
  <2>1. Plan(pol, S, failed) = {b.id : b \in S} \ (chosen \cup Floor(pol, S, chosen))
    BY <1>2 DEF Plan, KeptIDs, chosen
  <2>2. CASE left = {}
    BY <2>1, <2>2
  <2>3. CASE left # {}
    <3>1. \A d \in left : d.at \in Nat /\ d.at <= m
      OBVIOUS
    <3> DEFINE d == Newest(left)
    <3>2. d \in left /\ \A c \in left : c.at <= d.at
      BY <2>3, <3>1, NewestIs, Zenon
    <3> HIDE DEF d
    <3>3. ~few(d)
      <4> HIDE DEF few
      <4> QED BY <1>0, <3>2
    <3> DEFINE N == newer(d)
               C == {b \in S : b.id \in chosen}
    <3>4. \A x \in N : x.id \in Floor(pol, S, chosen)
      <4> SUFFICES ASSUME NEW x \in N, x.id \notin Floor(pol, S, chosen) PROVE FALSE
        OBVIOUS
      <4>1. x \in left /\ x.at > d.at
        OBVIOUS
      <4> QED BY <3>1, <3>2, <4>1
    <3>5. N \cup C \subseteq kept /\ N \cap C = {}
      BY <2>1, <3>4
    <3>6. IsFiniteSet(kept) /\ IsFiniteSet(N) /\ IsFiniteSet(C)
      <4>1. kept \in SUBSET S /\ N \in SUBSET S /\ C \in SUBSET S
        OBVIOUS
      <4> QED BY <4>1, Zenon DEF Counting, CountingOf
    <3>7. Cardinality(ids(d)) \in Nat /\ Cardinality(N) \in Nat /\ Cardinality(ids(d)) <= Cardinality(N)
      BY <3>6, FewerIds, Zenon
    <3>8. countKept(S, chosen) = Cardinality(C)
      BY DEF countKept
    <3>9. pol.minKeep <= Cardinality(ids(d)) + Cardinality(C)
      <4>1. pol.minKeep \in Nat
        BY DEF Policy
      <4>2. Cardinality(C) \in Nat
        BY <3>6, Zenon DEF Counting, CountingOf
      <4> HIDE DEF ids, C
      <4> QED BY <3>3, <3>7, <3>8, <4>1, <4>2, SMTT(30)
    <3> HIDE DEF N, C, kept, ids
    <3>10. Cardinality(N \cup C) = Cardinality(N) + Cardinality(C)
      BY <3>5, <3>6, Zenon DEF Counting, CountingOf
    <3>11. Cardinality(N \cup C) <= Cardinality(kept)
      BY <3>5, <3>6, Zenon DEF Counting, CountingOf
    <3>12. Cardinality(C) \in Nat /\ Cardinality(kept) \in Nat
      BY <3>6, Zenon DEF Counting, CountingOf
    <3>13. pol.minKeep \in Nat
      BY DEF Policy
    <3>14. Cardinality(kept) >= pol.minKeep
      BY <3>7, <3>9, <3>10, <3>11, <3>12, <3>13
    <3> QED BY <3>14 DEF kept
  <2> QED BY <2>2, <2>3
<1> QED BY <1>1, <1>2, SMTT(30)
=============================================================================
