--------------------------- MODULE RotationProofs ---------------------------
(***************************************************************************)
(* What retention promises over the life of a target, proved for every     *)
(* policy, every calendar and every length of history.                     *)
(***************************************************************************)
EXTENDS Rotation, PruneProofs, FiniteSetTheorems

(* A set of naturals that is not empty has a least element: less-than on   *)
(* the naturals is well founded.                                           *)
LEMMA LeastNatural == WellOrdered
<1> SUFFICES ASSUME NEW A \in SUBSET Nat, A # {}
             PROVE  \E m \in A : \A n \in A : m <= n
  BY DEF WellOrdered
<1> DEFINE R == OpToRel(<, Nat)
<1>1. \A x, y \in Nat : x < y => <<x, y>> \in R
  <2>1. R = {ss \in Nat \X Nat : ss[1] < ss[2]}
    BY DEF OpToRel
  <2> HIDE DEF R
  <2> QED BY <2>1
<1>2. IsWellFoundedOn(R, Nat)
  BY NatLessThanWellFounded, Zenon
<1> HIDE DEF R
<1>3. PICK x \in A : \A y \in A : ~(<<y, x>> \in R)
  BY <1>2, WFMin, Zenon
<1>4. ASSUME NEW y \in A PROVE x <= y
  <2>1. ~(y < x)
    BY <1>1, <1>3, Zenon
  <2> QED BY <2>1
<1> QED BY <1>4

-----------------------------------------------------------------------------
(* The floor.                                                              *)

(* Finite sets have the sizes they should.                                 *)
LEMMA CountingHolds == Counting
<1>1. \A S : IsFiniteSet(S) => Cardinality(S) \in Nat
  BY FS_CardinalityType
<1>2. \A m, n \in Nat : IsFiniteSet(m..n)
  BY FS_Interval
<1>3. ASSUME NEW S, IsFiniteSet(S), NEW T \in SUBSET S
      PROVE  IsFiniteSet(T) /\ Cardinality(T) <= Cardinality(S)
  BY <1>3, FS_Subset
<1>4. ASSUME NEW S, NEW T, IsFiniteSet(S), IsFiniteSet(T), S \cap T = {}
      PROVE  Cardinality(S \cup T) = Cardinality(S) + Cardinality(T)
  <2>1. Cardinality(S \cup T) = Cardinality(S) + Cardinality(T) - Cardinality(S \cap T)
    BY <1>4, FS_Union
  <2>2. Cardinality(S \cap T) = 0
    BY <1>4, FS_EmptySet
  <2>3. Cardinality(S) \in Nat /\ Cardinality(T) \in Nat
    BY <1>1, <1>4
  <2> QED BY <2>1, <2>2, <2>3
<1>5. ASSUME NEW S, NEW T, NEW f \in [S -> T], IsFiniteSet(S), \A t \in T : \E s \in S : f[s] = t
      PROVE  IsFiniteSet(T) /\ Cardinality(T) <= Cardinality(S)
  <2>1. f \in Surjection(S, T)
    BY <1>5 DEF Surjection
  <2> QED BY <1>5, <2>1, FS_Surjection
<1>6. ASSUME NEW S, NEW T, NEW f \in [S -> T], IsFiniteSet(T), \A x, y \in S : f[x] = f[y] => x = y
      PROVE  Cardinality(S) <= Cardinality(T)
  <2>1. f \in Injection(S, T)
    BY <1>6, Zenon DEF Injection, IsInjective
  <2> QED BY <1>6, <2>1, FS_Injection
<1> QED BY <1>1, <1>2, <1>3, <1>4, <1>5, <1>6, Zenon DEF Counting, CountingOf

(* The floor: a plan leaves at least min_keep backups, or deletes none     *)
(* ("prune never leaves fewer than this many backups, whatever the tiers   *)
(* say", Policy.MinKeep), for every policy and every set of backups.       *)
THEOREM PlanKeepsFloor ==
    ASSUME NEW pol \in Policy, NEW S, IsFiniteSet(S), NEW m \in Nat,
           \A b \in S : b.at \in Nat /\ b.at <= m,
           NEW failed
    PROVE  LET kept == {b \in S : b.id \notin Plan(pol, S, failed)}
           IN  kept = S \/ Cardinality(kept) >= pol.minKeep
BY PlanFloor, LeastNatural, CountingHolds, Zenon

-----------------------------------------------------------------------------
(* The index and the history.                                              *)

(* The entries a prune leaves are in the order they had (internal/index,   *)
(* the loop of prune).                                                     *)
LEMMA KeptOrder ==
    ASSUME NEW E, NEW es \in Seq(E), NEW places
    PROVE  \E f \in [DOMAIN Kept(es, places) -> DOMAIN es] :
             /\ \A i \in DOMAIN Kept(es, places) : Kept(es, places)[i] = es[f[i]]
             /\ \A i, j \in DOMAIN Kept(es, places) : i < j => f[i] < f[j]
<1> DEFINE L == Len(es)
<1>0. L \in Nat /\ DOMAIN es = 1..L OBVIOUS
<1>1. PICK g \in [0..L -> Seq(E)] : Takes(es, places, g, L) /\ Kept(es, places) = g[L]
  BY KeptTakes, LeastNatural
<1> DEFINE Good(m) == \E f \in [DOMAIN g[m] -> 1..m] :
                        /\ \A i \in DOMAIN g[m] : g[m][i] = es[f[i]]
                        /\ \A i, j \in DOMAIN g[m] : i < j => f[i] < f[j]
           Bad == {m \in 0..L : ~Good(m)}
<1>2. Good(0)
  <2>1. g[0] = <<>> /\ DOMAIN g[0] = {}
    BY <1>1 DEF Takes
  <2> DEFINE f == [i \in {} |-> 0]
  <2>2. f \in [DOMAIN g[0] -> 1..0]
    BY <2>1
  <2> QED BY <2>1, <2>2
<1>3. ASSUME NEW m \in 1..L, Good(m - 1) PROVE Good(m)
  <2>1. g[m - 1] \in Seq(E) /\ es[m] \in E /\ m - 1 \in Nat BY <1>0
  <2>2. PICK f \in [DOMAIN g[m - 1] -> 1..(m - 1)] :
            /\ \A i \in DOMAIN g[m - 1] : g[m - 1][i] = es[f[i]]
            /\ \A i, j \in DOMAIN g[m - 1] : i < j => f[i] < f[j]
    BY <1>3, Zenon
  <2>3. CASE m \notin places
    <3>1. g[m] = g[m - 1] BY <2>3, <1>1 DEF Takes, KeepAt
    <3>2. f \in [DOMAIN g[m] -> 1..m]
      BY <2>2, <3>1, <1>0
    <3> QED BY <2>2, <3>1, <3>2, Zenon
  <2>4. CASE m \in places
    <3> DEFINE n == Len(g[m - 1])
               h == [i \in 1..(n + 1) |-> IF i = n + 1 THEN m ELSE f[i]]
    <3>1. g[m] = Append(g[m - 1], es[m]) BY <2>4, <1>1, Zenon DEF Takes, KeepAt
    <3>2. n \in Nat /\ DOMAIN g[m] = 1..(n + 1) /\ DOMAIN g[m - 1] = 1..n
      BY <3>1, <2>1
    <3>3. g[m][n + 1] = es[m] /\ \A i \in 1..n : g[m][i] = g[m - 1][i]
      BY <3>1, <2>1
    <3>4. \A i \in 1..n : f[i] \in 1..(m - 1)
      BY <2>2, <3>2, Zenon
    <3> HIDE DEF n
    <3>5. h \in [DOMAIN g[m] -> 1..m]
      BY <3>2, <3>4, <1>0
    <3>6. h[n + 1] = m /\ \A i \in 1..n : h[i] = f[i]
      BY <3>2
    <3>7. \A i \in DOMAIN g[m] : i = n + 1 \/ i \in 1..n
      BY <3>2
    <3>8. \A i \in DOMAIN g[m] : g[m][i] = es[h[i]]
      <4> HIDE DEF h
      <4> QED BY <2>2, <3>2, <3>3, <3>6, <3>7, ZenonT(20)
    <3>9. ASSUME NEW i \in DOMAIN g[m], NEW j \in DOMAIN g[m], i < j PROVE h[i] < h[j]
      <4> HIDE DEF h
      <4>1. i \in 1..n
        BY <3>2, <3>9
      <4>2. CASE j = n + 1
        BY <4>1, <4>2, <3>4, <3>6, <1>0
      <4>3. CASE j \in 1..n
        BY <4>1, <4>3, <2>2, <3>2, <3>6, <3>9, Zenon
      <4> QED BY <4>2, <4>3, <3>7
    <3> HIDE DEF h
    <3> QED BY <3>5, <3>8, <3>9, Zenon
  <2> QED BY <2>3, <2>4, Zenon
<1>4. Bad = {}
  <2> SUFFICES ASSUME Bad # {} PROVE FALSE  BY Zenon
  <2> HIDE DEF Good
  <2>1. Bad \in SUBSET Nat  OBVIOUS
  <2>2. PICK m \in Bad : \A n \in Bad : m <= n
    BY <2>1, LeastNatural, Zenon DEF WellOrdered
  <2>3. m \in 0..L /\ ~Good(m)  BY <2>2
  <2>4. m # 0 BY <2>3, <1>2
  <2>5. m - 1 \in 0..L /\ m - 1 \notin Bad /\ m \in 1..L BY <2>2, <2>3, <2>4, <1>0
  <2>6. Good(m - 1) BY <2>5
  <2> QED BY <2>3, <2>5, <2>6, <1>3, Zenon
<1>5. Good(L)
  <2> HIDE DEF Good
  <2> QED BY <1>4, <1>0
<1> QED BY <1>0, <1>1, <1>5

\* An entry of a backup is named by its hour; a failed run has no backup.
Entry ==
    {e \in [id : Nat, at : Hours, ok : BOOLEAN, ver : -1..1] :
        e.id = IF e.ok THEN e.at ELSE 0}

Types ==
    /\ policy \in Policy
    /\ now \in Nat
    /\ index \in Seq(Entry)
    /\ Taken \subseteq Hours
    /\ hist \in [Taken -> -1..1]

\* The runs are in the index in the order they had.
Ordered ==
    /\ \A i \in DOMAIN index : index[i].at <= now
    /\ \A i, j \in DOMAIN index : i < j => index[i].at < index[j].at

\* The index lists backups that were taken, with their last verification.
Recorded ==
    \A i \in DOMAIN index : index[i].ok =>
        index[i].id \in Taken /\ index[i].ver = hist[index[i].id]

Books == Types /\ Ordered /\ Recorded

(* What Apply makes of the index: the entries of the deleted backups are   *)
(* gone, those of the others remain, in their order (internal/prune, Apply *)
(* and internal/index, prune).                                             *)
LEMMA Pruned ==
    ASSUME Types, Ordered, ApplyPlan
    PROVE  /\ index' \in Seq(Entry)
           /\ \A i \in DOMAIN index' : \E j \in DOMAIN index :
                /\ index'[i] = index[j]
                /\ index[j].ok => index[j].id \notin Doomed(policy, index)
           /\ \A j \in DOMAIN index :
                index[j].ok /\ index[j].id \notin Doomed(policy, index) =>
                    \E i \in DOMAIN index' : index'[i] = index[j]
           /\ \A i, j \in DOMAIN index' : i < j => index'[i].at < index'[j].at
<1> DEFINE gone == Doomed(policy, index)
           oldest == OldestKept(index, gone)
           places == {i \in DOMAIN index : IF index[i].ok THEN index[i].id \notin gone
                                           ELSE oldest = 0 \/ index[i].at >= oldest}
<1>1. index' = Updated(RemovalOf(index, gone), index)
  BY DEF ApplyPlan
<1> HIDE DEF gone, oldest
<1>2. index' = prune(index, gone, oldest)
  BY <1>1 DEF Updated, RemovalOf, RemoveOp, oldest
<1>3. index' = Kept(index, places)
  BY <1>2 DEF prune
<1>4. \A j \in DOMAIN index : index[j].ok => (j \in places <=> index[j].id \notin gone)
  OBVIOUS
<1>5. index \in Seq(Entry)
  BY DEF Types
<1> HIDE DEF places
<1>6. /\ index' \in Seq(Entry)
      /\ \A i \in DOMAIN index' : \E j \in DOMAIN index : j \in places /\ index'[i] = index[j]
      /\ \A j \in DOMAIN index : j \in places => \E i \in DOMAIN index' : index'[i] = index[j]
  BY <1>3, <1>5, KeptElements, LeastNatural DEF Picked
<1>7. PICK f \in [DOMAIN index' -> DOMAIN index] :
        /\ \A i \in DOMAIN index' : index'[i] = index[f[i]]
        /\ \A i, j \in DOMAIN index' : i < j => f[i] < f[j]
  BY <1>3, <1>5, KeptOrder
<1>8. \A i, j \in DOMAIN index' : i < j => index'[i].at < index'[j].at
  <2> SUFFICES ASSUME NEW i \in DOMAIN index', NEW j \in DOMAIN index', i < j
               PROVE  index'[i].at < index'[j].at
    OBVIOUS
  <2>1. f[i] \in DOMAIN index /\ f[j] \in DOMAIN index /\ f[i] < f[j]
    BY <1>7
  <2>2. index[f[i]].at < index[f[j]].at
    BY <2>1 DEF Ordered
  <2> QED BY <1>7, <2>2
<1>9. \A i \in DOMAIN index' : \E j \in DOMAIN index :
        index'[i] = index[j] /\ (index[j].ok => index[j].id \notin gone)
  BY <1>4, <1>6, Zenon
<1>10. \A j \in DOMAIN index : index[j].ok /\ index[j].id \notin gone =>
         \E i \in DOMAIN index' : index'[i] = index[j]
  BY <1>4, <1>6, Zenon
<1> QED BY <1>6, <1>8, <1>9, <1>10, Zenon DEF gone

(* The books are right in the beginning.                                   *)
LEMMA BooksInit == Init => Books
<1> SUFFICES ASSUME Init PROVE Books
  OBVIOUS
<1>1. index = <<>> /\ DOMAIN index = {}
  BY DEF Init
<1>2. hist = [b \in {} |-> 0] /\ DOMAIN hist = {}
  BY DEF Init
<1>3. policy \in Policy /\ now \in Nat
  BY RotationAssumption DEF Init
<1>4. index \in Seq(Entry)
  BY <1>1
<1>5. Taken \subseteq Hours /\ hist \in [Taken -> -1..1]
  BY <1>2 DEF Taken
<1> QED BY <1>1, <1>3, <1>4, <1>5 DEF Books, Types, Ordered, Recorded

(* A run adds the newest entry (internal/index, Append).                   *)
LEMMA BooksAppend ==
    ASSUME Books, NEW at \in Hours, Runs(at), NEW e \in Entry,
           e.at = at, index' = Append(index, e)
    PROVE  /\ policy' \in Policy /\ now' \in Nat /\ index' \in Seq(Entry)
           /\ Ordered'
           /\ DOMAIN index' = DOMAIN index \cup {Len(index) + 1}
           /\ index'[Len(index) + 1] = e
           /\ \A i \in DOMAIN index : i # Len(index) + 1 /\ index'[i] = index[i]
<1> DEFINE n == Len(index)
<1>1. index \in Seq(Entry) /\ now \in Nat /\ policy \in Policy
  BY DEF Books, Types
<1>2. n \in Nat /\ DOMAIN index = 1..n /\ DOMAIN index' = 1..(n + 1)
  BY <1>1
<1>3. index' \in Seq(Entry) /\ index'[n + 1] = e /\ \A i \in 1..n : index'[i] = index[i]
  BY <1>1
<1>4. now' = at /\ at > now /\ policy' = policy /\ at \in Nat
  BY RotationAssumption DEF Runs, Hours
<1>5. \A i \in DOMAIN index : index[i].at \in Nat
  <2>1. \A i \in DOMAIN index : index[i] \in Entry
    BY <1>1
  <2>2. \A x \in Entry : x.at \in Nat
    BY RotationAssumption DEF Entry, Hours
  <2> QED BY <2>1, <2>2
<1> HIDE DEF n
<1>6. DOMAIN index' = DOMAIN index \cup {n + 1} /\ n + 1 \notin DOMAIN index
  BY <1>2
<1>7. \A i \in DOMAIN index : index'[i] = index[i] /\ i < n + 1 /\ ~(n + 1 < i)
  BY <1>2, <1>3
<1>8. \A i \in DOMAIN index : index[i].at <= now
  BY DEF Books, Ordered
<1>9. \A i \in DOMAIN index' : index'[i].at <= now'
  BY <1>1, <1>3, <1>4, <1>5, <1>6, <1>7, <1>8
<1>10. \A i, j \in DOMAIN index' : i < j => index'[i].at < index'[j].at
  <2> SUFFICES ASSUME NEW i \in DOMAIN index', NEW j \in DOMAIN index', i < j
               PROVE  index'[i].at < index'[j].at
    OBVIOUS
  <2>1. i \in DOMAIN index
    BY <1>2
  <2>2. CASE j = n + 1
    BY <2>1, <2>2, <1>1, <1>3, <1>4, <1>5, <1>7, <1>8
  <2>3. CASE j \in DOMAIN index
    <3>1. index[i].at < index[j].at
      BY <2>1, <2>3 DEF Books, Ordered
    <3> QED BY <2>1, <2>3, <3>1, <1>7
  <2> QED BY <2>2, <2>3, <1>6
<1>11. Ordered'
  BY <1>9, <1>10 DEF Ordered
<1> QED BY <1>1, <1>3, <1>4, <1>6, <1>7, <1>11 DEF n

(* The backups of an index are those of its entries that stored one.       *)
LEMMA IdsOf ==
    ASSUME NEW es, NEW id
    PROVE  id \in {b.id : b \in Backups(es)} <=> \E i \in DOMAIN es : es[i].ok /\ es[i].id = id
<1>1. ASSUME NEW b \in Backups(es), b.id = id
      PROVE  \E i \in DOMAIN es : es[i].ok /\ es[i].id = id
  BY <1>1 DEF Backups
<1>2. ASSUME NEW i \in DOMAIN es, es[i].ok, es[i].id = id
      PROVE  \E b \in Backups(es) : b.id = id
  <2> DEFINE b == [id |-> es[i].id, at |-> es[i].at, verified |-> Verified(es[i]), line |-> i]
  <2>1. b \in Backups(es)
    BY <1>2 DEF Backups
  <2>2. b.id = id
    BY <1>2
  <2> QED BY <2>1, <2>2
<1> QED BY <1>1, <1>2

(* A backup that succeeds is taken, listed and stored.                     *)
LEMMA BackupStep ==
    ASSUME Books, NEW at \in Hours, Backup(at)
    PROVE  Books' /\ policy' = policy /\ Stored' = Stored \cup {at} /\ Taken' = Taken \cup {at}
<1> DEFINE e == NewEntry(at, 0)
           n == Len(index)
<1>1. Runs(at) /\ policy' = policy
  BY DEF Backup, Runs
<1>2. index' = Append(index, e)
  BY DEF Backup, Updated, AppendOp
<1>3. e \in Entry /\ e.at = at /\ e.ok /\ e.id = at /\ e.ver = 0
  BY RotationAssumption DEF NewEntry, Entry, Hours
<1> HIDE DEF e
<1>4. /\ policy' \in Policy /\ now' \in Nat /\ index' \in Seq(Entry)
      /\ Ordered'
      /\ DOMAIN index' = DOMAIN index \cup {n + 1}
      /\ index'[n + 1] = e
      /\ \A i \in DOMAIN index : i # n + 1 /\ index'[i] = index[i]
  BY <1>1, <1>2, <1>3, BooksAppend
<1> HIDE DEF n
<1>5. hist' = [b \in Taken \cup {at} |-> IF b = at THEN 0 ELSE hist[b]]
  BY DEF Backup
<1>6. hist \in [Taken -> -1..1] /\ Taken \subseteq Hours
  BY DEF Books, Types
<1>7. Taken' = Taken \cup {at}
  BY <1>5 DEF Taken
<1>8. hist' \in [Taken' -> -1..1] /\ Taken' \subseteq Hours
  BY <1>5, <1>6, <1>7
<1>9. ASSUME NEW i \in DOMAIN index, index[i].ok
      PROVE  index[i].id \in Taken /\ index[i].ver = hist[index[i].id] /\ index[i].id # at
  <2>1. index[i].id \in Taken /\ index[i].ver = hist[index[i].id]
    BY <1>9 DEF Books, Recorded
  <2>2. index[i].at <= now /\ now \in Nat /\ index[i] \in Entry
    BY DEF Books, Types, Ordered
  <2>3. index[i].id = index[i].at /\ index[i].at \in Nat
    BY <2>2, <1>9, RotationAssumption DEF Entry, Hours
  <2>4. at > now /\ at \in Nat
    BY <1>1, RotationAssumption DEF Runs, Hours
  <2> QED BY <2>1, <2>2, <2>3, <2>4
<1>10. Recorded'
  <2> SUFFICES ASSUME NEW i \in DOMAIN index', index'[i].ok
               PROVE  index'[i].id \in Taken' /\ index'[i].ver = hist'[index'[i].id]
    BY DEF Recorded
  <2>1. CASE i = n + 1
    BY <2>1, <1>3, <1>4, <1>5, <1>7
  <2>2. CASE i \in DOMAIN index
    <3>1. index'[i] = index[i] /\ index[i].ok
      BY <2>2, <1>4
    <3>2. index[i].id \in Taken /\ index[i].ver = hist[index[i].id] /\ index[i].id # at
      BY <3>1, <2>2, <1>9
    <3>3. hist'[index[i].id] = hist[index[i].id]
      BY <3>2, <1>5, Zenon
    <3> QED BY <3>1, <3>2, <3>3, <1>7
  <2> QED BY <2>1, <2>2, <1>4, Zenon
<1>11. Stored' = Stored \cup {at}
  <2>1. ASSUME NEW id PROVE id \in Stored' <=> id \in Stored \/ id = at
    <3>1. id \in Stored' <=> \E i \in DOMAIN index' : index'[i].ok /\ index'[i].id = id
      BY IdsOf, ZenonT(20) DEF Stored
    <3>2. id \in Stored <=> \E i \in DOMAIN index : index[i].ok /\ index[i].id = id
      BY IdsOf DEF Stored
    <3> QED BY <3>1, <3>2, <1>3, <1>4
  <2> QED BY <2>1
<1> QED BY <1>1, <1>4, <1>7, <1>8, <1>10, <1>11 DEF Books, Types

(* A backup that fails leaves a record, and no backup.                     *)
LEMMA FailedStep ==
    ASSUME Books, NEW at \in Hours, FailedBackup(at)
    PROVE  Books' /\ policy' = policy /\ Stored' = Stored /\ hist' = hist
<1> DEFINE e == NewFailureEntry(at)
           n == Len(index)
<1>1. Runs(at) /\ policy' = policy /\ hist' = hist
  BY DEF FailedBackup, Runs
<1>2. index' = Append(index, e)
  BY DEF FailedBackup, Updated, AppendOp
<1>3. e \in Entry /\ e.at = at /\ ~e.ok
  BY RotationAssumption DEF NewFailureEntry, Entry, Hours
<1> HIDE DEF e
<1>4. /\ policy' \in Policy /\ now' \in Nat /\ index' \in Seq(Entry)
      /\ Ordered'
      /\ DOMAIN index' = DOMAIN index \cup {n + 1}
      /\ index'[n + 1] = e
      /\ \A i \in DOMAIN index : i # n + 1 /\ index'[i] = index[i]
  BY <1>1, <1>2, <1>3, BooksAppend, Zenon
<1> HIDE DEF n
<1>5. hist' \in [Taken' -> -1..1] /\ Taken' \subseteq Hours
  BY <1>1 DEF Books, Types, Taken
<1>6. Recorded'
  BY <1>1, <1>3, <1>4 DEF Books, Recorded, Taken
<1>7. Stored' = Stored
  <2>1. ASSUME NEW id PROVE id \in Stored' <=> id \in Stored
    <3>1. id \in Stored' <=> \E i \in DOMAIN index' : index'[i].ok /\ index'[i].id = id
      BY IdsOf, ZenonT(20) DEF Stored
    <3>2. id \in Stored <=> \E i \in DOMAIN index : index[i].ok /\ index[i].id = id
      BY IdsOf DEF Stored
    <3> QED BY <3>1, <3>2, <1>3, <1>4
  <2> QED BY <2>1
<1> QED BY <1>1, <1>4, <1>5, <1>6, <1>7, Zenon DEF Books, Types

(* A verification is written on the entries of its backup (internal/index, *)
(* MarkVerified).                                                          *)
LEMMA VerifyStep ==
    ASSUME Books, NEW b \in Taken, NEW outcome \in {-1, 1}, Verify(b, outcome)
    PROVE  /\ Books' /\ policy' = policy /\ Stored' = Stored /\ Taken' = Taken
<1> DEFINE n == Len(index)
<1>1. policy' = policy /\ now' = now /\ hist' = [hist EXCEPT ![b] = outcome]
  BY DEF Verify
<1>2. index' = [i \in DOMAIN index |->
                  IF index[i].id = b THEN [index[i] EXCEPT !.ver = outcome] ELSE index[i]]
  BY DEF Verify, Updated, VerifyOp
<1>3. index \in Seq(Entry) /\ n \in Nat /\ DOMAIN index = 1..n
  BY DEF Books, Types
<1>4. ASSUME NEW i \in DOMAIN index
      PROVE  /\ index'[i] \in Entry
             /\ index'[i].id = index[i].id /\ index'[i].at = index[i].at /\ index'[i].ok = index[i].ok
             /\ index'[i].ver = IF index[i].id = b THEN outcome ELSE index[i].ver
  <2>1. index[i] \in Entry
    BY <1>3
  <2>2. CASE index[i].id = b
    <3>1. index'[i] = [index[i] EXCEPT !.ver = outcome]
      BY <1>2, <2>2
    <3>2. outcome \in -1..1
      OBVIOUS
    <3> QED BY <2>1, <2>2, <3>1, <3>2 DEF Entry
  <2>3. CASE index[i].id # b
    BY <1>2, <2>1, <2>3
  <2> QED BY <2>2, <2>3, Zenon
<1>5. DOMAIN index' = DOMAIN index
  BY <1>2
<1>6. index' \in Seq(Entry)
  <2> HIDE DEF n
  <2>1. index' \in [1..n -> Entry]
    BY <1>2, <1>3, <1>4, <1>5
  <2> QED BY <2>1, <1>3
<1>7. hist \in [Taken -> -1..1] /\ Taken \subseteq Hours
  BY DEF Books, Types
<1>8. Taken' = Taken
  BY <1>1 DEF Taken
<1>9. hist' \in [Taken' -> -1..1] /\ Taken' \subseteq Hours
  BY <1>1, <1>7, <1>8
<1>10. Ordered'
  BY <1>1, <1>4, <1>5 DEF Books, Ordered
<1>11. Recorded'
  <2> SUFFICES ASSUME NEW i \in DOMAIN index', index'[i].ok
               PROVE  index'[i].id \in Taken' /\ index'[i].ver = hist'[index'[i].id]
    BY DEF Recorded
  <2>1. index[i].ok /\ index[i].id = index'[i].id /\ i \in DOMAIN index
    BY <1>4, <1>5
  <2>2. index[i].id \in Taken /\ index[i].ver = hist[index[i].id]
    BY <2>1 DEF Books, Recorded
  <2>3. hist'[index[i].id] = IF index[i].id = b THEN outcome ELSE hist[index[i].id]
    BY <1>1, <1>7, <2>2
  <2>4. index'[i].ver = IF index[i].id = b THEN outcome ELSE index[i].ver
    BY <1>4, <2>1
  <2> QED BY <1>8, <2>1, <2>2, <2>3, <2>4, Zenon
<1>12. Stored' = Stored
  <2>1. ASSUME NEW id PROVE id \in Stored' <=> id \in Stored
    <3>1. id \in Stored' <=> \E i \in DOMAIN index' : index'[i].ok /\ index'[i].id = id
      BY IdsOf, ZenonT(20) DEF Stored
    <3>2. id \in Stored <=> \E i \in DOMAIN index : index[i].ok /\ index[i].id = id
      BY IdsOf, ZenonT(20) DEF Stored
    <3> QED BY <3>1, <3>2, <1>4, <1>5
  <2> QED BY <2>1
<1>13. policy \in Policy /\ now \in Nat
  BY DEF Books, Types
<1> QED BY <1>1, <1>6, <1>8, <1>9, <1>10, <1>11, <1>12, <1>13 DEF Books, Types

(* A prune takes the planned backups out of the index, and no other.       *)
LEMMA PruneStep ==
    ASSUME Books, ApplyPlan
    PROVE  /\ Books' /\ policy' = policy /\ hist' = hist
           /\ Stored' = Stored \ Doomed(policy, index)
<1> DEFINE gone == Doomed(policy, index)
<1>1. policy' = policy /\ now' = now /\ hist' = hist
  BY DEF ApplyPlan
<1> HIDE DEF gone
<1>2. /\ index' \in Seq(Entry)
      /\ \A i \in DOMAIN index' : \E j \in DOMAIN index :
           index'[i] = index[j] /\ (index[j].ok => index[j].id \notin gone)
      /\ \A j \in DOMAIN index : index[j].ok /\ index[j].id \notin gone =>
           \E i \in DOMAIN index' : index'[i] = index[j]
      /\ \A i, j \in DOMAIN index' : i < j => index'[i].at < index'[j].at
  BY Pruned, Zenon DEF gone, Books
<1>3. Types'
  BY <1>1, <1>2 DEF Books, Types, Taken
<1>4. Ordered'
  <2>1. \A i \in DOMAIN index : index[i].at <= now
    BY DEF Books, Ordered
  <2>2. \A i \in DOMAIN index' : index'[i].at <= now'
    BY <2>1, <1>1, <1>2, Zenon
  <2> QED BY <2>2, <1>2 DEF Ordered
<1>5. Recorded'
  <2>1. \A i \in DOMAIN index : index[i].ok =>
          index[i].id \in DOMAIN hist /\ index[i].ver = hist[index[i].id]
    BY DEF Books, Recorded, Taken
  <2>2. \A i \in DOMAIN index' : index'[i].ok =>
          index'[i].id \in DOMAIN hist /\ index'[i].ver = hist[index'[i].id]
    <3> SUFFICES ASSUME NEW i \in DOMAIN index', index'[i].ok
                 PROVE  index'[i].id \in DOMAIN hist /\ index'[i].ver = hist[index'[i].id]
      OBVIOUS
    <3>1. PICK j \in DOMAIN index : index'[i] = index[j]
      BY <1>2
    <3>2. index[j].ok
      BY <3>1
    <3>3. index[j].id \in DOMAIN hist /\ index[j].ver = hist[index[j].id]
      BY <2>1, <3>2
    <3> QED BY <3>1, <3>3
  <2> QED BY <2>2, <1>1 DEF Recorded, Taken
<1>6. ASSUME NEW id PROVE id \in Stored' <=> id \in Stored /\ id \notin gone
  <2>1. id \in Stored' <=> \E i \in DOMAIN index' : index'[i].ok /\ index'[i].id = id
    BY IdsOf, ZenonT(20) DEF Stored
  <2>2. id \in Stored <=> \E i \in DOMAIN index : index[i].ok /\ index[i].id = id
    BY IdsOf, ZenonT(20) DEF Stored
  <2> QED BY <2>1, <2>2, <1>2
<1> QED BY <1>1, <1>3, <1>4, <1>5, <1>6 DEF Books, gone

(* Every step keeps the books right.                                       *)
LEMMA BooksStep == Books /\ [Next]_vars => Books'
<1> SUFFICES ASSUME Books, [Next]_vars PROVE Books'
  OBVIOUS
<1>1. CASE \E at \in Hours : Backup(at)
  BY <1>1, BackupStep
<1>2. CASE \E at \in Hours : FailedBackup(at)
  BY <1>2, FailedStep
<1>3. CASE \E b \in Taken, outcome \in {-1, 1} : Verify(b, outcome)
  BY <1>3, VerifyStep
<1>4. CASE ApplyPlan
  BY <1>4, PruneStep
<1>5. CASE UNCHANGED vars
  BY <1>5, Zenon DEF vars, Books, Types, Ordered, Recorded, Taken
<1> QED BY <1>1, <1>2, <1>3, <1>4, <1>5 DEF Next

-----------------------------------------------------------------------------
(* The tiers.                                                              *)

(* The backups of an index are finitely many, and named by their hour.     *)
LEMMA Stock ==
    ASSUME NEW es \in Seq(Entry)
    PROVE  /\ IsFiniteSet(Backups(es))
           /\ \A b \in Backups(es) :
                /\ b.at \in Hours /\ b.at \in Nat /\ b.at <= MaxTime
                /\ b.id = b.at
                /\ es[b.line].ok /\ b.line \in DOMAIN es /\ es[b.line].id = b.id
                /\ b.verified <=> es[b.line].ver > 0
<1> DEFINE J == {j \in DOMAIN es : es[j].ok}
           row(i) == [id |-> es[i].id, at |-> es[i].at, verified |-> Verified(es[i]), line |-> i]
           f == [i \in J |-> row(i)]
<1>1. Backups(es) = {row(i) : i \in J}
  BY DEF Backups
<1>2. IsFiniteSet(J)
  <2>1. Len(es) \in Nat /\ DOMAIN es = 1..Len(es)
    OBVIOUS
  <2>2. IsFiniteSet(1..Len(es))
    BY <2>1, FS_Interval
  <2>3. J \subseteq 1..Len(es)
    BY <2>1
  <2> QED BY <2>2, <2>3, FS_Subset
<1>3. f \in Surjection(J, Backups(es))
  <2> HIDE DEF row, J
  <2> QED BY <1>1 DEF Surjection
<1>4. IsFiniteSet(Backups(es))
  <2> HIDE DEF f, J
  <2> QED BY <1>2, <1>3, FS_Surjection
<1>5. ASSUME NEW i \in J
      PROVE  /\ row(i).at \in Hours /\ row(i).at \in Nat /\ row(i).at <= MaxTime
             /\ row(i).id = row(i).at
             /\ es[row(i).line].ok /\ row(i).line \in DOMAIN es /\ es[row(i).line].id = row(i).id
             /\ row(i).verified <=> es[row(i).line].ver > 0
  <2>1. es[i] \in Entry /\ es[i].ok
    OBVIOUS
  <2>2. es[i].at \in Hours /\ es[i].at \in Nat /\ es[i].at <= MaxTime /\ es[i].id = es[i].at
    BY <2>1, RotationAssumption DEF Entry, Hours
  <2>3. Verified(es[i]) <=> es[i].ver > 0
    BY <2>1 DEF Verified
  <2> QED BY <2>1, <2>2, <2>3, Zenon
<1> HIDE DEF row
<1> QED BY <1>1, <1>4, <1>5, Zenon

(* Periods are numbers (bucketKey).                                        *)
LEMMA KeyIsNumber ==
    ASSUME NEW t \in Nat, NEW tier \in rungs
    PROVE  bucketKey(t, tier) \in Int
<1>1. /\ HoursPerDay \in Nat /\ HoursPerDay > 0 /\ DaysPerWeek \in Nat /\ DaysPerWeek > 0
      /\ DaysPerMonth \in Nat /\ DaysPerMonth > 0 /\ MonthsPerYear \in Nat /\ MonthsPerYear > 0
  BY CalendarAssumption
<1>2. DaysPerMonth * MonthsPerYear \in Int /\ DaysPerMonth * MonthsPerYear > 0
  BY <1>1
<1>3. DayOf(t) \in Int
  BY <1>1 DEF DayOf
<1>4. \A k \in Int : k > 0 => DayOf(t) \div k \in Int
  BY <1>3
<1> HIDE DEF DayOf
<1>5. /\ bucketKey(t, "hourly") = t
      /\ bucketKey(t, "daily") = DayOf(t)
      /\ bucketKey(t, "weekly") = DayOf(t) \div DaysPerWeek
      /\ bucketKey(t, "monthly") = DayOf(t) \div DaysPerMonth
      /\ bucketKey(t, "yearly") = DayOf(t) \div (DaysPerMonth * MonthsPerYear)
  BY DEF bucketKey
<1>6. CASE tier = "hourly" BY <1>5, <1>6
<1>7. CASE tier = "daily" BY <1>3, <1>5, <1>7
<1>8. CASE tier = "weekly" BY <1>1, <1>4, <1>5, <1>8
<1>9. CASE tier = "monthly" BY <1>1, <1>4, <1>5, <1>9
<1>10. CASE tier = "yearly" BY <1>2, <1>4, <1>5, <1>10
<1> QED BY <1>6, <1>7, <1>8, <1>9, <1>10 DEF rungs

(* The backup that stands for a period is of that period: the newest of    *)
(* its named day, or else the newest (representative).                     *)
LEMMA Stands ==
    ASSUME NEW pol, NEW tier, NEW P, P # {}, NEW m \in Nat,
           \A b \in P : b.at \in Nat /\ b.at <= m
    PROVE  LET named == OnNamedDay(pol, tier, P)
               r == representative(pol, tier, P)
           IN  /\ r \in P
               /\ named # {} => r \in named /\ \A c \in named : c.at <= r.at
               /\ named = {} => \A c \in P : c.at <= r.at
<1> DEFINE named == OnNamedDay(pol, tier, P)
           r == representative(pol, tier, P)
<1>1. named \subseteq P
  BY DEF OnNamedDay
<1> HIDE DEF named
<1>2. CASE named # {}
  <2>1. r = Newest(named)
    BY <1>2 DEF representative, named
  <2>2. \A b \in named : b.at \in Nat /\ b.at <= m
    BY <1>1
  <2>3. Newest(named) \in named /\ \A c \in named : c.at <= Newest(named).at
    BY <1>2, <2>2, NewestIs, LeastNatural
  <2> HIDE DEF r
  <2>4. r \in P /\ r \in named /\ \A c \in named : c.at <= r.at
    BY <1>1, <2>1, <2>3
  <2> QED BY <1>2, <2>4, Zenon DEF r, named
<1>3. CASE named = {}
  <2>1. r = Newest(P)
    BY <1>3, Zenon DEF representative, named
  <2>2. Newest(P) \in P /\ \A c \in P : c.at <= Newest(P).at
    BY NewestIs, LeastNatural
  <2> HIDE DEF r
  <2>3. r \in P /\ \A c \in P : c.at <= r.at
    BY <2>1, <2>2
  <2> QED BY <1>3, <2>3, Zenon DEF r, named
<1> QED BY <1>2, <1>3, Zenon

(* A plan spares the backup that stands for a period a tier keeps          *)
(* (survivors).                                                            *)
LEMMA PlanSparesSurvivors ==
    ASSUME NEW pol, NEW S, NEW failed, NEW tier \in rungs, NEW p \in KeptPeriods(pol, tier, S)
    PROVE  representative(pol, tier, {b \in S : bucketKey(b.at, tier) = p}).id
               \notin Plan(pol, S, failed)
<1> DEFINE id == representative(pol, tier, {b \in S : bucketKey(b.at, tier) = p}).id
<1>1. id \in survivors(pol, tier, S)
  BY Zenon DEF survivors
<1> HIDE DEF id
<1>2. id \in KeptIDs(pol, S) \/ KeptIDs(pol, S) = {c.id : c \in S}
  BY <1>1, Zenon DEF KeptIDs
<1>3. id \notin {c.id : c \in S} \ KeptIDs(pol, S)
  BY <1>2, Zenon
<1>4. id \notin Plan(pol, S, failed)
  BY <1>3, Zenon DEF Plan
<1> QED BY <1>4 DEF id

KeysOf(tier, A) == {bucketKey(b, tier) : b \in A}

Above(p, Q) == {q \in Q : q > p}

\* The k greatest of some numbers.
Top(k, Q) == {p \in Q : Cardinality(Above(p, Q)) < k}

(* The periods of finitely many hours are finitely many.                   *)
LEMMA KeysFinite ==
    ASSUME NEW tier, NEW A, A \subseteq Hours
    PROVE  IsFiniteSet(KeysOf(tier, A))
<1> DEFINE f == [b \in A |-> bucketKey(b, tier)]
<1>1. IsFiniteSet(Hours)
  BY RotationAssumption, FS_Interval DEF Hours
<1>2. IsFiniteSet(A)
  BY <1>1, FS_Subset
<1>3. f \in Surjection(A, KeysOf(tier, A))
  BY DEF Surjection, KeysOf
<1> HIDE DEF f
<1> QED BY <1>2, <1>3, FS_Surjection

(* Fewer periods have fewer above any of them.                             *)
LEMMA FewerAbove ==
    ASSUME NEW A, NEW B, A \subseteq B, IsFiniteSet(B), NEW p
    PROVE  /\ Cardinality(Above(p, A)) \in Nat /\ Cardinality(Above(p, B)) \in Nat
           /\ Cardinality(Above(p, A)) <= Cardinality(Above(p, B))
<1>1. Above(p, A) \subseteq Above(p, B) /\ Above(p, B) \subseteq B
  BY DEF Above
<1>2. IsFiniteSet(Above(p, B))
  BY <1>1, FS_Subset
<1>3. IsFiniteSet(Above(p, A)) /\ Cardinality(Above(p, A)) <= Cardinality(Above(p, B))
  BY <1>1, <1>2, FS_Subset, Zenon
<1> QED BY <1>2, <1>3, FS_CardinalityType

(* A period that is recent was recent since it first held a backup: later  *)
(* backups can only push it out.                                           *)
LEMMA RecentStays ==
    ASSUME Types, policy' = policy, Taken \subseteq Taken', Taken' \subseteq Hours,
           NEW tier \in rungs, NEW p \in RecentPeriods(tier)', p \in KeysOf(tier, Taken)
    PROVE  p \in RecentPeriods(tier)
<1> DEFINE A == KeysOf(tier, Taken)
           B == KeysOf(tier, Taken')
<1>1. A \subseteq B /\ IsFiniteSet(B)
  BY KeysFinite, Zenon DEF KeysOf
<1>2. Cardinality(Above(p, B)) < policy.keep[tier]
  BY Zenon DEF RecentPeriods, KeysOf, Above
<1>3. policy.keep[tier] \in Nat
  BY DEF Types, Policy
<1>4. Cardinality(Above(p, A)) < policy.keep[tier]
  <2> HIDE DEF A, B
  <2>1. /\ Cardinality(Above(p, A)) \in Nat /\ Cardinality(Above(p, B)) \in Nat
        /\ Cardinality(Above(p, A)) <= Cardinality(Above(p, B))
    BY <1>1, FewerAbove, Zenon
  <2> QED BY <1>2, <1>3, <2>1
<1> QED BY <1>4, Zenon DEF RecentPeriods, KeysOf, Above

(* A stored backup is in the list the plan is made from, with its own hour *)
(* and its last verification (prune.Runner.Plan).                          *)
LEMMA Row ==
    ASSUME Books, NEW b \in Stored
    PROVE  \E x \in Backups(index) :
             x.id = b /\ x.at = b /\ (x.verified <=> hist[b] > 0)
<1>1. PICK x \in Backups(index) : x.id = b
  BY DEF Stored
<1>2. index \in Seq(Entry)
  BY DEF Books, Types
<1>3. /\ x.id = x.at /\ x.line \in DOMAIN index
      /\ index[x.line].ok /\ index[x.line].id = x.id
      /\ x.verified <=> index[x.line].ver > 0
  BY <1>2, Stock, Zenon
<1>4. index[x.line].ver = hist[index[x.line].id]
  BY <1>3, Zenon DEF Books, Recorded
<1> QED BY <1>1, <1>3, <1>4, Zenon

(* A plan keeps every recent period that has a backup to be kept by: the   *)
(* stored ones are some of those ever taken, so no more periods are above  *)
(* it than the tier has room for.                                          *)
LEMMA RecentKept ==
    ASSUME Books, NEW tier \in rungs, NEW b \in Stored, bucketKey(b, tier) \in RecentPeriods(tier)
    PROVE  bucketKey(b, tier) \in KeptPeriods(policy, tier, Backups(index))
<1> DEFINE S == Backups(index)
           p == bucketKey(b, tier)
           A == Periods(tier, S)
           B == KeysOf(tier, Taken)
<1>1. index \in Seq(Entry) /\ Taken \subseteq Hours /\ policy.keep[tier] \in Nat
  BY DEF Books, Types, Policy
<1>2. \A x \in S : x.at \in Taken
  <2> SUFFICES ASSUME NEW x \in S PROVE x.at \in Taken
    OBVIOUS
  <2>1. x.id = x.at /\ x.line \in DOMAIN index /\ index[x.line].ok /\ index[x.line].id = x.id
    BY <1>1, Stock, Zenon
  <2> QED BY <2>1, Zenon DEF Books, Recorded
<1>3. A \subseteq B
  BY <1>2 DEF Periods, KeysOf
<1>4. IsFiniteSet(B)
  BY <1>1, KeysFinite, Zenon
<1>5. p \in A
  <2>1. PICK x \in S : x.at = b
    BY Row, Zenon
  <2> QED BY <2>1 DEF Periods
<1>6. Cardinality(Above(p, B)) < policy.keep[tier]
  BY DEF RecentPeriods, KeysOf, Above
<1>7. Cardinality(Above(p, A)) < policy.keep[tier]
  <2> HIDE DEF A, B, p
  <2>1. /\ Cardinality(Above(p, A)) \in Nat /\ Cardinality(Above(p, B)) \in Nat
        /\ Cardinality(Above(p, A)) <= Cardinality(Above(p, B))
    BY <1>3, <1>4, FewerAbove, Zenon
  <2> QED BY <1>1, <1>6, <2>1
<1> QED BY <1>5, <1>7, Zenon DEF KeptPeriods, Above

(* After a prune a recent period that had a backup has one still, and one  *)
(* of its named day if it had one of that day (survivors, representative). *)
LEMMA Remains ==
    ASSUME Books, ApplyPlan, NEW tier \in rungs,
           NEW b \in Stored, bucketKey(b, tier) \in RecentPeriods(tier)
    PROVE  \E c \in Stored' :
             /\ bucketKey(c, tier) = bucketKey(b, tier)
             /\ tier \in {"weekly", "monthly"} /\ Named(tier, b) => Named(tier, c)
<1> DEFINE S == Backups(index)
           p == bucketKey(b, tier)
           P == {x \in S : bucketKey(x.at, tier) = p}
           named == OnNamedDay(policy, tier, P)
           r == representative(policy, tier, P)
<1>1. index \in Seq(Entry)
  BY DEF Books, Types
<1>2. \A x \in S : x.at \in Nat /\ x.at <= MaxTime /\ x.id = x.at
  BY <1>1, Stock, Zenon
<1>3. PICK x \in S : x.id = b /\ x.at = b
  BY Row, Zenon
<1>4. x \in P
  BY <1>3, Zenon
<1>5. \A y \in P : y.at \in Nat /\ y.at <= MaxTime
  BY <1>2, Zenon
<1>6. /\ r \in P
      /\ named # {} => r \in named
  <2> HIDE DEF P
  <2> QED BY <1>4, <1>5, RotationAssumption, Stands, Zenon
<1>7. p \in KeptPeriods(policy, tier, S)
  BY RecentKept, Zenon
<1>8. r.id \notin Doomed(policy, index)
  BY <1>7, PlanSparesSurvivors, Zenon DEF Doomed
<1> HIDE DEF r
<1>9. r \in S /\ r.id = r.at /\ bucketKey(r.at, tier) = p
  BY <1>2, <1>6, Zenon
<1>10. r.id \in Stored'
  <2>1. r.id \in Stored
    BY <1>9, Zenon DEF Stored
  <2> QED BY <2>1, <1>8, PruneStep, Zenon
<1>11. ASSUME tier \in {"weekly", "monthly"}, Named(tier, b) PROVE Named(tier, r.id)
  <2>1. x \in named
    BY <1>3, <1>4, <1>11, Zenon DEF OnNamedDay, Named
  <2>2. r \in named
    BY <2>1, <1>6, ZenonT(20)
  <2> QED BY <2>2, <1>9, <1>11, Zenon DEF OnNamedDay, Named
<1> QED BY <1>9, <1>10, <1>11, Zenon

(* Only a prune takes a backup away; what is taken anew is stored.         *)
LEMMA Grows ==
    ASSUME Books, [Next]_vars, ~ApplyPlan
    PROVE  /\ policy' = policy /\ Stored \subseteq Stored'
           /\ Taken \subseteq Taken' /\ Taken' \ Taken \subseteq Stored'
           /\ Taken' \subseteq Hours
<1>0. Taken' \subseteq Hours
  BY BooksStep DEF Books, Types
<1>1. CASE \E at \in Hours : Backup(at)
  BY <1>0, <1>1, BackupStep
<1>2. CASE \E at \in Hours : FailedBackup(at)
  <2>1. policy' = policy /\ Stored' = Stored /\ hist' = hist
    BY <1>2, FailedStep
  <2> QED BY <1>0, <2>1 DEF Taken
<1>3. CASE \E b \in Taken, outcome \in {-1, 1} : Verify(b, outcome)
  BY <1>0, <1>3, VerifyStep, Zenon
<1>4. CASE UNCHANGED vars
  BY <1>0, <1>4, Zenon DEF vars, Stored, Taken
<1> QED BY <1>1, <1>2, <1>3, <1>4, Zenon DEF Next

(* However the prunes fell, a backup remains of each of the most recent    *)
(* periods of a tier that ever held one.                                   *)
THEOREM TiersNeverShort == Spec => []PeriodsCovered
<1>1. Init => PeriodsCovered
  BY Zenon DEF Init, PeriodsCovered, RecentPeriods, Taken
<1>2. ASSUME Books, PeriodsCovered, [Next]_vars PROVE PeriodsCovered'
  <2> SUFFICES ASSUME NEW tier \in rungs, NEW p \in RecentPeriods(tier)'
               PROVE  \E c \in Stored' : bucketKey(c, tier) = p
    BY DEF PeriodsCovered
  <2>1. CASE ApplyPlan
    <3>1. p \in RecentPeriods(tier)
      BY <1>2, <2>1, PruneStep, Zenon DEF RecentPeriods, Taken
    <3>2. PICK b \in Stored : bucketKey(b, tier) = p
      BY <1>2, <3>1 DEF PeriodsCovered
    <3> QED BY <1>2, <2>1, <3>1, <3>2, Remains, Zenon
  <2>2. CASE ~ApplyPlan
    <3>1. /\ policy' = policy /\ Stored \subseteq Stored'
          /\ Taken \subseteq Taken' /\ Taken' \ Taken \subseteq Stored'
          /\ Taken' \subseteq Hours
      BY <1>2, <2>2, Grows
    <3>2. PICK t \in Taken' : bucketKey(t, tier) = p
      BY DEF RecentPeriods
    <3>3. CASE t \in Taken
      <4>1. p \in RecentPeriods(tier)
        BY <1>2, <3>1, <3>2, <3>3, RecentStays, Zenon DEF Books, KeysOf
      <4> QED BY <1>2, <3>1, <4>1, Zenon DEF PeriodsCovered
    <3>4. CASE t \notin Taken
      BY <3>1, <3>2, <3>4
    <3> QED BY <3>3, <3>4
  <2> QED BY <2>1, <2>2
<1> QED BY <1>1, <1>2, BooksInit, BooksStep, PTL DEF Spec

(* A kept week or month that ever had a backup on the day the policy names *)
(* still has one of that day.                                              *)
THEOREM NamedDayStays == Spec => []NamedDayPromoted
<1>1. Init => NamedDayPromoted
  BY DEF Init, NamedDayPromoted, Taken
<1>2. ASSUME Books, NamedDayPromoted, [Next]_vars PROVE NamedDayPromoted'
  <2> SUFFICES ASSUME NEW tier \in {"weekly", "monthly"}, NEW b \in Taken',
                      bucketKey(b, tier) \in RecentPeriods(tier)', Named(tier, b)'
               PROVE  \E c \in Stored' :
                        bucketKey(c, tier) = bucketKey(b, tier) /\ Named(tier, c)'
    BY Zenon DEF NamedDayPromoted
  <2>0. tier \in rungs
    BY DEF rungs
  <2>1. CASE ApplyPlan
    <3>1. policy' = policy /\ hist' = hist
      BY <1>2, <2>1, PruneStep
    <3>2. b \in Taken /\ bucketKey(b, tier) \in RecentPeriods(tier)
      BY <3>1, Zenon DEF RecentPeriods, Taken
    <3>3. Named(tier, b) /\ \A c : Named(tier, c)' <=> Named(tier, c)
      BY <3>1, Zenon DEF Named
    <3>4. PICK s \in Stored : bucketKey(s, tier) = bucketKey(b, tier) /\ Named(tier, s)
      BY <1>2, <3>2, <3>3, Zenon DEF NamedDayPromoted
    <3>5. PICK c \in Stored' : /\ bucketKey(c, tier) = bucketKey(s, tier)
                               /\ tier \in {"weekly", "monthly"} /\ Named(tier, s) => Named(tier, c)
      BY <1>2, <2>0, <2>1, <3>2, <3>4, Remains, Zenon
    <3> QED BY <3>3, <3>4, <3>5, Zenon
  <2>2. CASE ~ApplyPlan
    <3>1. /\ policy' = policy /\ Stored \subseteq Stored'
          /\ Taken \subseteq Taken' /\ Taken' \ Taken \subseteq Stored'
          /\ Taken' \subseteq Hours
      BY <1>2, <2>2, Grows
    <3>2. \A c : Named(tier, c)' <=> Named(tier, c)
      BY <3>1, Zenon DEF Named
    <3>3. CASE b \in Taken
      <4>1. bucketKey(b, tier) \in RecentPeriods(tier)
        BY <1>2, <2>0, <3>1, <3>3, RecentStays, Zenon DEF Books, KeysOf
      <4> QED BY <1>2, <3>1, <3>2, <3>3, <4>1, Zenon DEF NamedDayPromoted
    <3>4. CASE b \notin Taken
      BY <3>1, <3>4, Zenon
    <3> QED BY <3>3, <3>4, Zenon
  <2> QED BY <2>1, <2>2, Zenon
<1> QED BY <1>1, <1>2, BooksInit, BooksStep, PTL DEF Spec

(* A backup whose last verification passed is deleted only while a newer   *)
(* one that passed remains (Plan, invariant 2).                            *)
THEOREM NewestVerifiedStays == Spec => VerifiedOutlives
<1>1. ASSUME Books, [Next]_vars, NEW b \in Stored \ Stored', hist[b] = 1
      PROVE  \E c \in Stored' : hist[c] = 1 /\ c > b
  <2> DEFINE S == Backups(index)
             V == {x \in S : x.verified}
             n == Newest(V)
  <2>1. ApplyPlan
    BY <1>1, Grows
  <2>2. index \in Seq(Entry) /\ hist \in [Taken -> -1..1]
    BY <1>1 DEF Books, Types
  <2>3. \A x \in S : x.at \in Nat /\ x.at <= MaxTime /\ x.id = x.at
    BY <2>2, Stock, Zenon
  <2>4. PICK x \in S : x.id = b /\ x.at = b /\ (x.verified <=> hist[b] > 0)
    BY <1>1, Row, Zenon
  <2>5. x \in V
    BY <1>1, <2>4
  <2>6. n \in V /\ x.at <= n.at
    <3>1. \A y \in V : y.at \in Nat /\ y.at <= MaxTime
      BY <2>3
    <3> HIDE DEF V
    <3> QED BY <2>5, <3>1, RotationAssumption, NewestIs, LeastNatural, Zenon
  <2>7. n.id \notin Doomed(policy, index)
    BY <2>4, <2>5, PlanSparesVerified, LeastNatural, Zenon DEF Doomed
  <2> HIDE DEF n
  <2>8. n \in S /\ n.verified /\ n.id = n.at /\ n.at \in Nat
    BY <2>3, <2>6, Zenon
  <2>9. Stored' = Stored \ Doomed(policy, index)
    BY <1>1, <2>1, PruneStep, Zenon
  <2>10. n.id \in Stored /\ n.id \in Stored'
    BY <2>7, <2>8, <2>9, Zenon DEF Stored
  <2>11. n.id # b
    BY <1>1, <2>10, Zenon
  <2>12. n.id > b
    BY <2>3, <2>4, <2>6, <2>8, <2>11
  <2>13. hist[n.id] = 1
    <3>1. /\ n.line \in DOMAIN index /\ index[n.line].ok /\ index[n.line].id = n.id
          /\ n.verified <=> index[n.line].ver > 0
      BY <2>2, <2>8, Stock, Zenon
    <3>2. n.id \in Taken /\ index[n.line].ver = hist[n.id]
      BY <1>1, <3>1, Zenon DEF Books, Recorded
    <3>3. hist[n.id] \in -1..1 /\ hist[n.id] > 0
      BY <2>2, <2>8, <3>1, <3>2, Zenon
    <3> QED BY <3>3
  <2> QED BY <2>10, <2>12, <2>13
<1>2. Books /\ [Next]_vars =>
        [\A b \in Stored \ Stored' : hist[b] = 1 => \E c \in Stored' : hist[c] = 1 /\ c > b]_vars
  BY <1>1
<1> QED BY <1>2, BooksInit, BooksStep, PTL DEF Spec, VerifiedOutlives

-----------------------------------------------------------------------------
(* A prune right after a prune.                                            *)

(* Of some numbers, the k greatest stay the k greatest when others are     *)
(* dropped.                                                                *)
LEMMA TopStays ==
    ASSUME NEW A, IsFiniteSet(A), A \subseteq Int, NEW k \in Nat, NEW B, B \subseteq A,
           Top(k, A) \subseteq B
    PROVE  Top(k, B) = Top(k, A)
<1> DEFINE top == Top(k, A)
           low == A \ top
<1>0. \A p : p \in top <=> p \in A /\ Cardinality(Above(p, A)) < k
  BY DEF Top
<1> HIDE DEF top
<1>1. \A p : /\ Cardinality(Above(p, A)) \in Nat /\ Cardinality(Above(p, B)) \in Nat
             /\ Cardinality(Above(p, B)) <= Cardinality(Above(p, A))
  BY FewerAbove, ZenonT(20)
<1>2. \A p \in top : p \in B /\ Cardinality(Above(p, B)) < k
  BY <1>0, <1>1 DEF top
<1>3. ASSUME NEW p \in B, Cardinality(Above(p, B)) < k, p \notin top PROVE FALSE
  <2> DEFINE counts == {Cardinality(Above(q, A)) : q \in low}
  <2>1. p \in low
    BY <1>3
  <2>2. counts \in SUBSET Nat /\ counts # {}
    BY <1>1, <2>1, Zenon
  <2>3. PICK l \in counts : \A n \in counts : l <= n
    BY <2>2, LeastNatural, Zenon DEF WellOrdered
  <2>4. PICK q \in low : l = Cardinality(Above(q, A))
    BY <2>3
  <2>5. ASSUME NEW x \in low, x > q PROVE FALSE
    <3>0. x \in A /\ x \in Int /\ q \in Int /\ \A y \in A : y \in Int
      BY Zenon
    <3>1. Above(x, A) \subseteq Above(q, A) /\ x \in Above(q, A) /\ x \notin Above(x, A)
      <4>1. \A y \in A : y > x => y > q
        BY <2>5, <3>0
      <4>2. ~(x > x)
        BY <3>0
      <4> QED BY <2>5, <3>0, <4>1, <4>2, Zenon DEF Above
    <3>2. IsFiniteSet(Above(q, A))
      BY FS_Subset, Zenon DEF Above
    <3>3. /\ Cardinality(Above(x, A)) <= Cardinality(Above(q, A))
          /\ Cardinality(Above(q, A)) # Cardinality(Above(x, A))
      BY <3>1, <3>2, FS_Subset, Zenon
    <3>4. Cardinality(Above(q, A)) <= Cardinality(Above(x, A))
      BY <2>3, <2>4, Zenon
    <3> QED BY <1>1, <3>3, <3>4
  <2>6. Above(q, A) \subseteq Above(p, B)
    <3> SUFFICES ASSUME NEW y \in A, y > q PROVE y \in B /\ y > p
      BY Zenon DEF Above
    <3>1. y \in top
      BY <2>5, Zenon
    <3>2. ~(p > q)
      BY <2>1, <2>5, Zenon
    <3> QED BY <1>2, <2>1, <2>4, <3>1, <3>2
  <2>7. IsFiniteSet(Above(p, B))
    BY FS_Subset, ZenonT(20) DEF Above
  <2>8. Cardinality(Above(q, A)) <= Cardinality(Above(p, B))
    BY <2>6, <2>7, FS_Subset, Zenon
  <2>9. ~(Cardinality(Above(q, A)) < k)
    BY <1>0, <2>4
  <2> QED BY <1>1, <1>3, <2>8, <2>9
<1> QED BY <1>2, <1>3, Zenon DEF Top, top

\* Two lists of backups list this one alike.
Same(s, t) == s.id = t.id /\ s.at = t.at /\ (s.verified <=> t.verified)

\* T is the backups S without those in gone, each listed once.
Thins(S, T, gone) ==
    /\ IsFiniteSet(S) /\ IsFiniteSet(T)
    /\ \A b \in S : b.at \in Nat /\ b.at <= MaxTime /\ b.id = b.at
    /\ \A t \in T : \E s \in S : Same(s, t) /\ s.id \notin gone
    /\ \A s \in S : s.id \notin gone => \E t \in T : Same(s, t)
    /\ \A t, u \in T : t.id = u.id => t = u

(* The backups that remain are backups.                                    *)
LEMMA ThinsRows ==
    ASSUME NEW S, NEW T, NEW gone, Thins(S, T, gone)
    PROVE  \A b \in T : b.at \in Nat /\ b.at <= MaxTime /\ b.id = b.at
BY DEF Thins, Same

(* The newest of some of the backups stays the newest of those that remain *)
(* of them, when it remains.                                               *)
LEMMA NewestStays ==
    ASSUME NEW X, NEW Y, NEW r \in X, NEW u \in Y,
           \A b \in X \cup Y : b.at \in Nat /\ b.id = b.at,
           \A c \in X : c.at <= r.at, \A c \in Y : c.at <= u.at,
           \E t \in Y : t.at = r.at, \E s \in X : s.at = u.at
    PROVE  u.id = r.id
<1>1. PICK t \in Y : t.at = r.at
  OBVIOUS
<1>2. PICK s \in X : s.at = u.at
  BY Zenon
<1>3. r.at <= u.at /\ u.at <= r.at
  BY <1>1, <1>2, Zenon
<1>4. r.at \in Nat /\ u.at \in Nat /\ r.id = r.at /\ u.id = u.at
  BY Zenon
<1> QED BY <1>3, <1>4

(* After a plan is carried out, each tier keeps the periods it kept.       *)
LEMMA PeriodsStay ==
    ASSUME NEW pol \in Policy, NEW S, NEW T, Thins(S, T, Plan(pol, S, FALSE)), NEW tier \in rungs
    PROVE  KeptPeriods(pol, tier, T) = KeptPeriods(pol, tier, S)
<1> DEFINE gone == Plan(pol, S, FALSE)
           A == Periods(tier, S)
           B == Periods(tier, T)
           k == pol.keep[tier]
           kept == KeptPeriods(pol, tier, S)
<1>0. k \in Nat
  BY DEF Policy
<1>1. IsFiniteSet(S) /\ \A b \in S : b.at \in Nat /\ b.at <= MaxTime /\ b.id = b.at
  BY Zenon DEF Thins
<1>2. IsFiniteSet(A)
  <2> DEFINE f == [b \in S |-> bucketKey(b.at, tier)]
  <2>1. f \in Surjection(S, A)
    BY DEF Surjection, Periods
  <2> HIDE DEF f, A
  <2> QED BY <1>1, <2>1, FS_Surjection, Zenon
<1>3. A \subseteq Int
  BY <1>1, KeyIsNumber, Zenon DEF Periods
<1>4. B \subseteq A
  <2>1. \A t \in T : \E s \in S : s.at = t.at
    BY Zenon DEF Thins, Same
  <2> QED BY <2>1, Zenon DEF Periods
<1>5. ASSUME NEW p \in kept PROVE p \in B
  <2> DEFINE P == {b \in S : bucketKey(b.at, tier) = p}
             r == representative(pol, tier, P)
  <2>1. P # {}
    BY <1>5, Zenon DEF KeptPeriods, Periods
  <2>2. \A b \in P : b.at \in Nat /\ b.at <= MaxTime
    BY <1>1, Zenon
  <2>3. r \in P
    <3> HIDE DEF P
    <3> QED BY <2>1, <2>2, RotationAssumption, Stands, Zenon
  <2>4. r.id \notin gone
    BY <1>5, PlanSparesSurvivors, Zenon
  <2> HIDE DEF r, gone
  <2>5. PICK t \in T : Same(r, t)
    BY <2>3, <2>4, Zenon DEF Thins, gone
  <2> QED BY <2>3, <2>5, Zenon DEF Same, Periods
<1>6. kept = Top(k, A) /\ KeptPeriods(pol, tier, T) = Top(k, B)
  BY Zenon DEF KeptPeriods, Above, Top
<1> HIDE DEF A, B, k, kept
<1>7. Top(k, A) \subseteq B
  BY <1>5, <1>6
<1>8. Top(k, B) = Top(k, A)
  BY <1>0, <1>2, <1>3, <1>4, <1>7, TopStays, Zenon
<1> QED BY <1>6, <1>8, Zenon DEF kept

(* The same backups stand for them.                                        *)
LEMMA SurvivorsStay ==
    ASSUME NEW pol \in Policy, NEW S, NEW T, Thins(S, T, Plan(pol, S, FALSE)), NEW tier \in rungs
    PROVE  survivors(pol, tier, T) = survivors(pol, tier, S)
<1> DEFINE gone == Plan(pol, S, FALSE)
           In(Z, p) == {b \in Z : bucketKey(b.at, tier) = p}
           rep(Z, p) == representative(pol, tier, In(Z, p))
           kept == KeptPeriods(pol, tier, S)
<1>1. \A b \in S \cup T : b.at \in Nat /\ b.at <= MaxTime /\ b.id = b.at
  BY ThinsRows, Zenon DEF Thins
<1>2. ASSUME NEW p \in kept PROVE rep(T, p).id = rep(S, p).id
  <2> DEFINE P == In(S, p)
             Q == In(T, p)
             X == OnNamedDay(pol, tier, P)
             Y == OnNamedDay(pol, tier, Q)
             r == rep(S, p)
             u == rep(T, p)
  <2>1. P # {} /\ P \subseteq S /\ Q \subseteq T
    BY <1>2, Zenon DEF KeptPeriods, Periods
  <2>2. /\ \A b \in P : b.at \in Nat /\ b.at <= MaxTime
        /\ \A b \in Q : b.at \in Nat /\ b.at <= MaxTime
    BY <1>1, Zenon
  <2>3. r.id \notin gone
    BY <1>2, PlanSparesSurvivors, Zenon
  <2>4. /\ r \in P
        /\ X # {} => r \in X /\ \A c \in X : c.at <= r.at
        /\ X = {} => \A c \in P : c.at <= r.at
    <3> HIDE DEF In
    <3> QED BY <2>1, <2>2, RotationAssumption, Stands, Zenon
  <2> HIDE DEF r, gone
  <2>5. PICK t \in T : Same(r, t)
    BY <2>3, <2>4, ZenonT(20) DEF Thins, gone
  <2>6. t \in Q /\ t.at = r.at
    BY <2>4, <2>5 DEF Same
  <2>7. /\ u \in Q
        /\ Y # {} => u \in Y /\ \A c \in Y : c.at <= u.at
        /\ Y = {} => \A c \in Q : c.at <= u.at
    <3> HIDE DEF In
    <3> QED BY <2>2, <2>6, RotationAssumption, Stands, Zenon
  <2> HIDE DEF u
  <2>8. PICK s \in S : Same(s, u)
    BY <2>7, ZenonT(20) DEF Thins
  <2>9. s \in P /\ s.at = u.at
    BY <2>7, <2>8 DEF Same
  <2>10. X \subseteq P /\ Y \subseteq Q
    BY Zenon DEF OnNamedDay
  <2>11. r \in X => t \in Y
    BY <2>6, Zenon DEF OnNamedDay
  <2>12. u \in Y => s \in X
    BY <2>9, Zenon DEF OnNamedDay
  <2>13. \A b \in P \cup Q : b.at \in Nat /\ b.id = b.at
    BY <1>1, Zenon
  <2> HIDE DEF P, Q, X, Y
  <2>14. CASE X # {}
    <3>1. t \in Y /\ Y # {}
      BY <2>4, <2>11, <2>14, Zenon
    <3>2. \A b \in X \cup Y : b.at \in Nat /\ b.id = b.at
      BY <2>10, <2>13, Zenon
    <3>3. \E c \in Y : c.at = r.at
      BY <2>6, <3>1, Zenon
    <3>4. \E c \in X : c.at = u.at
      BY <2>7, <2>9, <2>12, <3>1, Zenon
    <3>5. r \in X /\ u \in Y /\ (\A c \in X : c.at <= r.at) /\ (\A c \in Y : c.at <= u.at)
      BY <2>4, <2>7, <2>14, <3>1, Zenon
    <3>6. u.id = r.id
      BY <3>2, <3>3, <3>4, <3>5, NewestStays
    <3> QED BY <3>6, Zenon DEF u, r
  <2>15. CASE X = {}
    <3>1. Y = {}
      BY <2>7, <2>12, <2>15, Zenon
    <3>2. \E c \in Q : c.at = r.at
      BY <2>6, Zenon
    <3>3. \E c \in P : c.at = u.at
      BY <2>9, Zenon
    <3>4. (\A c \in P : c.at <= r.at) /\ (\A c \in Q : c.at <= u.at)
      BY <2>4, <2>7, <2>15, <3>1, Zenon
    <3>5. u.id = r.id
      BY <2>4, <2>7, <2>13, <3>2, <3>3, <3>4, NewestStays
    <3> QED BY <3>5 DEF u, r
  <2> QED BY <2>14, <2>15, Zenon
<1>3. KeptPeriods(pol, tier, T) = kept
  BY PeriodsStay, ZenonT(20)
<1>4. survivors(pol, tier, S) = {rep(S, p).id : p \in kept}
  BY Zenon DEF survivors
<1>5. survivors(pol, tier, T) = {rep(T, p).id : p \in kept}
  BY <1>3, Zenon DEF survivors
<1> HIDE DEF rep, kept
<1> QED BY <1>2, <1>4, <1>5, Zenon

(* The newest verified backup is the one it was.                           *)
LEMMA VerifiedStays ==
    ASSUME NEW pol \in Policy, NEW S, NEW T, Thins(S, T, Plan(pol, S, FALSE))
    PROVE  newestVerified(T) = newestVerified(S)
<1> DEFINE gone == Plan(pol, S, FALSE)
           X == {b \in S : b.verified}
           Y == {b \in T : b.verified}
           r == Newest(X)
           u == Newest(Y)
<1>1. \A b \in S \cup T : b.at \in Nat /\ b.at <= MaxTime /\ b.id = b.at
  BY ThinsRows, Zenon DEF Thins
<1>2. \A t \in Y : \E s \in X : s.at = t.at
  BY ZenonT(20) DEF Thins, Same
<1>3. CASE X = {}
  <2>1. Y = {}
    BY <1>2, <1>3, Zenon
  <2> QED BY <1>3, <2>1, Zenon DEF newestVerified
<1>4. CASE X # {}
  <2>1. \A b \in X : b.at \in Nat /\ b.at <= MaxTime
    BY <1>1, Zenon
  <2>2. r.id \notin gone
    <3>1. PICK b \in S : b.verified
      BY <1>4, Zenon
    <3> QED BY <3>1, PlanSparesVerified, LeastNatural, Zenon
  <2>3. r \in X /\ \A c \in X : c.at <= r.at
    <3> HIDE DEF X
    <3> QED BY <1>4, <2>1, RotationAssumption, NewestIs, LeastNatural, Zenon
  <2> HIDE DEF r, gone
  <2>4. PICK t \in T : Same(r, t)
    BY <2>2, <2>3, ZenonT(20) DEF Thins, gone
  <2>5. t \in Y /\ t.at = r.at
    BY <2>3, <2>4, Zenon DEF Same
  <2>6. \A b \in Y : b.at \in Nat /\ b.at <= MaxTime
    BY <1>1, Zenon
  <2>7. u \in Y /\ \A c \in Y : c.at <= u.at
    <3> HIDE DEF Y
    <3> QED BY <2>5, <2>6, RotationAssumption, NewestIs, LeastNatural, Zenon
  <2> HIDE DEF u
  <2>8. \A b \in X \cup Y : b.at \in Nat /\ b.id = b.at
    BY <1>1, Zenon
  <2>9. \E s \in X : s.at = u.at
    BY <1>2, <2>7, Zenon
  <2>10. \E c \in Y : c.at = r.at
    BY <2>5, Zenon
  <2>11. newestVerified(S) = {r.id} /\ newestVerified(T) = {u.id}
    BY <1>4, <2>5, Zenon DEF newestVerified, r, u
  <2> HIDE DEF X, Y
  <2>12. u.id = r.id
    BY <2>3, <2>7, <2>8, <2>9, <2>10, NewestStays
  <2> QED BY <2>11, <2>12, Zenon
<1> QED BY <1>3, <1>4, Zenon

(* After a plan is carried out there is nothing to plan: the tiers choose  *)
(* the same backups, and the floor promotes those it promoted.             *)
LEMMA NothingToPlan ==
    ASSUME NEW pol \in Policy, NEW S, NEW T, Thins(S, T, Plan(pol, S, FALSE)),
           Plan(pol, S, FALSE) # {}
    PROVE  {t.id : t \in T} \subseteq KeptIDs(pol, T)
<1> DEFINE gone == Plan(pol, S, FALSE)
           Chosen(Z) == newestVerified(Z) \cup UNION {survivors(pol, tier, Z) : tier \in rungs}
           C == Chosen(S)
           Left(Z) == {b \in Z : b.id \notin C}
           Newer(Z, d) == {x \in Left(Z) : x.at > d.at}
           Ids(Z, d) == {c.id : c \in Newer(Z, d)}
           Few(Z, d) == Cardinality(Ids(Z, d)) + countKept(Z, C) < pol.minKeep
<1>1. ~empty(pol)
  BY Zenon DEF Plan, KeptIDs
<1>2. Chosen(T) = C
  <2>1. \A tier \in rungs : survivors(pol, tier, T) = survivors(pol, tier, S)
    BY SurvivorsStay, ZenonT(20)
  <2>2. newestVerified(T) = newestVerified(S)
    BY VerifiedStays, ZenonT(20)
  <2> QED BY <2>1, <2>2, Zenon
<1>3. KeptIDs(pol, S) = C \cup Floor(pol, S, C) /\ KeptIDs(pol, T) = C \cup Floor(pol, T, C)
  <2> HIDE DEF C
  <2>1. KeptIDs(pol, S) = Chosen(S) \cup Floor(pol, S, Chosen(S))
    BY <1>1, Zenon DEF KeptIDs
  <2>2. KeptIDs(pol, T) = Chosen(T) \cup Floor(pol, T, Chosen(T))
    BY <1>1, Zenon DEF KeptIDs
  <2> QED BY <1>2, <2>1, <2>2, Zenon DEF C
<1> HIDE DEF C
<1>4. \A Z : Floor(pol, Z, C) = {b.id : b \in {d \in Left(Z) : Few(Z, d)}}
  BY Zenon DEF Floor
<1>5. \A b \in S \cup T : b.at \in Nat /\ b.at <= MaxTime /\ b.id = b.at
  BY ThinsRows, Zenon DEF Thins
<1>6. IsFiniteSet(S) /\ IsFiniteSet(T) /\ \A t \in T : \E s \in S : s.id = t.id /\ s.at = t.at
  BY ZenonT(20) DEF Thins, Same
<1>7. /\ countKept(T, C) \in Nat /\ countKept(S, C) \in Nat
      /\ countKept(T, C) <= countKept(S, C)
  <2> DEFINE X == {b \in T : b.id \in C}
             Y == {b \in S : b.id \in C}
             I == {b.id : b \in X}
             J == {b.id : b \in Y}
             f == [b \in X |-> b.id]
  <2>1. IsFiniteSet(X) /\ IsFiniteSet(Y)
    BY <1>6, FS_Subset, Zenon
  <2>2. f \in Surjection(X, I)
    BY Zenon DEF Surjection
  <2>3. f \in Injection(X, I)
    <3>1. \A t, u \in X : t.id = u.id => t = u
      BY Zenon DEF Thins
    <3>2. f \in [X -> I] /\ \A b \in X : f[b] = b.id
      BY Zenon
    <3> HIDE DEF X, I, f
    <3> QED BY <3>1, <3>2, Zenon DEF Injection, IsInjective
  <2>4. I \subseteq J
    BY <1>6, Zenon
  <2>5. /\ IsFiniteSet(J) /\ Cardinality(J) \in Nat /\ Cardinality(Y) \in Nat
        /\ Cardinality(J) <= Cardinality(Y)
    <3> HIDE DEF Y
    <3> QED BY <2>1, FewerIds, CountingHolds, Zenon
  <2>6. countKept(T, C) = Cardinality(X) /\ countKept(S, C) = Cardinality(Y)
    BY Zenon DEF countKept
  <2> HIDE DEF X, Y, I, J, f
  <2>7. Cardinality(I) = Cardinality(X)
    BY <2>1, <2>2, <2>3, FS_Surjection, Zenon
  <2>8. Cardinality(I) <= Cardinality(J)
    BY <2>4, <2>5, FS_Subset, Zenon
  <2>9. Cardinality(X) \in Nat
    BY <2>1, FS_CardinalityType, Zenon
  <2> QED BY <2>5, <2>6, <2>7, <2>8, <2>9
<1>8. ASSUME NEW t \in T PROVE t.id \in KeptIDs(pol, T)
  <2>1. PICK s \in S : s.id = t.id /\ s.id \notin gone
    BY ZenonT(20) DEF Thins, Same
  <2>2. s.id \in KeptIDs(pol, S)
    BY <2>1, Zenon DEF Plan
  <2>3. CASE t.id \in C
    BY <1>3, <2>3, Zenon
  <2>4. CASE t.id \notin C
    <3>1. t.id \in Floor(pol, S, C)
      BY <1>3, <2>1, <2>2, <2>4, Zenon
    <3>2. PICK d \in Left(S) : Few(S, d) /\ d.id = t.id
      <4> HIDE DEF Left, Few
      <4> QED BY <1>4, <3>1
    <3>3. d.at = t.at
      BY <1>5, <3>2, Zenon
    <3>4. Ids(T, t) \subseteq Ids(S, d)
      BY <1>6, <3>3
    <3>5. IsFiniteSet(Newer(S, d))
      BY <1>6, FS_Subset, Zenon
    <3>6. IsFiniteSet(Ids(S, d))
      <4> HIDE DEF Newer
      <4> QED BY <3>5, FewerIds, CountingHolds, Zenon
    <3>7. /\ Cardinality(Ids(T, t)) <= Cardinality(Ids(S, d))
          /\ Cardinality(Ids(T, t)) \in Nat /\ Cardinality(Ids(S, d)) \in Nat
      <4> HIDE DEF Ids
      <4> QED BY <3>4, <3>6, FS_Subset, FS_CardinalityType, Zenon
    <3>8. pol.minKeep \in Nat
      BY Zenon DEF Policy
    <3>9. Few(T, t)
      <4> HIDE DEF Ids
      <4> QED BY <1>7, <3>2, <3>7, <3>8, SMTT(30)
    <3>10. t \in Left(T)
      BY <2>4, Zenon
    <3>11. t.id \in Floor(pol, T, C)
      <4> HIDE DEF Left, Few
      <4> QED BY <1>4, <3>9, <3>10, Zenon
    <3> QED BY <1>3, <3>11, Zenon
  <2> QED BY <2>3, <2>4, Zenon
<1> QED BY <1>8, Zenon

(* What Apply leaves is the backups without the planned ones, each listed  *)
(* once.                                                                   *)
LEMMA ApplyThins ==
    ASSUME Books, ApplyPlan
    PROVE  Thins(Backups(index), Backups(index'), Doomed(policy, index))
<1> DEFINE gone == Doomed(policy, index)
           row(es, i) == [id |-> es[i].id, at |-> es[i].at, verified |-> Verified(es[i]), line |-> i]
           S == Backups(index)
           T == Backups(index')
<1> HIDE DEF gone
<1>1. /\ index' \in Seq(Entry)
      /\ \A i \in DOMAIN index' : \E j \in DOMAIN index :
           index'[i] = index[j] /\ (index[j].ok => index[j].id \notin gone)
      /\ \A j \in DOMAIN index : index[j].ok /\ index[j].id \notin gone =>
           \E i \in DOMAIN index' : index'[i] = index[j]
      /\ \A i, j \in DOMAIN index' : i < j => index'[i].at < index'[j].at
  BY Pruned DEF gone, Books
<1>2. index \in Seq(Entry)
  BY DEF Books, Types
<1>3. \A es : /\ \A b \in Backups(es) : \E i \in DOMAIN es : es[i].ok /\ b = row(es, i)
              /\ \A i \in DOMAIN es : es[i].ok => row(es, i) \in Backups(es)
  BY Zenon DEF Backups
<1>4. /\ IsFiniteSet(S)
      /\ \A b \in S : b.at \in Nat /\ b.at <= MaxTime /\ b.id = b.at
  BY <1>2, Stock, Zenon
<1>5. IsFiniteSet(T)
  BY <1>1, Stock, Zenon
<1>6. \A es, fs, i, j : es[i] = fs[j] =>
        /\ Same(row(es, i), row(fs, j))
        /\ row(es, i).id = es[i].id /\ row(es, i).at = es[i].at /\ row(es, i).line = i
  BY DEF Same
<1> HIDE DEF row, S, T
<1>7. \A t \in T : \E s \in S : Same(s, t) /\ s.id \notin gone
  <2> SUFFICES ASSUME NEW t \in T PROVE \E s \in S : Same(s, t) /\ s.id \notin gone
    OBVIOUS
  <2>1. PICK i \in DOMAIN index' : index'[i].ok /\ t = row(index', i)
    BY <1>3, Zenon DEF T
  <2>2. PICK j \in DOMAIN index : index'[i] = index[j] /\ (index[j].ok => index[j].id \notin gone)
    BY <1>1, Zenon
  <2>3. row(index, j) \in S /\ index[j].id \notin gone
    BY <1>3, <2>1, <2>2, Zenon DEF S
  <2>4. Same(row(index, j), t) /\ row(index, j).id = index[j].id
    BY <1>6, <2>1, <2>2
  <2> QED BY <2>3, <2>4, Zenon
<1>8. \A s \in S : s.id \notin gone => \E t \in T : Same(s, t)
  <2> SUFFICES ASSUME NEW s \in S, s.id \notin gone PROVE \E t \in T : Same(s, t)
    OBVIOUS
  <2>1. PICK j \in DOMAIN index : index[j].ok /\ s = row(index, j)
    BY <1>3, Zenon DEF S
  <2>2. index[j].id \notin gone
    BY <1>6, <2>1
  <2>3. PICK i \in DOMAIN index' : index'[i] = index[j]
    BY <1>1, <2>1, <2>2, Zenon
  <2>4. row(index', i) \in T
    BY <1>3, <2>1, <2>3, Zenon DEF T
  <2>5. Same(s, row(index', i))
    BY <1>6, <2>1, <2>3, Zenon
  <2> QED BY <2>4, <2>5, Zenon
<1>9. \A t, u \in T : t.id = u.id => t = u
  <2> SUFFICES ASSUME NEW t \in T, NEW u \in T, t.id = u.id PROVE t = u
    BY Zenon
  <2>1. PICK i \in DOMAIN index' : index'[i].ok /\ t = row(index', i)
    BY <1>3, Zenon DEF T
  <2>2. PICK j \in DOMAIN index' : index'[j].ok /\ u = row(index', j)
    BY <1>3, Zenon DEF T
  <2>3. i \in Nat /\ j \in Nat
    BY <1>1, <2>1, <2>2
  <2>4. index'[i].at = index'[j].at /\ index'[i].at \in Nat
    <3>1. /\ \A b \in T : b.at \in Nat /\ b.id = b.at
      BY <1>1, Stock, Zenon DEF T
    <3>2. t.at = index'[i].at /\ u.at = index'[j].at
      BY <1>6, <2>1, <2>2
    <3> QED BY <3>1, <3>2, Zenon
  <2>5. ~(i < j) /\ ~(j < i)
    BY <1>1, <2>1, <2>2, <2>4
  <2>6. i = j
    BY <2>3, <2>5
  <2> QED BY <2>1, <2>2, <2>6
<1> QED BY <1>4, <1>5, <1>7, <1>8, <1>9, Zenon DEF Thins, S, T, gone

(* A prune right after a prune deletes nothing.                            *)
THEOREM SecondPruneIdle == Spec => PruneSettles
<1>1. ASSUME Books, ApplyPlan PROVE Doomed(policy, index') = {}
  <2> DEFINE S == Backups(index)
             T == Backups(index')
  <2>1. Doomed(policy, index) # {}
    BY <1>1, Zenon DEF ApplyPlan
  <2>2. Doomed(policy, index) = Plan(policy, S, FALSE)
    BY <2>1, Zenon DEF Doomed, Plan
  <2>3. policy \in Policy
    BY <1>1 DEF Books, Types
  <2>4. Thins(S, T, Plan(policy, S, FALSE))
    BY <1>1, <2>2, ApplyThins, Zenon
  <2>5. {t.id : t \in T} \subseteq KeptIDs(policy, T)
    BY <2>1, <2>2, <2>3, <2>4, NothingToPlan, Zenon
  <2> QED BY <2>5, Zenon DEF Doomed, Plan
<1>2. Books /\ [Next]_vars => [ApplyPlan => Doomed(policy, index') = {}]_vars
  BY <1>1
<1> QED BY <1>2, BooksInit, BooksStep, PTL DEF Spec, PruneSettles
=============================================================================
