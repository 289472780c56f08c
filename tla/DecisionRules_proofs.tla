-------------------------- MODULE DecisionRules_proofs --------------------------
(***************************************************************************)
(* The rules that dum2Cond.py writes split the index space, and the switch *)
(* decides with them as the tree does, for every tree, every greatest      *)
(* value of the features and every unit of the thresholds.  A switch that  *)
(* looks packets up while main.py inserts them, entry by entry, calls no   *)
(* flow CG without reason once the thresholds are there, and decides as    *)
(* the tree does once all are.                                             *)
(***************************************************************************)
EXTENDS Deployment, ModularArithmetic, FiniteSetTheorems, SequenceTheorems,
        WellFoundedInduction

--------------------------------------------------------------------------------
(* Natural numbers: least elements, and induction over a set *)

LEMMA Least ==
  ASSUME NEW T \in SUBSET Nat, T # {}
  PROVE  \E m \in T : \A k \in T : m <= k
<1>1. PICK n \in T : TRUE
  OBVIOUS
<1> DEFINE W == 0 .. n
           F == {0 .. m : m \in {k \in T : k <= n}}
<1>2. IsFiniteSet(W)
  BY FS_Interval
<1>3. IsWellFoundedOn(StrictSubsetOrdering(W), SUBSET W)
  BY <1>2, FS_StrictSubsetOrderingWellFounded, FS_FiniteSubsetsOfFinite
<1>4. F \subseteq SUBSET W /\ F # {}
  <2>1. 0 .. n \in F
    BY <1>1
  <2> QED
    BY <2>1
<1>5. PICK x \in F : \A y \in F : ~ (<<y, x>> \in StrictSubsetOrdering(W))
  <2> HIDE DEF F, W
  <2> QED
    BY <1>3, <1>4, WFMin
<1>6. PICK m \in T : m <= n /\ x = 0 .. m
  BY <1>5
<1>7. ASSUME NEW k \in T PROVE m <= k
  <2>1. SUFFICES ASSUME k < m PROVE FALSE
    BY <1>6
  <2>2. 0 .. k \in F
    BY <1>6, <2>1
  <2>3. 0 .. k \subseteq 0 .. m /\ 0 .. k # 0 .. m
    BY <2>1
  <2>4. <<0 .. k, x>> \in StrictSubsetOrdering(W)
    BY <1>4, <1>6, <2>2, <2>3 DEF StrictSubsetOrdering
  <2> QED
    BY <1>5, <2>2, <2>4
<1> QED
  BY <1>7

LEMMA Induction ==
  ASSUME NEW S, 0 \in S, \A k \in Nat : k \in S => k + 1 \in S
  PROVE  \A k \in Nat : k \in S
<1> DEFINE T == {k \in Nat : k \notin S}
<1>1. SUFFICES ASSUME T # {} PROVE FALSE
  OBVIOUS
<1>2. PICK m \in T : \A k \in T : m <= k
  BY <1>1, Least
<1>3. m # 0 /\ m - 1 \in Nat
  BY <1>2
<1>4. m - 1 \in S
  BY <1>2, <1>3
<1> QED
  BY <1>2, <1>3, <1>4

--------------------------------------------------------------------------------
(* Sorted thresholds *)

\* Selection sort: after k exchanges the k least values come first
LEMMA SortingOrder ==
  ASSUME NEW n \in Nat, NEW s \in [1 .. n -> Nat]
  PROVE  \E p \in Bijection(1 .. n, 1 .. n) : \A i, j \in 1 .. n : i < j => s[p[i]] <= s[p[j]]
<1> DEFINE B == Bijection(1 .. n, 1 .. n)
           First(p, k) == \A i, j \in 1 .. n : i <= k /\ i < j => s[p[i]] <= s[p[j]]
           S == {k \in Nat : \E p \in B : First(p, k)}
<1>1. 0 \in S
  <2>1. [i \in 1 .. n |-> i] \in B
    BY DEF Bijection, Injection, Surjection, IsInjective
  <2>2. First([i \in 1 .. n |-> i], 0)
    OBVIOUS
  <2> QED
    BY <2>1, <2>2
<1>2. ASSUME NEW k \in Nat, k \in S PROVE k + 1 \in S
  <2>1. PICK p \in B : First(p, k)
    BY <1>2
  <2>2. p \in [1 .. n -> 1 .. n]
    BY DEF Bijection, Injection
  <2>3. CASE k + 1 > n
    <3>1. First(p, k + 1)
      BY <2>1, <2>3
    <3> QED
      BY <3>1
  <2>4. CASE k + 1 <= n
    <3> DEFINE M == {s[p[j]] : j \in k + 1 .. n}
    <3>1. M \in SUBSET Nat /\ M # {}
      <4>1. \A j \in k + 1 .. n : p[j] \in 1 .. n
        BY <2>2
      <4>2. \A j \in k + 1 .. n : s[p[j]] \in Nat
        BY <4>1
      <4>3. k + 1 \in k + 1 .. n
        BY <2>4
      <4> QED
        BY <4>2, <4>3
    <3>2. PICK m \in M : \A x \in M : m <= x
      BY <3>1, Least
    <3>3. PICK q \in k + 1 .. n : m = s[p[q]]
      BY <3>2
    <3> DEFINE r == [i \in 1 .. n |-> IF i = k + 1 THEN p[q] ELSE IF i = q THEN p[k + 1] ELSE p[i]]
    <3>4. r \in [1 .. n -> 1 .. n]
      <4>1. k + 1 \in 1 .. n /\ q \in 1 .. n
        BY <2>4
      <4>2. \A i \in 1 .. n : p[i] \in 1 .. n
        BY <2>2
      <4> QED
        BY <4>1, <4>2
    <3>5. ASSUME NEW i \in 1 .. n, NEW j \in 1 .. n, r[i] = r[j] PROVE i = j
      <4>1. \A x, y \in 1 .. n : p[x] = p[y] => x = y
        BY DEF Bijection, Injection, IsInjective
      <4> QED
        BY <4>1, <3>5, <2>4
    <3>6. ASSUME NEW y \in 1 .. n PROVE \E x \in 1 .. n : r[x] = y
      <4>1. PICK z \in 1 .. n : p[z] = y
        BY DEF Bijection, Surjection
      <4>2. CASE z = k + 1
        BY <4>1, <4>2, <2>4
      <4>3. CASE z = q
        BY <4>1, <4>3, <2>4
      <4>4. CASE z # q /\ z # k + 1
        BY <4>1, <4>4
      <4> QED
        BY <4>2, <4>3, <4>4
    <3>7. r \in B
      <4> HIDE DEF r
      <4> QED
        BY <3>4, <3>5, <3>6 DEF Bijection, Injection, Surjection, IsInjective
    <3>8. ASSUME NEW i \in 1 .. n, NEW j \in 1 .. n, i <= k + 1, i < j
          PROVE  s[r[i]] <= s[r[j]]
      <4>1. CASE i = k + 1
        <5>1. s[r[j]] \in M
          BY <4>1, <3>8, <2>4
        <5> QED
          BY <5>1, <4>1, <3>2, <3>3
      <4>2. CASE i <= k
        <5>1. PICK z \in 1 .. n : r[j] = p[z] /\ i < z
          BY <4>2, <3>8, <2>4
        <5>2. r[i] = p[i]
          BY <4>2
        <5> QED
          BY <5>1, <5>2, <2>1, <4>2
      <4> QED
        BY <4>1, <4>2, <3>8
    <3>9. First(r, k + 1)
      <4> HIDE DEF r
      <4> QED
        BY <3>8
    <3> HIDE DEF r, First, B
    <3> QED
      BY <3>7, <3>9
  <2> QED
    BY <2>3, <2>4
<1>3. n \in S
  <2> HIDE DEF S
  <2> QED
    BY <1>1, <1>2, Induction
<1> QED
  BY <1>3

LEMMA SortedFacts ==
  ASSUME NEW s \in Seq(Nat)
  PROVE  /\ Sorted(s) \in [1 .. Len(s) -> Nat]
         /\ \A i, j \in 1 .. Len(s) : i < j => Sorted(s)[i] <= Sorted(s)[j]
         /\ \A i \in 1 .. Len(s) : \E j \in 1 .. Len(s) : Sorted(s)[i] = s[j]
         /\ \A j \in 1 .. Len(s) : \E i \in 1 .. Len(s) : Sorted(s)[i] = s[j]
<1> DEFINE n == Len(s)
           orders == {[i \in 1 .. n |-> s[p[i]]] : p \in Bijection(1 .. n, 1 .. n)}
<1>1. n \in Nat /\ s \in [1 .. n -> Nat] /\ DOMAIN s = 1 .. n
  OBVIOUS
<1>2. PICK p \in Bijection(1 .. n, 1 .. n) : \A i, j \in 1 .. n : i < j => s[p[i]] <= s[p[j]]
  <2> HIDE DEF n
  <2> QED
    BY <1>1, SortingOrder
<1>3. \E o \in orders : \A i, j \in 1 .. n : i < j => o[i] <= o[j]
  <2> DEFINE o == [i \in 1 .. n |-> s[p[i]]]
  <2>1. o \in orders
    OBVIOUS
  <2>2. \A i, j \in 1 .. n : i < j => o[i] <= o[j]
    BY <1>2
  <2> HIDE DEF o, orders
  <2> QED
    BY <2>1, <2>2
<1>4. Sorted(s) = CHOOSE o \in orders : \A i, j \in 1 .. n : i < j => o[i] <= o[j]
  <2> HIDE DEF n
  <2> QED
    BY <1>1 DEF Sorted
<1>5. Sorted(s) \in orders /\ \A i, j \in 1 .. n : i < j => Sorted(s)[i] <= Sorted(s)[j]
  <2> HIDE DEF orders, n
  <2> QED
    BY <1>3, <1>4
<1>6. PICK q \in Bijection(1 .. n, 1 .. n) : Sorted(s) = [i \in 1 .. n |-> s[q[i]]]
  BY <1>5
<1>7. q \in [1 .. n -> 1 .. n] /\ \A j \in 1 .. n : \E i \in 1 .. n : q[i] = j
  BY <1>6 DEF Bijection, Injection, Surjection
<1> HIDE DEF orders, n
<1>8. Sorted(s) \in [1 .. n -> Nat]
  BY <1>1, <1>6, <1>7
<1>9. \A i \in 1 .. n : \E j \in 1 .. n : Sorted(s)[i] = s[j]
  BY <1>6, <1>7
<1>10. ASSUME NEW j \in 1 .. n PROVE \E i \in 1 .. n : Sorted(s)[i] = s[j]
  <2>1. PICK i \in 1 .. n : q[i] = j
    BY <1>7
  <2>2. Sorted(s)[i] = s[j]
    BY <1>6, <2>1
  <2> QED
    BY <2>2
<1> QED
  BY <1>5, <1>8, <1>9, <1>10 DEF n

\* The thresholds of a feature as Sort_Feats_Thresh leaves them
Bounds(f, T) ==
  /\ T \in Seq(Nat)
  /\ Len(T) >= 2
  /\ T[1] = 0
  /\ T[Len(T)] = FTS_MAX[f] * Scale
  /\ \A i \in 2 .. Len(T) - 1 : T[i] > 0
  /\ \A i, j \in 1 .. Len(T) - 1 : i <= j => T[i] <= T[j]

\* thr is one of them, between 0 and the greatest value
Holds(T, thr) == \E i \in 2 .. Len(T) - 1 : T[i] = thr

LEMMA BoundedFacts ==
  ASSUME NEW f \in Feature, NEW thrs \in Seq(Nat \ {0})
  PROVE  /\ Bounds(f, Bounded(f, thrs))
         /\ Len(Bounded(f, thrs)) = Len(thrs) + 2
         /\ \A i \in 1 .. Len(thrs) : Holds(Bounded(f, thrs), thrs[i])
<1> DEFINE n == Len(thrs)
           S == Sorted(thrs)
           m == FTS_MAX[f] * Scale
           T == Bounded(f, thrs)
<1>1. thrs \in Seq(Nat) /\ n \in Nat /\ \A i \in 1 .. n : thrs[i] \in Nat \ {0}
  OBVIOUS
<1>2. S \in [1 .. n -> Nat]
  BY <1>1, SortedFacts
<1>3. \A i, j \in 1 .. n : i < j => S[i] <= S[j]
  BY <1>1, SortedFacts
<1>4. \A i \in 1 .. n : S[i] \in Nat \ {0}
  BY <1>1, SortedFacts, ZenonT(30)
<1>5. \A j \in 1 .. n : \E i \in 1 .. n : S[i] = thrs[j]
  BY <1>1, SortedFacts
<1>6. m \in Nat
  <2>1. FTS_MAX[f] \in Nat /\ Scale \in Nat
    BY TreeAssumption
  <2>2. \A a, b \in Nat : a * b \in Nat
    OBVIOUS
  <2> QED
    BY <2>1, <2>2
<1> HIDE DEF n, S, m
<1>7. S \in Seq(Nat) /\ Len(S) = n
  BY <1>1, <1>2
<1>8. T = <<0>> \o S \o <<m>>
  BY DEF Bounded, S, m
<1>9. T \in Seq(Nat) /\ Len(T) = n + 2
  BY <1>1, <1>6, <1>7, <1>8
<1>10. T[1] = 0 /\ T[n + 2] = m /\ \A i \in 2 .. n + 1 : T[i] = S[i - 1]
  BY <1>1, <1>6, <1>7, <1>8
<1> HIDE DEF T
<1>11. \A i \in 2 .. n + 1 : T[i] > 0
  BY <1>1, <1>4, <1>10
<1>12. ASSUME NEW i \in 1 .. n + 1, NEW j \in 1 .. n + 1, i <= j PROVE T[i] <= T[j]
  <2>1. CASE i = 1 \/ i = j
    BY <2>1, <1>1, <1>9, <1>10, <1>11
  <2>2. CASE i > 1 /\ i < j
    <3>1. i - 1 \in 1 .. n /\ j - 1 \in 1 .. n /\ i - 1 < j - 1
      BY <1>1, <2>2
    <3>2. S[i - 1] <= S[j - 1]
      BY <3>1, <1>3
    <3> QED
      BY <3>2, <2>2, <1>1, <1>10
  <2> QED
    BY <2>1, <2>2, <1>12, <1>1
<1>13. ASSUME NEW j \in 1 .. n PROVE Holds(T, thrs[j])
  <2>1. PICK i \in 1 .. n : S[i] = thrs[j]
    BY <1>5
  <2>2. i + 1 \in 2 .. n + 1 /\ T[i + 1] = thrs[j]
    BY <2>1, <1>1, <1>10
  <2> QED
    BY <2>2, <1>1, <1>9 DEF Holds
<1>14. Bounds(f, T)
  BY <1>1, <1>9, <1>10, <1>11, <1>12 DEF Bounds, m
<1> QED
  BY <1>9, <1>13, <1>14 DEF T, n

\* What index() gives for a threshold of the tree
LEMMA IndexOfFacts ==
  ASSUME NEW f, NEW T, Bounds(f, T), NEW thr \in Nat, Holds(T, thr)
  PROVE  /\ IndexOf(T, thr) \in 1 .. Len(T) - 2
         /\ T[IndexOf(T, thr) + 1] = thr
         /\ \A j \in 1 .. Len(T) : T[j] = thr => IndexOf(T, thr) + 1 <= j
<1> DEFINE P == {i \in DOMAIN T : T[i] = thr}
<1>1. T \in Seq(Nat) /\ Len(T) \in Nat /\ DOMAIN T = 1 .. Len(T)
  BY DEF Bounds
<1>2. P \in SUBSET Nat /\ P # {}
  BY <1>1 DEF Holds
<1>3. \E m \in P : \A k \in P : m <= k
  <2> HIDE DEF P
  <2> QED
    BY <1>2, Least
<1>4. Min(P) \in P /\ \A k \in P : Min(P) <= k
  <2> HIDE DEF P
  <2> QED
    BY <1>3 DEF Min
<1>5. PICK i \in 2 .. Len(T) - 1 : T[i] = thr
  BY DEF Holds
<1>6. Min(P) <= i /\ Min(P) \in 1 .. Len(T)
  BY <1>1, <1>4, <1>5
<1>7. Min(P) # 1
  BY <1>4, <1>5, <1>1 DEF Bounds
<1>8. Min(P) \in 2 .. Len(T) - 1
  <2> HIDE DEF P
  <2> QED
    BY <1>1, <1>5, <1>6, <1>7
<1>9. IndexOf(T, thr) = Min(P) - 1
  BY DEF IndexOf
<1>10. \A j \in 1 .. Len(T) : T[j] = thr => Min(P) <= j
  BY <1>1, <1>4
<1>11. T[Min(P)] = thr
  BY <1>4
<1> DEFINE m == Min(P)
           k == IndexOf(T, thr)
<1> HIDE DEF P, m, k
<1>12. m \in 2 .. Len(T) - 1 /\ k = m - 1 /\ T[m] = thr
  BY <1>8, <1>9, <1>11 DEF m, k
<1>13. k \in 1 .. Len(T) - 2 /\ k + 1 = m
  BY <1>1, <1>12
<1> QED
  BY <1>10, <1>12, <1>13 DEF m, k

LEMMA IndexOfRises ==
  ASSUME NEW f, NEW T, Bounds(f, T), NEW a \in Nat, Holds(T, a), NEW b \in Nat, Holds(T, b), a < b
  PROVE  IndexOf(T, a) < IndexOf(T, b)
<1> DEFINE i == IndexOf(T, a)
           j == IndexOf(T, b)
<1>1. i \in 1 .. Len(T) - 2 /\ T[i + 1] = a /\ j \in 1 .. Len(T) - 2 /\ T[j + 1] = b
  BY IndexOfFacts
<1>2. Len(T) \in Nat /\ \A x, y \in 1 .. Len(T) - 1 : x <= y => T[x] <= T[y]
  BY DEF Bounds
<1> HIDE DEF i, j
<1>3. SUFFICES ASSUME j <= i PROVE FALSE
  BY <1>1, <1>2 DEF i, j
<1> QED
  BY <1>1, <1>2, <1>3

--------------------------------------------------------------------------------
(* The range a value falls in *)

LEMMA Cut ==
  ASSUME NEW m \in Nat \ {0}, NEW x \in Int, NEW a \in Int
  PROVE  x * m <= a <=> x <= a \div m
<1> DEFINE p == a \div m
<1>1. p \in Int /\ a % m \in 0 .. m - 1 /\ a = m * p + (a % m)
  BY DivMod
<1> HIDE DEF p
<1>2. ASSUME x <= p PROVE x * m <= a
  <2>1. m * (p - x) >= 0
    BY <1>1, <1>2
  <2>2. m * (p - x) = m * p - x * m
    BY <1>1
  <2> QED
    BY <1>1, <2>1, <2>2
<1>3. ASSUME x >= p + 1 PROVE x * m > a
  <2>1. m * (x - p - 1) >= 0
    BY <1>1, <1>3
  <2>2. m * (x - p - 1) = x * m - m * p - m
    BY <1>1
  <2> QED
    BY <1>1, <2>1, <2>2
<1>4. x <= p \/ x >= p + 1
  BY <1>1
<1> QED
  BY <1>1, <1>2, <1>3, <1>4 DEF p

LEMMA CutMonotone ==
  ASSUME NEW m \in Nat \ {0}, NEW a \in Int, NEW b \in Int, a <= b
  PROVE  a \div m <= b \div m
<1> DEFINE p == a \div m
<1>1. p \in Int
  BY DivMod
<1>2. p * m <= a
  <2> HIDE DEF p
  <2> QED
    BY <1>1, Cut DEF p
<1>3. p * m \in Int
  <2> HIDE DEF p
  <2> QED
    BY <1>1
<1>4. p * m <= b
  BY <1>2, <1>3
<1> HIDE DEF p
<1>5. p <= b \div m
  BY <1>1, <1>4, Cut
<1> QED
  BY <1>5 DEF p

\* The indexes of the ranges of T that x is in
Picks(T, x) == {r.index : r \in {q \in Ranges(T) : x \in q.lo .. q.hi}}

LEMMA CutTypes ==
  ASSUME NEW f, NEW T, Bounds(f, T)
  PROVE  \A j \in 1 .. Len(T) : T[j] \div Scale \in Int
<1>1. Scale \in Nat \ {0}
  BY TreeAssumption
<1>2. ASSUME NEW j \in 1 .. Len(T) PROVE T[j] \in Int
  BY DEF Bounds
<1>3. ASSUME NEW j \in 1 .. Len(T) PROVE T[j] \div Scale \in Int
  BY <1>1, <1>2, DivMod
<1> QED
  BY <1>3

LEMMA PickIff ==
  ASSUME NEW f, NEW T, Bounds(f, T), NEW x \in Nat, NEW i
  PROVE  i \in Picks(T, x) <=>
           i \in 1 .. Len(T) - 1 /\ T[i] \div Scale <= x /\ x <= T[i + 1] \div Scale
<1> DEFINE lo(j) == T[j] \div Scale
           hi(j) == T[j + 1] \div Scale
<1>1. Scale \in Nat \ {0}
  BY TreeAssumption
<1>2. Len(T) \in Nat /\ \A j \in 1 .. Len(T) : T[j] \in Nat
  BY DEF Bounds
<1>3. \A j \in 1 .. Len(T) - 1 : lo(j) \in Int /\ hi(j) \in Int
  BY <1>2, CutTypes
<1>4. Ranges(T) = {[lo |-> lo(j), hi |-> hi(j), index |-> j] : j \in 1 .. Len(T) - 1}
  BY DEF Ranges
<1> HIDE DEF lo, hi
<1>5. i \in Picks(T, x) <=> \E j \in 1 .. Len(T) - 1 : i = j /\ x \in lo(j) .. hi(j)
  <2>1. ASSUME i \in Picks(T, x)
        PROVE  \E j \in 1 .. Len(T) - 1 : i = j /\ x \in lo(j) .. hi(j)
    <3>1. PICK r \in Ranges(T) : x \in r.lo .. r.hi /\ i = r.index
      BY <2>1 DEF Picks
    <3>2. PICK j \in 1 .. Len(T) - 1 : r = [lo |-> lo(j), hi |-> hi(j), index |-> j]
      BY <1>4
    <3>3. r.lo = lo(j) /\ r.hi = hi(j) /\ r.index = j
      BY <3>2
    <3> QED
      BY <3>1, <3>3
  <2>2. ASSUME NEW j \in 1 .. Len(T) - 1, i = j, x \in lo(j) .. hi(j)
        PROVE  i \in Picks(T, x)
    <3> DEFINE r == [lo |-> lo(j), hi |-> hi(j), index |-> j]
    <3>1. r \in Ranges(T)
      BY <1>4
    <3>2. r.lo = lo(j) /\ r.hi = hi(j) /\ r.index = j
      OBVIOUS
    <3> HIDE DEF r
    <3> QED
      BY <2>2, <3>1, <3>2 DEF Picks
  <2> QED
    BY <2>1, <2>2
<1>6. \A j \in 1 .. Len(T) - 1 : x \in lo(j) .. hi(j) <=> lo(j) <= x /\ x <= hi(j)
  BY <1>3
<1> QED
  BY <1>5, <1>6 DEF lo, hi

\* Within the greatest value a range is found, and the first of them tells on which
\* side of every threshold the value is
LEMMA FirstPickFacts ==
  ASSUME NEW f \in Feature, NEW T, Bounds(f, T), NEW x \in Nat, x <= FTS_MAX[f]
  PROVE  /\ Picks(T, x) # {}
         /\ Min(Picks(T, x)) \in 1 .. Len(T) - 1
         /\ \A thr \in Nat : Holds(T, thr) =>
              (x * Scale <= thr <=> Min(Picks(T, x)) <= IndexOf(T, thr))
<1> DEFINE n == Len(T)
           cut(j) == T[j] \div Scale
           J == {j \in 2 .. n : x <= cut(j)}
<1>1. Scale \in Nat \ {0} /\ FTS_MAX[f] \in Nat
  BY TreeAssumption
<1>2. n \in Nat /\ n >= 2 /\ T[1] = 0 /\ \A j \in 1 .. n : T[j] \in Nat
  BY DEF Bounds
<1>3. \A i, j \in 1 .. n - 1 : i <= j => T[i] <= T[j]
  BY DEF Bounds
<1>4. \A j \in 1 .. n : cut(j) \in Int
  BY <1>2, CutTypes
<1>5. n \in J
  <2>1. x * Scale <= FTS_MAX[f] * Scale
    BY <1>1
  <2>2. x * Scale <= T[n]
    BY <2>1 DEF Bounds
  <2>3. T[n] \in Int
    BY <1>2
  <2>4. x <= cut(n)
    BY <2>2, <2>3, <1>1, Cut
  <2> QED
    BY <2>4, <1>2
<1>6. PICK j \in J : \A k \in J : j <= k
  <2>1. J \in SUBSET Nat /\ J # {}
    BY <1>5, <1>2
  <2> HIDE DEF J
  <2> QED
    BY <2>1, Least
<1>7. j \in 2 .. n /\ x <= cut(j) /\ \A k \in 2 .. n : x <= cut(k) => j <= k
  BY <1>6
<1>8. cut(1) = 0
  BY <1>1, <1>2, DivUnique
<1> HIDE DEF n, cut, J
<1>9. cut(j - 1) <= x
  <2>1. CASE j = 2
    BY <2>1, <1>8
  <2>2. CASE j > 2
    <3>1. j - 1 \in 2 .. n /\ ~(j <= j - 1)
      BY <2>2, <1>7, <1>2
    <3>2. ~(x <= cut(j - 1))
      BY <3>1, <1>7
    <3>3. cut(j - 1) \in Int
      BY <3>1, <1>4, <1>2
    <3> QED
      BY <3>2, <3>3
  <2> QED
    BY <2>1, <2>2, <1>7, <1>2
<1>10. \A i : i \in Picks(T, x) <=> i \in 1 .. n - 1 /\ cut(i) <= x /\ x <= cut(i + 1)
  BY PickIff DEF n, cut
<1>11. j - 1 \in Picks(T, x)
  BY <1>2, <1>7, <1>9, <1>10
<1>12. ASSUME NEW i \in Picks(T, x) PROVE i \in 1 .. n - 1 /\ j - 1 <= i
  <2>1. i \in 1 .. n - 1 /\ x <= cut(i + 1)
    BY <1>10
  <2>2. i + 1 \in 2 .. n
    BY <2>1, <1>2
  <2> QED
    BY <2>1, <2>2, <1>7, <1>2
<1>13. Min(Picks(T, x)) = j - 1
  <2>1. \E m \in Picks(T, x) : \A k \in Picks(T, x) : m <= k
    BY <1>11, <1>12
  <2>2. Min(Picks(T, x)) \in Picks(T, x) /\ Min(Picks(T, x)) <= j - 1
    BY <2>1, <1>11 DEF Min
  <2> QED
    BY <2>2, <1>12, <1>7, <1>2
<1>14. ASSUME NEW thr \in Nat, Holds(T, thr)
       PROVE  x * Scale <= thr <=> j - 1 <= IndexOf(T, thr)
  <2> DEFINE k == IndexOf(T, thr) + 1
  <2>1. k \in 2 .. n - 1 /\ T[k] = thr
    BY <1>14, <1>2, IndexOfFacts DEF n
  <2>2. IndexOf(T, thr) \in Int
    BY <1>14, <1>2, IndexOfFacts DEF n
  <2>3. j - 1 <= IndexOf(T, thr) <=> j <= k
    BY <2>2, <1>7, <1>2
  <2> HIDE DEF k
  <2>4. x * Scale <= thr <=> x <= cut(k)
    BY <2>1, <1>1, Cut DEF cut
  <2>5. ASSUME x <= cut(k) PROVE j <= k
    BY <2>1, <2>5, <1>7, <1>2
  <2>6. ASSUME j <= k PROVE x <= cut(k)
    <3>1. j \in 1 .. n - 1 /\ k \in 1 .. n - 1
      BY <2>1, <2>6, <1>7, <1>2
    <3>2. T[j] <= T[k] /\ T[j] \in Int /\ T[k] \in Int
      BY <3>1, <2>6, <1>2, <1>3
    <3>3. cut(j) <= cut(k)
      BY <3>2, <1>1, CutMonotone DEF cut
    <3>4. cut(j) \in Int /\ cut(k) \in Int
      BY <3>1, <1>4, <1>2
    <3> QED
      BY <3>3, <3>4, <1>7
  <2> QED
    BY <2>3, <2>4, <2>5, <2>6
<1> QED
  BY <1>2, <1>7, <1>11, <1>13, <1>14 DEF n

\* Off the bounds, every range that is found does
LEMMA AnyPickFacts ==
  ASSUME NEW f \in Feature, NEW T, Bounds(f, T), NEW x \in Nat,
         \A i \in 1 .. Len(T) : x # T[i] \div Scale,
         NEW i \in Picks(T, x), NEW thr \in Nat, Holds(T, thr)
  PROVE  x * Scale <= thr <=> i <= IndexOf(T, thr)
<1> DEFINE n == Len(T)
           cut(j) == T[j] \div Scale
           k == IndexOf(T, thr) + 1
<1>1. Scale \in Nat \ {0}
  BY TreeAssumption
<1>2. n \in Nat /\ n >= 2 /\ \A j \in 1 .. n : T[j] \in Nat
  BY DEF Bounds
<1>3. \A a, b \in 1 .. n - 1 : a <= b => T[a] <= T[b]
  BY DEF Bounds
<1>4. \A j \in 1 .. n : cut(j) \in Int
  BY <1>2, CutTypes
<1>5. \A j \in 1 .. n : x # cut(j)
  OBVIOUS
<1>6. k \in 2 .. n - 1 /\ T[k] = thr
  BY <1>2, IndexOfFacts
<1>7. IndexOf(T, thr) \in Int
  BY <1>2, IndexOfFacts
<1>8. x * Scale <= thr <=> x <= cut(k)
  <2>1. T[k] \in Int /\ cut(k) = T[k] \div Scale
    BY <1>2, <1>6
  <2> DEFINE a == T[k]
  <2> HIDE DEF a
  <2>2. x * Scale <= a <=> x <= a \div Scale
    <3>1. Scale \in Nat \ {0} /\ x \in Int /\ a \in Int
      BY <1>1, <2>1 DEF a
    <3> QED
      BY ONLY <3>1, Cut, SMTT(30)
  <2> QED
    BY <1>6, <2>1, <2>2 DEF a
<1>9. i \in 1 .. n - 1 /\ cut(i) <= x /\ x <= cut(i + 1)
  BY PickIff
<1>10. i <= IndexOf(T, thr) <=> i + 1 <= k
  BY <1>7, <1>9, <1>2
<1> HIDE DEF n, k
<1>11. ASSUME i + 1 <= k PROVE x <= cut(k)
  <2>1. i + 1 \in 1 .. n - 1 /\ k \in 1 .. n - 1
    BY <1>2, <1>6, <1>9, <1>11
  <2>2. T[i + 1] <= T[k] /\ T[i + 1] \in Int /\ T[k] \in Int
    BY <2>1, <1>11, <1>2, <1>3
  <2>3. cut(i + 1) <= cut(k)
    BY <2>2, <1>1, CutMonotone
  <2>4. cut(i + 1) \in Int /\ cut(k) \in Int
    BY <2>1, <1>2, <1>4
  <2> HIDE DEF cut
  <2> QED
    BY <2>3, <2>4, <1>9
<1>12. ASSUME k <= i PROVE ~(x <= cut(k))
  <2>1. i \in 1 .. n - 1 /\ k \in 1 .. n - 1
    BY <1>2, <1>6, <1>9
  <2>2. T[k] <= T[i] /\ T[k] \in Int /\ T[i] \in Int
    BY <2>1, <1>12, <1>2, <1>3
  <2>3. cut(k) <= cut(i)
    BY <2>2, <1>1, CutMonotone
  <2>4. cut(i) \in Int /\ cut(k) \in Int /\ x # cut(i)
    BY <2>1, <1>2, <1>4, <1>5
  <2> HIDE DEF cut
  <2> QED
    BY <2>3, <2>4, <1>9
<1>13. i + 1 <= k \/ k <= i
  BY <1>6, <1>9, <1>2
<1> QED
  BY <1>8, <1>10, <1>11, <1>12, <1>13
--------------------------------------------------------------------------------
(* The decision of a tree *)

LEMMA TreeTypes ==
  ASSUME NEW t \in Trees
  PROVE  /\ \E last \in Nat : DOMAIN t = 0 .. last
         /\ 0 \in DOMAIN t
         /\ \A n \in DOMAIN t : n \in Nat /\ t[n].cg \in BOOLEAN
         /\ \A n \in DOMAIN t : t[n].ft >= 0 =>
              /\ t[n].ft \in Feature
              /\ t[n].thr \in Nat \ {0}
              /\ t[n].left \in DOMAIN t /\ t[n].left > n
              /\ t[n].right \in DOMAIN t /\ t[n].right > n
<1>1. PICK last \in DOMAIN t : last \in Nat /\ DOMAIN t = 0 .. last
  BY TreeAssumption
<1>2. \A n \in DOMAIN t :
        /\ t[n].cg \in BOOLEAN
        /\ t[n].ft >= 0 => /\ t[n].ft \in Feature
                           /\ t[n].thr \in Nat \ {0}
                           /\ {t[n].left, t[n].right} \subseteq {m \in DOMAIN t : m > n}
  BY TreeAssumption
<1> QED
  BY <1>1, <1>2

\* What a node decides, given what its children do
Local(t, v, d, n) ==
  IF t[n].ft >= 0
  THEN IF v[t[n].ft] * Scale <= t[n].thr THEN d[t[n].left] ELSE d[t[n].right]
  ELSE t[n].cg

\* Node after node, from the last to the root, a tree decides every vector
LEMMA DecisionExists ==
  ASSUME NEW t \in Trees, NEW v
  PROVE  \E d : d = [n \in DOMAIN t |-> Local(t, v, d, n)]
<1>1. PICK last \in Nat : DOMAIN t = 0 .. last
  BY TreeTypes
<1> DEFINE Partial(k, d) == \A n \in k .. last : d[n] = Local(t, v, d, n)
           S == {j \in Nat : j <= last + 1 =>
                   \E d \in [last + 1 - j .. last -> BOOLEAN] : Partial(last + 1 - j, d)}
<1>2. 0 \in S
  <2>1. last + 1 - 0 .. last = {}
    OBVIOUS
  <2>2. \E d \in [{} -> BOOLEAN] : TRUE
    <3>1. [x \in {} |-> TRUE] \in [{} -> BOOLEAN]
      OBVIOUS
    <3> QED
      BY <3>1
  <2>3. \A d : Partial(last + 1 - 0, d)
    BY <2>1
  <2>4. \E d \in [last + 1 - 0 .. last -> BOOLEAN] : Partial(last + 1 - 0, d)
    BY <2>1, <2>2, <2>3
  <2> QED
    BY <2>4
<1>3. ASSUME NEW j \in Nat, j \in S PROVE j + 1 \in S
  <2>1. SUFFICES ASSUME j + 1 <= last + 1
                 PROVE  \E d \in [last - j .. last -> BOOLEAN] : Partial(last - j, d)
    <3>1. last + 1 - (j + 1) = last - j
      OBVIOUS
    <3> HIDE DEF Partial
    <3> QED
      BY <3>1
  <2> DEFINE k == last - j
  <2>2. k \in Nat /\ k <= last /\ last + 1 - j = k + 1
    BY <2>1
  <2>3. PICK d \in [k + 1 .. last -> BOOLEAN] : Partial(k + 1, d)
    <3>1. \E d \in [last + 1 - j .. last -> BOOLEAN] : Partial(last + 1 - j, d)
      BY <1>3, <2>1
    <3> QED
      BY <3>1, <2>2
  <2> HIDE DEF k
  <2> DEFINE e == [n \in k .. last |-> IF n = k THEN Local(t, v, d, k) ELSE d[n]]
  <2>4. ASSUME NEW n \in k .. last PROVE Local(t, v, e, n) = Local(t, v, d, n)
    <3>1. n \in DOMAIN t /\ n \in Int
      BY <1>1, <2>2
    <3>2. CASE t[n].ft >= 0
      <4>1. t[n].left \in k + 1 .. last /\ t[n].right \in k + 1 .. last
        BY <3>1, <3>2, <1>1, <2>2, TreeTypes
      <4>2. e[t[n].left] = d[t[n].left] /\ e[t[n].right] = d[t[n].right]
        BY <4>1, <2>2
      <4> HIDE DEF e
      <4> QED
        BY <4>2, <3>2 DEF Local
    <3>3. CASE ~(t[n].ft >= 0)
      BY <3>3 DEF Local
    <3> QED
      BY <3>2, <3>3
  <2>5. Local(t, v, d, k) \in BOOLEAN
    <3>1. k \in DOMAIN t
      BY <1>1, <2>2
    <3>2. CASE t[k].ft >= 0
      <4>1. t[k].left \in k + 1 .. last /\ t[k].right \in k + 1 .. last
        BY <3>1, <3>2, <1>1, <2>2, TreeTypes
      <4>2. d[t[k].left] \in BOOLEAN /\ d[t[k].right] \in BOOLEAN
        BY <4>1
      <4> QED
        BY <4>2, <3>2 DEF Local
    <3>3. CASE ~(t[k].ft >= 0)
      BY <3>1, <3>3, TreeTypes DEF Local
    <3> QED
      BY <3>2, <3>3
  <2>6. e \in [k .. last -> BOOLEAN]
    <3> HIDE DEF Partial
    <3> QED
      BY <2>2, <2>5
  <2>7. ASSUME NEW n \in k .. last PROVE e[n] = Local(t, v, e, n)
    <3>1. CASE n = k
      BY <3>1, <2>4
    <3>2. CASE n # k
      <4>1. n \in k + 1 .. last
        BY <3>2, <2>2
      <4>2. d[n] = Local(t, v, d, n)
        BY <4>1, <2>3
      <4>3. e[n] = d[n]
        BY <3>2
      <4> QED
        BY <4>2, <4>3, <2>4
    <3> QED
      BY <3>1, <3>2
  <2>8. Partial(k, e)
    <3> HIDE DEF e
    <3> QED
      BY <2>7
  <2> HIDE DEF e, Partial
  <2> QED
    BY <2>6, <2>8 DEF k
<1>4. last + 1 \in S
  <2> HIDE DEF S
  <2> QED
    BY <1>2, <1>3, Induction
<1>5. \E d \in [0 .. last -> BOOLEAN] : Partial(0, d)
  <2>1. last + 1 - (last + 1) = 0 /\ last + 1 <= last + 1
    OBVIOUS
  <2> HIDE DEF Partial
  <2> QED
    BY <1>4, <2>1
<1>6. PICK d \in [0 .. last -> BOOLEAN] : Partial(0, d)
  BY <1>5
<1>7. d = [n \in DOMAIN t |-> Local(t, v, d, n)]
  BY <1>1, <1>6
<1> QED
  BY <1>7

LEMMA DecisionStep ==
  ASSUME NEW t \in Trees, NEW v, NEW n \in DOMAIN t
  PROVE  Decision(t, v)[n] =
           IF t[n].ft >= 0
           THEN IF v[t[n].ft] * Scale <= t[n].thr
                THEN Decision(t, v)[t[n].left] ELSE Decision(t, v)[t[n].right]
           ELSE t[n].cg
<1>1. \E d : d = [m \in DOMAIN t |-> Local(t, v, d, m)]
  BY DecisionExists
<1>2. Decision(t, v) = CHOOSE d : d = [m \in DOMAIN t |-> Local(t, v, d, m)]
  BY DEF Decision, Local
<1>3. Decision(t, v) = [m \in DOMAIN t |-> Local(t, v, Decision(t, v), m)]
  BY <1>1, <1>2
<1>4. Decision(t, v)[n] = Local(t, v, Decision(t, v), n)
  BY <1>3
<1> QED
  BY <1>4 DEF Local

--------------------------------------------------------------------------------
(* Dictionaries of intervals *)

Dictionary == UNION {[S -> Nat \X Nat] : S \in SUBSET Feature}

Empty == [f \in {} |-> <<>>]

Low(d, f) == IF f \in DOMAIN d THEN d[f][1] ELSE 0

High(thrs, d, f) == IF f \in DOMAIN d THEN d[f][2] ELSE Len(thrs[f]) - 1

\* The dictionaries that the node n passes to its two children
LeftOf(thrs, d, n) == With(d, n.ft, <<Low(d, n.ft), IndexOf(thrs[n.ft], n.thr)>>)

RightOf(thrs, d, n) == With(d, n.ft, <<IndexOf(thrs[n.ft], n.thr) + 1, High(thrs, d, n.ft)>>)

\* Its intervals are ranges of indexes
Sound(thrs, d) == \A f \in DOMAIN d : d[f][1] <= d[f][2] /\ d[f][2] < Len(thrs[f])

Fits(d, ix) == \A f \in DOMAIN d : d[f][1] <= ix[f] /\ ix[f] <= d[f][2]

LEMMA DictionaryTypes ==
  ASSUME NEW d
  PROVE  d \in Dictionary <=> /\ DOMAIN d \subseteq Feature
                              /\ d = [f \in DOMAIN d |-> d[f]]
                              /\ \A f \in DOMAIN d : d[f] \in Nat \X Nat
<1>1. ASSUME d \in Dictionary
      PROVE  /\ DOMAIN d \subseteq Feature
             /\ d = [f \in DOMAIN d |-> d[f]]
             /\ \A f \in DOMAIN d : d[f] \in Nat \X Nat
  <2>1. PICK S \in SUBSET Feature : d \in [S -> Nat \X Nat]
    BY <1>1 DEF Dictionary
  <2> QED
    BY <2>1
<1>2. ASSUME DOMAIN d \subseteq Feature, d = [f \in DOMAIN d |-> d[f]],
             \A f \in DOMAIN d : d[f] \in Nat \X Nat
      PROVE  d \in Dictionary
  <2>1. d \in [DOMAIN d -> Nat \X Nat]
    BY <1>2
  <2> QED
    BY <1>2, <2>1 DEF Dictionary
<1> QED
  BY <1>1, <1>2

LEMMA EmptyFacts ==
  /\ Empty \in Dictionary
  /\ DOMAIN Empty = {}
  /\ \A ix : Fits(Empty, ix)
  /\ \A thrs : Sound(thrs, Empty)
<1>1. DOMAIN Empty = {} /\ Empty = [f \in DOMAIN Empty |-> Empty[f]]
  BY DEF Empty
<1>2. Empty \in Dictionary
  BY <1>1, DictionaryTypes
<1> QED
  BY <1>1, <1>2 DEF Fits, Sound

LEMMA WithFacts ==
  ASSUME NEW d \in Dictionary, NEW f \in Feature, NEW i \in Nat \X Nat, NEW e, e = With(d, f, i)
  PROVE  /\ e \in Dictionary
         /\ DOMAIN e = DOMAIN d \cup {f}
         /\ e[f] = i
         /\ \A g \in DOMAIN d : g # f => e[g] = d[g]
<1>1. DOMAIN d \subseteq Feature /\ \A g \in DOMAIN d : d[g] \in Nat \X Nat
  BY DictionaryTypes
<1>2. e = [g \in DOMAIN d \cup {f} |-> IF g = f THEN i ELSE d[g]]
  BY DEF With
<1>3. /\ DOMAIN e = DOMAIN d \cup {f}
      /\ e[f] = i
      /\ \A g \in DOMAIN d : g # f => e[g] = d[g]
  BY <1>2
<1>4. e = [g \in DOMAIN e |-> e[g]]
  BY <1>2
<1>5. \A g \in DOMAIN e : e[g] \in Nat \X Nat
  BY <1>1, <1>3
<1>6. e \in Dictionary
  BY <1>1, <1>3, <1>4, <1>5, DictionaryTypes
<1> QED
  BY <1>3, <1>6

LEMMA BoundsOfEntries ==
  ASSUME NEW d \in Dictionary, NEW f \in DOMAIN d
  PROVE  d[f][1] \in Nat /\ d[f][2] \in Nat
<1>1. d[f] \in Nat \X Nat
  BY DictionaryTypes
<1> QED
  BY <1>1

LEMMA WithTwice ==
  ASSUME NEW d, NEW f, NEW i, NEW j
  PROVE  With(With(d, f, i), f, j) = With(d, f, j)
<1> DEFINE e == With(d, f, i)
<1>1. DOMAIN e = DOMAIN d \cup {f} /\ \A g \in DOMAIN d : g # f => e[g] = d[g]
  BY DEF With
<1> HIDE DEF e
<1>2. With(e, f, j) = [g \in DOMAIN e \cup {f} |-> IF g = f THEN j ELSE e[g]]
  BY DEF With
<1>3. With(d, f, j) = [g \in DOMAIN d \cup {f} |-> IF g = f THEN j ELSE d[g]]
  BY DEF With
<1> QED
  BY <1>1, <1>2, <1>3 DEF e

\* Climbing out of a branch finds the dictionary as it was
LEMMA RestoredIs ==
  ASSUME NEW d \in Dictionary, NEW f, NEW i
  PROVE  Restored(With(d, f, i), f, Saved(d, f)) = d
<1> DEFINE e == With(d, f, i)
<1>1. DOMAIN e = DOMAIN d \cup {f} /\ \A g \in DOMAIN d : g # f => e[g] = d[g]
  BY DEF With
<1>2. d = [g \in DOMAIN d |-> d[g]]
  BY DictionaryTypes
<1>3. CASE f \in DOMAIN d
  <2>1. Saved(d, f) = d[f] /\ d[f] \in Nat \X Nat
    BY <1>3, DictionaryTypes DEF Saved
  <2>2. Saved(d, f) # <<>>
    <3>1. \A x \in Nat \X Nat : x # <<>>
      OBVIOUS
    <3> QED
      BY <2>1, <3>1
  <2>3. Restored(e, f, Saved(d, f)) = With(e, f, d[f])
    BY <2>1, <2>2 DEF Restored
  <2>4. With(e, f, d[f]) = With(d, f, d[f])
    BY WithTwice
  <2>5. With(d, f, d[f]) = [g \in DOMAIN d |-> d[g]]
    BY <1>3 DEF With
  <2> QED
    BY <1>2, <2>3, <2>4, <2>5
<1>4. CASE f \notin DOMAIN d
  <2>1. Saved(d, f) = <<>>
    BY <1>4 DEF Saved
  <2>2. Restored(e, f, Saved(d, f)) = [g \in DOMAIN e \ {f} |-> e[g]]
    BY <2>1 DEF Restored
  <2>3. DOMAIN e \ {f} = DOMAIN d
    BY <1>1, <1>4
  <2> HIDE DEF e
  <2>4. [g \in DOMAIN d |-> e[g]] = [g \in DOMAIN d |-> d[g]]
    BY <1>1, <1>4
  <2> QED
    BY <1>2, <2>2, <2>3, <2>4 DEF e
<1> QED
  BY <1>3, <1>4

--------------------------------------------------------------------------------
(* What is left for the nodes below *)

\* The threshold of m is listed, and its index splits the interval of its feature
Splits(thrs, d, m) ==
  /\ Bounds(m.ft, thrs[m.ft])
  /\ Holds(thrs[m.ft], m.thr)
  /\ Low(d, m.ft) <= IndexOf(thrs[m.ft], m.thr)
  /\ IndexOf(thrs[m.ft], m.thr) < High(thrs, d, m.ft)

\* It does so at n and everywhere below
Room(thrs, t, d, n) ==
  \E B \in SUBSET DOMAIN t :
    /\ n \in B
    /\ Closed(t, B)
    /\ \A b \in B : t[b].ft >= 0 => Splits(thrs, d, t[b])

LEMMA SplitTypes ==
  ASSUME NEW thrs, NEW t \in Trees, NEW n \in DOMAIN t, t[n].ft >= 0,
         NEW d \in Dictionary, Sound(thrs, d), Splits(thrs, d, t[n])
  PROVE  /\ t[n].ft \in Feature
         /\ IndexOf(thrs[t[n].ft], t[n].thr) \in Nat
         /\ IndexOf(thrs[t[n].ft], t[n].thr) + 1 < Len(thrs[t[n].ft])
         /\ Len(thrs[t[n].ft]) \in Nat
         /\ Low(d, t[n].ft) \in Nat
         /\ High(thrs, d, t[n].ft) \in Nat
         /\ High(thrs, d, t[n].ft) < Len(thrs[t[n].ft])
<1> DEFINE f == t[n].ft
           T == thrs[f]
           k == IndexOf(T, t[n].thr)
<1>1. f \in Feature /\ t[n].thr \in Nat
  BY TreeTypes
<1>2. Bounds(f, T) /\ Holds(T, t[n].thr)
  BY DEF Splits
<1>3. k \in 1 .. Len(T) - 2
  BY <1>1, <1>2, IndexOfFacts
<1>4. Len(T) \in Nat /\ Len(T) >= 2
  BY <1>2 DEF Bounds
<1>5. Low(d, f) \in Nat
  BY BoundsOfEntries DEF Low
<1>6. High(thrs, d, f) \in Nat /\ High(thrs, d, f) < Len(T)
  <2>1. CASE f \in DOMAIN d
    BY <2>1, BoundsOfEntries DEF High, Sound
  <2>2. CASE f \notin DOMAIN d
    BY <2>2, <1>4 DEF High
  <2> QED
    BY <2>1, <2>2
<1> HIDE DEF f, T, k
<1>7. k \in Nat /\ k + 1 < Len(T)
  BY <1>3, <1>4
<1> QED
  BY <1>1, <1>4, <1>5, <1>6, <1>7 DEF f, T, k

LEMMA LeftFacts ==
  ASSUME NEW thrs, NEW t \in Trees, NEW n \in DOMAIN t, t[n].ft >= 0,
         NEW d \in Dictionary, Sound(thrs, d), Splits(thrs, d, t[n])
  PROVE  /\ LeftOf(thrs, d, t[n]) \in Dictionary
         /\ Sound(thrs, LeftOf(thrs, d, t[n]))
         /\ \A ix \in [Feature -> Nat] :
              Fits(LeftOf(thrs, d, t[n]), ix) <=>
                Fits(d, ix) /\ ix[t[n].ft] <= IndexOf(thrs[t[n].ft], t[n].thr)
<1> DEFINE f == t[n].ft
           k == IndexOf(thrs[f], t[n].thr)
           low == Low(d, f)
           high == High(thrs, d, f)
           e == LeftOf(thrs, d, t[n])
<1>1. f \in Feature /\ k \in Nat /\ low \in Nat /\ high \in Nat /\ high < Len(thrs[f]) /\ Len(thrs[f]) \in Nat
  BY SplitTypes
<1>2. low <= k /\ k < high
  BY DEF Splits
<1>3. e = With(d, f, <<low, k>>)
  BY DEF LeftOf
<1>4. f \in DOMAIN d => low = d[f][1] /\ high = d[f][2]
  BY DEF Low, High
<1>5. f \notin DOMAIN d => low = 0
  BY DEF Low
<1> HIDE DEF f, k, low, high, e
<1>6. /\ DOMAIN e = DOMAIN d \cup {f}
      /\ e[f][1] = low
      /\ e[f][2] = k
      /\ \A g \in DOMAIN d : g # f => e[g] = d[g]
      /\ e \in Dictionary
  <2> DEFINE i == <<low, k>>
  <2>1. low \in Nat /\ k \in Nat
    BY <1>1
  <2>2. i \in Nat \X Nat /\ i[1] = low /\ i[2] = k
    BY <2>1
  <2> HIDE DEF i, f
  <2>3. e = With(d, f, i)
    BY <1>3 DEF i
  <2>4. f \in Feature
    BY <1>1
  <2> QED
    BY <2>2, <2>3, <2>4, WithFacts
<1>7. Sound(thrs, e)
  <2>1. SUFFICES ASSUME NEW g \in DOMAIN e
                 PROVE  e[g][1] <= e[g][2] /\ e[g][2] < Len(thrs[g])
    BY DEF Sound
  <2>2. CASE g = f
    BY <2>2, <1>1, <1>2, <1>6
  <2>3. CASE g # f
    BY <2>3, <1>6 DEF Sound
  <2> QED
    BY <2>2, <2>3
<1>8. ASSUME NEW ix \in [Feature -> Nat]
      PROVE  Fits(e, ix) <=> Fits(d, ix) /\ ix[f] <= k
  <2>1. ix[f] \in Nat
    BY <1>1
  <2>2. ASSUME Fits(e, ix) PROVE Fits(d, ix) /\ ix[f] <= k
    <3>1. low <= ix[f] /\ ix[f] <= k
      BY <2>2, <1>6 DEF Fits
    <3>2. ASSUME NEW g \in DOMAIN d PROVE d[g][1] <= ix[g] /\ ix[g] <= d[g][2]
      <4>1. CASE g = f
        BY <4>1, <3>1, <2>1, <1>1, <1>2, <1>4
      <4>2. CASE g # f
        BY <4>2, <2>2, <1>6 DEF Fits
      <4> QED
        BY <4>1, <4>2
    <3> QED
      BY <3>1, <3>2 DEF Fits
  <2>3. ASSUME Fits(d, ix), ix[f] <= k PROVE Fits(e, ix)
    <3>1. low <= ix[f]
      BY <2>1, <2>3, <1>1, <1>4, <1>5 DEF Fits
    <3>2. ASSUME NEW g \in DOMAIN e PROVE e[g][1] <= ix[g] /\ ix[g] <= e[g][2]
      <4>1. CASE g = f
        BY <4>1, <3>1, <2>3, <1>6
      <4>2. CASE g # f
        BY <4>2, <2>3, <1>6 DEF Fits
      <4> QED
        BY <4>1, <4>2
    <3> QED
      BY <3>2 DEF Fits
  <2> QED
    BY <2>2, <2>3
<1> QED
  BY <1>6, <1>7, <1>8 DEF e, f, k

LEMMA RightFacts ==
  ASSUME NEW thrs, NEW t \in Trees, NEW n \in DOMAIN t, t[n].ft >= 0,
         NEW d \in Dictionary, Sound(thrs, d), Splits(thrs, d, t[n])
  PROVE  /\ RightOf(thrs, d, t[n]) \in Dictionary
         /\ Sound(thrs, RightOf(thrs, d, t[n]))
         /\ \A ix \in [Feature -> Nat] : ix[t[n].ft] < Len(thrs[t[n].ft]) =>
              (Fits(RightOf(thrs, d, t[n]), ix) <=>
                 Fits(d, ix) /\ ~(ix[t[n].ft] <= IndexOf(thrs[t[n].ft], t[n].thr)))
<1> DEFINE f == t[n].ft
           k == IndexOf(thrs[f], t[n].thr)
           low == Low(d, f)
           high == High(thrs, d, f)
           e == RightOf(thrs, d, t[n])
           len == Len(thrs[f])
<1>1. f \in Feature /\ k \in Nat /\ low \in Nat /\ high \in Nat /\ high < len /\ len \in Nat
  BY SplitTypes
<1>2. low <= k /\ k < high
  BY DEF Splits
<1>3. e = With(d, f, <<k + 1, high>>)
  BY DEF RightOf
<1>4. f \in DOMAIN d => low = d[f][1] /\ high = d[f][2]
  BY DEF Low, High
<1>5. f \notin DOMAIN d => high = len - 1
  BY DEF High
<1>0. len = Len(thrs[f])
  OBVIOUS
<1> HIDE DEF f, k, low, high, e, len
<1>6. /\ DOMAIN e = DOMAIN d \cup {f}
      /\ e[f][1] = k + 1
      /\ e[f][2] = high
      /\ \A g \in DOMAIN d : g # f => e[g] = d[g]
      /\ e \in Dictionary
  <2> DEFINE j == k + 1
           i == <<j, high>>
  <2>1. j \in Nat /\ high \in Nat
    BY <1>1
  <2>0. j = k + 1
    OBVIOUS
  <2>2. i \in Nat \X Nat /\ i[1] = j /\ i[2] = high
    BY <2>1
  <2> HIDE DEF i, f, j
  <2>3. e = With(d, f, i)
    BY <1>3 DEF i, j
  <2>4. f \in Feature
    BY <1>1
  <2>5. /\ DOMAIN e = DOMAIN d \cup {f}
        /\ e[f][1] = j
        /\ e[f][2] = high
        /\ \A g \in DOMAIN d : g # f => e[g] = d[g]
        /\ e \in Dictionary
    <3>1. d \in Dictionary
      OBVIOUS
    <3>2. /\ e \in Dictionary
          /\ DOMAIN e = DOMAIN d \cup {f}
          /\ e[f] = i
          /\ \A g \in DOMAIN d : g # f => e[g] = d[g]
      BY ONLY <2>2, <2>3, <2>4, <3>1, WithFacts
    <3> QED
      BY <2>2, <3>2
  <2> QED
    BY <2>0, <2>5
<1>7. Sound(thrs, e)
  <2>1. SUFFICES ASSUME NEW g \in DOMAIN e
                 PROVE  e[g][1] <= e[g][2] /\ e[g][2] < Len(thrs[g])
    BY DEF Sound
  <2>2. CASE g = f
    BY <2>2, <1>0, <1>1, <1>2, <1>6
  <2>3. CASE g # f
    BY <2>3, <1>6 DEF Sound
  <2> QED
    BY <2>2, <2>3
<1>8. ASSUME NEW ix \in [Feature -> Nat], ix[f] < len
      PROVE  Fits(e, ix) <=> Fits(d, ix) /\ ~(ix[f] <= k)
  <2>1. ix[f] \in Nat
    BY <1>1
  <2>2. ASSUME Fits(e, ix) PROVE Fits(d, ix) /\ ~(ix[f] <= k)
    <3>1. k + 1 <= ix[f] /\ ix[f] <= high
      BY <2>2, <1>6 DEF Fits
    <3>2. ASSUME NEW g \in DOMAIN d PROVE d[g][1] <= ix[g] /\ ix[g] <= d[g][2]
      <4>1. CASE g = f
        BY <4>1, <3>1, <2>1, <1>1, <1>2, <1>4
      <4>2. CASE g # f
        BY <4>2, <2>2, <1>6 DEF Fits
      <4> QED
        BY <4>1, <4>2
    <3> QED
      BY <3>1, <3>2, <2>1, <1>1 DEF Fits
  <2>3. ASSUME Fits(d, ix), ~(ix[f] <= k) PROVE Fits(e, ix)
    <3>1. ix[f] <= high
      BY <2>1, <2>3, <1>1, <1>4, <1>5, <1>8 DEF Fits
    <3>2. ASSUME NEW g \in DOMAIN e PROVE e[g][1] <= ix[g] /\ ix[g] <= e[g][2]
      <4>1. CASE g = f
        BY <4>1, <3>1, <2>1, <2>3, <1>1, <1>6
      <4>2. CASE g # f
        BY <4>2, <2>3, <1>6 DEF Fits
      <4> QED
        BY <4>1, <4>2
    <3> QED
      BY <3>2 DEF Fits
  <2> QED
    BY <2>2, <2>3
<1> QED
  BY <1>6, <1>7, <1>8 DEF e, f, k, len

\* A node below on the left still splits what the left child is given
LEMMA RoomLeft ==
  ASSUME NEW thrs, NEW t \in Trees, NEW n \in DOMAIN t, t[n].ft >= 0,
         NEW d \in Dictionary, Sound(thrs, d), Room(thrs, t, d, n)
  PROVE  Room(thrs, t, LeftOf(thrs, d, t[n]), t[n].left)
<1>1. PICK B \in SUBSET DOMAIN t :
        n \in B /\ Closed(t, B) /\ \A b \in B : t[b].ft >= 0 => Splits(thrs, d, t[b])
  BY DEF Room
<1>2. PICK C \in SUBSET DOMAIN t :
        /\ t[n].left \in C /\ Closed(t, C)
        /\ \A m \in C : t[m].ft = t[n].ft => t[m].thr < t[n].thr
  BY TrainingAssumption
<1> DEFINE f == t[n].ft
           k == IndexOf(thrs[f], t[n].thr)
           e == LeftOf(thrs, d, t[n])
<1>3. Splits(thrs, d, t[n])
  BY <1>1
<1>4. f \in Feature /\ k \in Nat /\ Low(d, f) \in Nat
  BY <1>3, SplitTypes
<1>5. e = With(d, f, <<Low(d, f), k>>)
  BY DEF LeftOf
<1> HIDE DEF k, e
<1>6. /\ DOMAIN e = DOMAIN d \cup {f}
      /\ e[f][1] = Low(d, f)
      /\ e[f][2] = k
      /\ \A g \in DOMAIN d : g # f => e[g] = d[g]
      /\ e \in Dictionary
  <2> DEFINE i == <<Low(d, f), k>>
  <2>1. Low(d, f) \in Nat /\ k \in Nat
    BY <1>4
  <2>2. i \in Nat \X Nat /\ i[1] = Low(d, f) /\ i[2] = k
    BY <2>1
  <2> HIDE DEF i, f
  <2>3. e = With(d, f, i)
    BY <1>5 DEF i
  <2>4. f \in Feature
    BY <1>4
  <2> QED
    BY <2>2, <2>3, <2>4, WithFacts
<1>7. ASSUME NEW b \in B \cap C, t[b].ft >= 0 PROVE Splits(thrs, e, t[b])
  <2>1. Splits(thrs, d, t[b])
    BY <1>1, <1>7
  <2>2. CASE t[b].ft = f
    <3>1. t[b].thr < t[n].thr /\ t[b].thr \in Nat /\ t[n].thr \in Nat
      BY <1>2, <1>7, <2>2, TreeTypes
    <3>2. Bounds(f, thrs[f]) /\ Holds(thrs[f], t[n].thr) /\ Holds(thrs[f], t[b].thr)
      BY <1>3, <2>1, <2>2 DEF Splits
    <3>3. IndexOf(thrs[f], t[b].thr) < k
      <4> HIDE DEF f
      <4> QED
        BY <3>1, <3>2, IndexOfRises DEF k, f
    <3>4. Low(e, f) = Low(d, f) /\ High(thrs, e, f) = k
      BY <1>6 DEF Low, High
    <3>5. Low(d, f) <= IndexOf(thrs[f], t[b].thr)
      BY <2>1, <2>2 DEF Splits
    <3> QED
      BY <2>2, <3>2, <3>3, <3>4, <3>5 DEF Splits
  <2>3. CASE t[b].ft # f
    <3>1. Low(e, t[b].ft) = Low(d, t[b].ft) /\ High(thrs, e, t[b].ft) = High(thrs, d, t[b].ft)
      BY <1>6, <2>3 DEF Low, High
    <3> QED
      BY <2>1, <3>1 DEF Splits
  <2> QED
    BY <2>2, <2>3
<1>8. t[n].left \in B \cap C
  BY <1>1, <1>2 DEF Closed
<1>9. Closed(t, B \cap C)
  BY <1>1, <1>2 DEF Closed
<1>10. B \cap C \in SUBSET DOMAIN t
  OBVIOUS
<1> QED
  BY <1>7, <1>8, <1>9, <1>10 DEF Room, e

LEMMA RoomRight ==
  ASSUME NEW thrs, NEW t \in Trees, NEW n \in DOMAIN t, t[n].ft >= 0,
         NEW d \in Dictionary, Sound(thrs, d), Room(thrs, t, d, n)
  PROVE  Room(thrs, t, RightOf(thrs, d, t[n]), t[n].right)
<1>1. PICK B \in SUBSET DOMAIN t :
        n \in B /\ Closed(t, B) /\ \A b \in B : t[b].ft >= 0 => Splits(thrs, d, t[b])
  BY DEF Room
<1>2. PICK C \in SUBSET DOMAIN t :
        /\ t[n].right \in C /\ Closed(t, C)
        /\ \A m \in C : t[m].ft = t[n].ft => t[m].thr > t[n].thr
  BY TrainingAssumption
<1> DEFINE f == t[n].ft
           k == IndexOf(thrs[f], t[n].thr)
           e == RightOf(thrs, d, t[n])
<1>3. Splits(thrs, d, t[n])
  BY <1>1
<1>4. f \in Feature /\ k \in Nat /\ k + 1 \in Nat /\ High(thrs, d, f) \in Nat
  BY <1>3, SplitTypes
<1>5. e = With(d, f, <<k + 1, High(thrs, d, f)>>)
  BY DEF RightOf
<1> HIDE DEF k, e
<1>6. /\ DOMAIN e = DOMAIN d \cup {f}
      /\ e[f][1] = k + 1
      /\ e[f][2] = High(thrs, d, f)
      /\ \A g \in DOMAIN d : g # f => e[g] = d[g]
      /\ e \in Dictionary
  <2> DEFINE j == k + 1
           i == <<j, High(thrs, d, f)>>
  <2>1. j \in Nat /\ High(thrs, d, f) \in Nat
    BY <1>4
  <2>0. j = k + 1
    OBVIOUS
  <2>2. i \in Nat \X Nat /\ i[1] = j /\ i[2] = High(thrs, d, f)
    BY <2>1
  <2> HIDE DEF i, f, j
  <2>3. e = With(d, f, i)
    BY <1>5 DEF i, j
  <2>4. f \in Feature
    BY <1>4
  <2>5. /\ DOMAIN e = DOMAIN d \cup {f}
        /\ e[f][1] = j
        /\ e[f][2] = High(thrs, d, f)
        /\ \A g \in DOMAIN d : g # f => e[g] = d[g]
        /\ e \in Dictionary
    BY <2>2, <2>3, <2>4, WithFacts
  <2> QED
    BY <2>0, <2>5
<1>7. ASSUME NEW b \in B \cap C, t[b].ft >= 0 PROVE Splits(thrs, e, t[b])
  <2>1. Splits(thrs, d, t[b])
    BY <1>1, <1>7
  <2>2. CASE t[b].ft = f
    <3>1. t[n].thr < t[b].thr /\ t[b].thr \in Nat /\ t[n].thr \in Nat
      BY <1>2, <1>7, <2>2, TreeTypes
    <3>2. Bounds(f, thrs[f]) /\ Holds(thrs[f], t[n].thr) /\ Holds(thrs[f], t[b].thr)
      BY <1>3, <2>1, <2>2 DEF Splits
    <3>3. k < IndexOf(thrs[f], t[b].thr)
      <4> HIDE DEF f
      <4> QED
        BY <3>1, <3>2, IndexOfRises DEF k, f
    <3>4. IndexOf(thrs[f], t[b].thr) \in Nat
      <4> HIDE DEF f
      <4> QED
        BY <3>1, <3>2, IndexOfFacts
    <3>5. Low(e, f) = k + 1 /\ High(thrs, e, f) = High(thrs, d, f)
      BY <1>6 DEF Low, High
    <3>6. IndexOf(thrs[f], t[b].thr) < High(thrs, d, f)
      BY <2>1, <2>2 DEF Splits
    <3>7. k + 1 <= IndexOf(thrs[f], t[b].thr)
      BY <3>3, <3>4, <1>4
    <3> QED
      BY <2>2, <3>2, <3>5, <3>6, <3>7 DEF Splits
  <2>3. CASE t[b].ft # f
    <3>1. Low(e, t[b].ft) = Low(d, t[b].ft) /\ High(thrs, e, t[b].ft) = High(thrs, d, t[b].ft)
      BY <1>6, <2>3 DEF Low, High
    <3> QED
      BY <2>1, <3>1 DEF Splits
  <2> QED
    BY <2>2, <2>3
<1>8. t[n].right \in B \cap C
  BY <1>1, <1>2 DEF Closed
<1>9. Closed(t, B \cap C)
  BY <1>1, <1>2 DEF Closed
<1>10. B \cap C \in SUBSET DOMAIN t
  OBVIOUS
<1> QED
  BY <1>7, <1>8, <1>9, <1>10 DEF Room, e

--------------------------------------------------------------------------------
(* The inductive invariant *)

\* While the thresholds are collected: the nodes in C have been visited, theirs are in
\* the lists, and every child of theirs is in C or still to be visited.
Collected(t, thrs, todo) ==
  /\ todo \in Seq(DOMAIN t)
  /\ thrs \in [Feature -> Seq(Nat \ {0})]
  /\ \E C \in SUBSET DOMAIN t :
       /\ 0 \in C \/ \E j \in 1 .. Len(todo) : todo[j] = 0
       /\ \A n \in C : t[n].ft >= 0 =>
            /\ \E i \in 1 .. Len(thrs[t[n].ft]) : thrs[t[n].ft][i] = t[n].thr
            /\ \A m \in {t[n].left, t[n].right} :
                 m \in C \/ \E j \in 1 .. Len(todo) : todo[j] = m

\* What Sort_Feats_Thresh leaves
Lists(thrs) ==
  /\ thrs \in [Feature -> Seq(Nat)]
  /\ \A f \in Feature : thrs[f] = <<>> \/ Bounds(f, thrs[f])

Positions == {"call", "left", "right"}

Saves == {<<>>} \cup (Nat \X Nat)

Frames(t) == [node : DOMAIN t, at : Positions, save : Saves]

\* The dictionary as the call fr, that was given d, has left it
Narrowed(thrs, t, fr, d) ==
  IF fr.at = "call" THEN d
  ELSE IF fr.at = "left" THEN LeftOf(thrs, d, t[fr.node])
  ELSE RightOf(thrs, d, t[fr.node])

\* The k-th call was given the dictionary D[k], and has passed D[k + 1] on
Stack(t, thrs, frs, inds, D) ==
  /\ frs \in Seq(Frames(t))
  /\ D \in [1 .. Len(frs) + 1 -> Dictionary]
  /\ D[1] = Empty
  /\ D[Len(frs) + 1] = inds
  /\ \A k \in 1 .. Len(frs) + 1 : Sound(thrs, D[k])
  /\ \A k \in 1 .. Len(frs) :
       /\ D[k + 1] = Narrowed(thrs, t, frs[k], D[k])
       /\ Room(thrs, t, D[k], frs[k].node)
       /\ frs[k].at # "call" =>
            t[frs[k].node].ft >= 0 /\ frs[k].save = Saved(D[k], t[frs[k].node].ft)
       /\ k < Len(frs) => frs[k].at # "call"

Space(thrs) ==
  {ix \in [Feature -> Nat] : \A f \in Feature : ix[f] < IF thrs[f] = <<>> THEN 1 ELSE Len(thrs[f])}

ToLeft(t, thrs, n, ix) == ix[t[n].ft] <= IndexOf(thrs[t[n].ft], t[n].thr)

\* The call fr, that was given d, has still to write the rule that ix matches
Owns(t, thrs, fr, d, ix) ==
  /\ Fits(d, ix)
  /\ \/ fr.at = "call"
     \/ fr.at = "left" /\ ~ToLeft(t, thrs, fr.node, ix)

\* One rule, or else one call, answers for ix
Cover(t, thrs, frs, D, rules) ==
  \A ix \in Space(thrs) :
    /\ \/ \E k \in 1 .. Len(rules) : Fits(rules[k].conds, ix)
       \/ \E j \in 1 .. Len(frs) : Owns(t, thrs, frs[j], D[j], ix)
    /\ \A k, l \in 1 .. Len(rules) : Fits(rules[k].conds, ix) /\ Fits(rules[l].conds, ix) => k = l
    /\ \A k \in 1 .. Len(rules), j \in 1 .. Len(frs) :
         ~(Fits(rules[k].conds, ix) /\ Owns(t, thrs, frs[j], D[j], ix))
    /\ \A i, j \in 1 .. Len(frs) : i < j => ~(Owns(t, thrs, frs[i], D[i], ix) /\ Fits(D[j], ix))

\* At every listed threshold the indexes ix take the side that the values v take
Agree(t, thrs, v, ix) ==
  \A n \in DOMAIN t :
    /\ t[n].ft >= 0
    /\ Bounds(t[n].ft, thrs[t[n].ft])
    /\ Holds(thrs[t[n].ft], t[n].thr)
    => (v[t[n].ft] * Scale <= t[n].thr <=> ToLeft(t, thrs, n, ix))

\* The rules written and the calls that fit ix decide as the tree does
Truth(t, thrs, frs, D, rules) ==
  \A ix \in Space(thrs), v \in [Feature -> Nat] :
    Agree(t, thrs, v, ix) =>
      /\ \A j \in 1 .. Len(frs) :
           Fits(D[j], ix) => Decision(t, v)[0] = Decision(t, v)[frs[j].node]
      /\ \A k \in 1 .. Len(rules) :
           Fits(rules[k].conds, ix) => rules[k].cg = Decision(t, v)[0]

Rules == [cg : BOOLEAN, conds : Dictionary]

\* From Sort_Feats_Thresh on
Walked(t, thrs, frs, inds, rules) ==
  /\ Lists(thrs)
  /\ \E D : /\ Stack(t, thrs, frs, inds, D)
            /\ Cover(t, thrs, frs, D, rules)
            /\ Truth(t, thrs, frs, D, rules)

Inv ==
  /\ tree \in Trees
  /\ phase \in {"collecting", "writing", "installed"}
  /\ actRules \in Seq(Rules)
  /\ phase = "collecting" =>
       /\ Collected(tree, FTS_THRS, visit)
       /\ frames = <<>> /\ FTS_INDS = Empty /\ actRules = <<>>
  /\ phase # "collecting" => Walked(tree, FTS_THRS, frames, FTS_INDS, actRules)
  /\ phase = "installed" =>
       /\ frames = <<>>
       /\ ftRules = [f \in Feature |-> Ranges(FTS_THRS[f])]

--------------------------------------------------------------------------------
(* A call, a return and a rule keep the cover *)

\* A call passes a part of what it answers for, and with it the dictionary e, to
\* the call that it makes
HandsOn(t, thrs, before, after, d, e) ==
  \A ix \in Space(thrs) :
    /\ Owns(t, thrs, before, d, ix) <=> Owns(t, thrs, after, d, ix) \/ Fits(e, ix)
    /\ ~(Owns(t, thrs, after, d, ix) /\ Fits(e, ix))
    /\ Fits(e, ix) => Fits(d, ix)

\* For what fits e, the tree decides at b as at its child c
Descends(t, thrs, e, b, c) ==
  \A ix \in Space(thrs), v \in [Feature -> Nat] :
    Agree(t, thrs, v, ix) /\ Fits(e, ix) => Decision(t, v)[b] = Decision(t, v)[c]

LEMMA CoverCall ==
  ASSUME NEW t \in Trees, NEW thrs, NEW frs, NEW fs, NEW D, NEW E, NEW e, NEW rules,
         NEW n \in Nat \ {0}, Len(frs) = n, Len(fs) = n + 1,
         \A i \in 1 .. n - 1 : fs[i] = frs[i],
         fs[n].node = frs[n].node, fs[n + 1].at = "call",
         \A i \in 1 .. n : E[i] = D[i],
         Len(rules) \in Nat,
         Cover(t, thrs, frs, D, rules),
         Truth(t, thrs, frs, D, rules),
         E[n + 1] = e,
         HandsOn(t, thrs, frs[n], fs[n], D[n], e),
         Descends(t, thrs, e, frs[n].node, fs[n + 1].node)
  PROVE  Cover(t, thrs, fs, E, rules) /\ Truth(t, thrs, fs, E, rules)
<1> DEFINE old(j, ix) == Owns(t, thrs, frs[j], D[j], ix)
           new(j, ix) == Owns(t, thrs, fs[j], E[j], ix)
<1>1. ASSUME NEW ix PROVE new(n + 1, ix) <=> Fits(E[n + 1], ix)
  BY DEF Owns
<1>2. ASSUME NEW ix \in Space(thrs)
      PROVE  /\ \A j \in 1 .. n - 1 : new(j, ix) <=> old(j, ix)
             /\ old(n, ix) <=> new(n, ix) \/ new(n + 1, ix)
             /\ ~(new(n, ix) /\ new(n + 1, ix))
             /\ new(n + 1, ix) => Fits(D[n], ix)
  <2>1. n \in 1 .. n
    OBVIOUS
  <2>2. E[n] = D[n]
    BY <2>1
  <2> QED
    BY <1>1, <2>2 DEF HandsOn
<1>3. ASSUME NEW ix \in Space(thrs)
      PROVE  /\ \/ \E k \in 1 .. Len(rules) : Fits(rules[k].conds, ix)
                \/ \E j \in 1 .. n : old(j, ix)
             /\ \A k, l \in 1 .. Len(rules) :
                  Fits(rules[k].conds, ix) /\ Fits(rules[l].conds, ix) => k = l
             /\ \A k \in 1 .. Len(rules), j \in 1 .. n :
                  ~(Fits(rules[k].conds, ix) /\ old(j, ix))
             /\ \A i, j \in 1 .. n : i < j => ~(old(i, ix) /\ Fits(D[j], ix))
  BY DEF Cover
<1> HIDE DEF old, new
<1>4. ASSUME NEW ix \in Space(thrs)
      PROVE  \/ \E k \in 1 .. Len(rules) : Fits(rules[k].conds, ix)
             \/ \E j \in 1 .. n + 1 : new(j, ix)
  <2>1. CASE \E k \in 1 .. Len(rules) : Fits(rules[k].conds, ix)
    BY <2>1
  <2>2. CASE \E j \in 1 .. n : old(j, ix)
    <3>1. PICK j \in 1 .. n : old(j, ix)
      BY <2>2
    <3>2. CASE j = n
      <4>1. n \in 1 .. n + 1 /\ n + 1 \in 1 .. n + 1
        OBVIOUS
      <4> QED
        BY <3>1, <3>2, <4>1, <1>2
    <3>3. CASE j # n
      <4>1. j \in 1 .. n - 1 /\ j \in 1 .. n + 1
        BY <3>3
      <4> QED
        BY <3>1, <4>1, <1>2
    <3> QED
      BY <3>2, <3>3
  <2> QED
    BY <2>1, <2>2, <1>3
<1>5. ASSUME NEW ix \in Space(thrs), NEW k \in 1 .. Len(rules), NEW j \in 1 .. n + 1,
             Fits(rules[k].conds, ix), new(j, ix)
      PROVE  FALSE
  <2>1. CASE j <= n - 1
    <3>1. j \in 1 .. n - 1 /\ j \in 1 .. n
      BY <2>1
    <3> QED
      BY <3>1, <1>2, <1>3, <1>5
  <2>2. CASE j = n \/ j = n + 1
    <3>1. old(n, ix) /\ n \in 1 .. n
      BY <2>2, <1>2, <1>5
    <3> QED
      BY <3>1, <1>3, <1>5
  <2> QED
    BY <2>1, <2>2
<1>6. ASSUME NEW ix \in Space(thrs), NEW i \in 1 .. n + 1, NEW j \in 1 .. n + 1, i < j,
             new(i, ix), Fits(E[j], ix)
      PROVE  FALSE
  <2>1. i \in 1 .. n
    BY <1>6
  <2>2. CASE j <= n
    <3>1. j \in 1 .. n /\ i \in 1 .. n - 1 /\ E[j] = D[j]
      BY <2>2, <1>6
    <3> QED
      BY <3>1, <1>2, <1>3, <1>6
  <2>3. CASE j = n + 1
    <3>1. new(n + 1, ix)
      BY <2>3, <1>1, <1>6
    <3>2. CASE i = n
      BY <3>1, <3>2, <1>2, <1>6
    <3>3. CASE i < n
      <4>1. i \in 1 .. n - 1 /\ i \in 1 .. n /\ n \in 1 .. n
        BY <3>3
      <4> QED
        BY <3>1, <3>3, <4>1, <1>2, <1>3, <1>6
    <3> QED
      BY <2>1, <3>2, <3>3
  <2> QED
    BY <2>2, <2>3
<1>7. Cover(t, thrs, fs, E, rules)
  BY <1>3, <1>4, <1>5, <1>6 DEF Cover, new
<1>8. ASSUME NEW ix \in Space(thrs), NEW v \in [Feature -> Nat], Agree(t, thrs, v, ix),
             NEW j \in 1 .. n + 1, Fits(E[j], ix)
      PROVE  Decision(t, v)[0] = Decision(t, v)[fs[j].node]
  <2>1. \A i \in 1 .. n : Fits(D[i], ix) => Decision(t, v)[0] = Decision(t, v)[frs[i].node]
    BY <1>8 DEF Truth
  <2>2. CASE j <= n
    <3>1. j \in 1 .. n /\ E[j] = D[j] /\ fs[j].node = frs[j].node
      <4>1. j \in 1 .. n
        BY <2>2
      <4>2. CASE j = n
        BY <4>1, <4>2
      <4>3. CASE j # n
        <5>1. j \in 1 .. n - 1
          BY <4>1, <4>3
        <5> QED
          BY <4>1, <5>1
      <4> QED
        BY <4>2, <4>3
    <3> QED
      BY <3>1, <2>1, <1>8
  <2>3. CASE j = n + 1
    <3>1. Fits(E[n + 1], ix) /\ n \in 1 .. n
      BY <2>3, <1>8
    <3>2. Fits(D[n], ix)
      BY <3>1 DEF HandsOn
    <3>3. Decision(t, v)[0] = Decision(t, v)[frs[n].node]
      BY <3>1, <3>2, <2>1
    <3>4. Decision(t, v)[frs[n].node] = Decision(t, v)[fs[n + 1].node]
      BY <3>1, <1>8 DEF Descends
    <3> QED
      BY <2>3, <3>3, <3>4
  <2> QED
    BY <2>2, <2>3
<1>9. Truth(t, thrs, fs, E, rules)
  <2>1. SUFFICES ASSUME NEW ix \in Space(thrs), NEW v \in [Feature -> Nat], Agree(t, thrs, v, ix)
                 PROVE  /\ \A j \in 1 .. n + 1 :
                             Fits(E[j], ix) => Decision(t, v)[0] = Decision(t, v)[fs[j].node]
                        /\ \A k \in 1 .. Len(rules) :
                             Fits(rules[k].conds, ix) => rules[k].cg = Decision(t, v)[0]
    BY DEF Truth
  <2>2. \A k \in 1 .. Len(rules) : Fits(rules[k].conds, ix) => rules[k].cg = Decision(t, v)[0]
    BY <2>1 DEF Truth
  <2>3. ASSUME NEW j \in 1 .. n + 1, Fits(E[j], ix)
        PROVE  Decision(t, v)[0] = Decision(t, v)[fs[j].node]
    BY <2>1, <2>3, <1>8
  <2> QED
    BY <2>2, <2>3
<1> QED
  BY <1>7, <1>9

LEMMA CoverReturn ==
  ASSUME NEW t \in Trees, NEW thrs, NEW frs, NEW fs, NEW D, NEW E, NEW rules,
         NEW n \in Nat \ {0}, Len(frs) = n, Len(fs) = n - 1,
         \A i \in 1 .. n - 1 : fs[i] = frs[i],
         \A i \in 1 .. n - 1 : E[i] = D[i],
         Len(rules) \in Nat,
         Cover(t, thrs, frs, D, rules),
         Truth(t, thrs, frs, D, rules),
         \A ix \in Space(thrs) : ~Owns(t, thrs, frs[n], D[n], ix)
  PROVE  Cover(t, thrs, fs, E, rules) /\ Truth(t, thrs, fs, E, rules)
<1>1. \A i \in 1 .. n - 1 : i \in 1 .. n
  OBVIOUS
<1>2. ASSUME NEW ix \in Space(thrs)
      PROVE  \/ \E k \in 1 .. Len(rules) : Fits(rules[k].conds, ix)
             \/ \E j \in 1 .. n - 1 : Owns(t, thrs, fs[j], E[j], ix)
  <2>1. \/ \E k \in 1 .. Len(rules) : Fits(rules[k].conds, ix)
        \/ \E j \in 1 .. n : Owns(t, thrs, frs[j], D[j], ix)
    BY DEF Cover
  <2>2. ASSUME NEW j \in 1 .. n, Owns(t, thrs, frs[j], D[j], ix)
        PROVE  \E i \in 1 .. n - 1 : Owns(t, thrs, fs[i], E[i], ix)
    <3>1. j # n
      BY <2>2
    <3>2. j \in 1 .. n - 1
      BY <3>1
    <3> QED
      BY <2>2, <3>2
  <2> QED
    BY <2>1, <2>2
<1>3. Cover(t, thrs, fs, E, rules)
  <2>1. ASSUME NEW ix \in Space(thrs)
        PROVE  /\ \A k, l \in 1 .. Len(rules) :
                    Fits(rules[k].conds, ix) /\ Fits(rules[l].conds, ix) => k = l
               /\ \A k \in 1 .. Len(rules), j \in 1 .. n - 1 :
                    ~(Fits(rules[k].conds, ix) /\ Owns(t, thrs, fs[j], E[j], ix))
               /\ \A i, j \in 1 .. n - 1 :
                    i < j => ~(Owns(t, thrs, fs[i], E[i], ix) /\ Fits(E[j], ix))
    BY <1>1 DEF Cover
  <2> QED
    BY <1>2, <2>1 DEF Cover
<1>4. Truth(t, thrs, fs, E, rules)
  BY <1>1 DEF Truth
<1> QED
  BY <1>3, <1>4

\* r and s begin with the same n elements
Same(r, s, n) == \A i \in 1 .. n : r[i] = s[i]

\* A rule takes over all that the call that writes it answers for
TakesOver(t, thrs, fr, d, rule) ==
  \A ix \in Space(thrs) :
    /\ Owns(t, thrs, fr, d, ix) <=> Fits(rule.conds, ix)
    /\ Fits(rule.conds, ix) => Fits(d, ix)

\* It says what the tree decides at b
Says(t, rule, b) == \A v \in [Feature -> Nat] : rule.cg = Decision(t, v)[b]

LEMMA CoverRule ==
  ASSUME NEW t \in Trees, NEW thrs, NEW frs, NEW fs, NEW D, NEW E, NEW rules, NEW rs, NEW rule,
         NEW n \in Nat \ {0}, NEW q, q = n - 1, Len(frs) = n, Len(fs) = q,
         NEW m \in Nat, NEW next, next = m + 1, Len(rules) = m, Len(rs) = next, rs[next] = rule,
         Same(fs, frs, q), Same(E, D, q), Same(rs, rules, m),
         Cover(t, thrs, frs, D, rules),
         Truth(t, thrs, frs, D, rules),
         TakesOver(t, thrs, frs[n], D[n], rule),
         Says(t, rule, frs[n].node)
  PROVE  Cover(t, thrs, fs, E, rs) /\ Truth(t, thrs, fs, E, rs)
<1>0. /\ \A i \in 1 .. n - 1 : fs[i] = frs[i] /\ E[i] = D[i]
      /\ \A k \in 1 .. m : rs[k] = rules[k]
      /\ Len(fs) = n - 1 /\ Len(rs) = m + 1 /\ rs[m + 1] = rule
  BY DEF Same
<1>1. \A i \in 1 .. n - 1 : i \in 1 .. n
  OBVIOUS
<1>2. n \in 1 .. n
  OBVIOUS
<1>3. \A k \in 1 .. m + 1 : k = m + 1 \/ k \in 1 .. m
  OBVIOUS
<1>4. m + 1 \in 1 .. m + 1 /\ \A k \in 1 .. m : k \in 1 .. m + 1
  OBVIOUS
<1> DEFINE old(j, ix) == Owns(t, thrs, frs[j], D[j], ix)
<1>5. \A ix : \A j \in 1 .. n - 1 : Owns(t, thrs, fs[j], E[j], ix) <=> old(j, ix)
  BY <1>0
<1>6. ASSUME NEW ix \in Space(thrs)
      PROVE  /\ \/ \E k \in 1 .. m : Fits(rules[k].conds, ix)
                \/ \E j \in 1 .. n : old(j, ix)
             /\ \A k, l \in 1 .. m :
                  Fits(rules[k].conds, ix) /\ Fits(rules[l].conds, ix) => k = l
             /\ \A k \in 1 .. m, j \in 1 .. n :
                  ~(Fits(rules[k].conds, ix) /\ old(j, ix))
             /\ \A i, j \in 1 .. n : i < j => ~(old(i, ix) /\ Fits(D[j], ix))
  BY DEF Cover
<1>7. \A ix \in Space(thrs) : old(n, ix) <=> Fits(rs[m + 1].conds, ix)
  BY DEF TakesOver
<1>8. \A ix \in Space(thrs) : old(n, ix) => Fits(D[n], ix)
  BY DEF TakesOver
<1> HIDE DEF old
<1>9. ASSUME NEW ix \in Space(thrs)
      PROVE  /\ \/ \E k \in 1 .. m + 1 : Fits(rs[k].conds, ix)
                \/ \E j \in 1 .. n - 1 : old(j, ix)
             /\ \A k, l \in 1 .. m + 1 :
                  Fits(rs[k].conds, ix) /\ Fits(rs[l].conds, ix) => k = l
             /\ \A k \in 1 .. m + 1, j \in 1 .. n - 1 :
                  ~(Fits(rs[k].conds, ix) /\ old(j, ix))
             /\ \A i, j \in 1 .. n - 1 : i < j => ~(old(i, ix) /\ Fits(D[j], ix))
  <2>1. \/ \E k \in 1 .. m + 1 : Fits(rs[k].conds, ix)
        \/ \E j \in 1 .. n - 1 : old(j, ix)
    <3>1. ASSUME NEW k \in 1 .. m, Fits(rules[k].conds, ix)
          PROVE  \E l \in 1 .. m + 1 : Fits(rs[l].conds, ix)
      BY <3>1, <1>0, <1>4
    <3>2. ASSUME NEW j \in 1 .. n, old(j, ix)
          PROVE  \/ \E k \in 1 .. m + 1 : Fits(rs[k].conds, ix)
                 \/ \E i \in 1 .. n - 1 : old(i, ix)
      <4>1. CASE j = n
        BY <4>1, <3>2, <1>4, <1>7
      <4>2. CASE j # n
        <5>1. j \in 1 .. n - 1
          BY <4>2
        <5> QED
          BY <5>1, <3>2
      <4> QED
        BY <4>1, <4>2
    <3> QED
      BY <3>1, <3>2, <1>6
  <2>2. ASSUME NEW k \in 1 .. m + 1, NEW l \in 1 .. m + 1,
               Fits(rs[k].conds, ix), Fits(rs[l].conds, ix)
        PROVE  k = l
    <3>1. ASSUME NEW a \in 1 .. m, Fits(rs[a].conds, ix), Fits(rs[m + 1].conds, ix) PROVE FALSE
      <4>1. Fits(rules[a].conds, ix) /\ old(n, ix)
        BY <3>1, <1>0, <1>7
      <4> QED
        BY <4>1, <1>2, <1>6
    <3>2. CASE k \in 1 .. m /\ l \in 1 .. m
      BY <3>2, <2>2, <1>0, <1>6
    <3>3. CASE k = m + 1 /\ l = m + 1
      BY <3>3
    <3>4. CASE k \in 1 .. m /\ l = m + 1
      BY <3>4, <3>1, <2>2
    <3>5. CASE k = m + 1 /\ l \in 1 .. m
      BY <3>5, <3>1, <2>2
    <3> QED
      BY <3>2, <3>3, <3>4, <3>5, <1>3
  <2>3. ASSUME NEW k \in 1 .. m + 1, NEW j \in 1 .. n - 1, Fits(rs[k].conds, ix), old(j, ix)
        PROVE  FALSE
    <3>1. CASE k \in 1 .. m
      BY <3>1, <2>3, <1>0, <1>1, <1>6
    <3>2. CASE k = m + 1
      <4>1. Fits(D[n], ix) /\ j < n
        BY <3>2, <2>3, <1>7, <1>8
      <4> QED
        BY <4>1, <2>3, <1>1, <1>2, <1>6
    <3> QED
      BY <3>1, <3>2, <1>3
  <2>4. \A i, j \in 1 .. n - 1 : i < j => ~(old(i, ix) /\ Fits(D[j], ix))
    BY <1>1, <1>6
  <2> QED
    BY <2>1, <2>2, <2>3, <2>4
<1>10. Cover(t, thrs, fs, E, rs)
  <2>1. ASSUME NEW ix \in Space(thrs)
        PROVE  /\ \/ \E k \in 1 .. m + 1 : Fits(rs[k].conds, ix)
                  \/ \E j \in 1 .. n - 1 : Owns(t, thrs, fs[j], E[j], ix)
               /\ \A k, l \in 1 .. m + 1 :
                    Fits(rs[k].conds, ix) /\ Fits(rs[l].conds, ix) => k = l
               /\ \A k \in 1 .. m + 1, j \in 1 .. n - 1 :
                    ~(Fits(rs[k].conds, ix) /\ Owns(t, thrs, fs[j], E[j], ix))
               /\ \A i, j \in 1 .. n - 1 :
                    i < j => ~(Owns(t, thrs, fs[i], E[i], ix) /\ Fits(E[j], ix))
    <3> DEFINE now(j) == Owns(t, thrs, fs[j], E[j], ix)
    <3>1. \A j \in 1 .. n - 1 : now(j) <=> old(j, ix)
      BY <1>5
    <3> HIDE DEF now
    <3>2. /\ \/ \E k \in 1 .. m + 1 : Fits(rs[k].conds, ix)
             \/ \E j \in 1 .. n - 1 : old(j, ix)
          /\ \A k, l \in 1 .. m + 1 :
               Fits(rs[k].conds, ix) /\ Fits(rs[l].conds, ix) => k = l
          /\ \A k \in 1 .. m + 1, j \in 1 .. n - 1 :
               ~(Fits(rs[k].conds, ix) /\ old(j, ix))
          /\ \A i, j \in 1 .. n - 1 : i < j => ~(old(i, ix) /\ Fits(D[j], ix))
      BY <1>9
    <3>3. \A i, j \in 1 .. n - 1 : i < j => ~(now(i) /\ Fits(E[j], ix))
      BY <1>0, <3>1, <3>2
    <3>4. \A k \in 1 .. m + 1, j \in 1 .. n - 1 : ~(Fits(rs[k].conds, ix) /\ now(j))
      BY <3>1, <3>2
    <3>5. \/ \E k \in 1 .. m + 1 : Fits(rs[k].conds, ix)
          \/ \E j \in 1 .. n - 1 : now(j)
      BY <3>1, <3>2
    <3> QED
      BY <3>2, <3>3, <3>4, <3>5 DEF now
  <2> QED
    BY <2>1 DEF Cover
<1>11. ASSUME NEW ix \in Space(thrs), NEW v \in [Feature -> Nat], Agree(t, thrs, v, ix)
       PROVE  /\ \A j \in 1 .. n - 1 :
                   Fits(E[j], ix) => Decision(t, v)[0] = Decision(t, v)[fs[j].node]
              /\ \A k \in 1 .. m + 1 : Fits(rs[k].conds, ix) => rs[k].cg = Decision(t, v)[0]
  <2>1. /\ \A j \in 1 .. n :
             Fits(D[j], ix) => Decision(t, v)[0] = Decision(t, v)[frs[j].node]
        /\ \A k \in 1 .. m : Fits(rules[k].conds, ix) => rules[k].cg = Decision(t, v)[0]
    BY <1>11 DEF Truth
  <2>2. \A j \in 1 .. n - 1 : Fits(E[j], ix) => Decision(t, v)[0] = Decision(t, v)[fs[j].node]
    BY <2>1, <1>0, <1>1
  <2>3. ASSUME Fits(rs[m + 1].conds, ix) PROVE rs[m + 1].cg = Decision(t, v)[0]
    <3>1. Decision(t, v)[0] = Decision(t, v)[frs[n].node]
      BY <2>1, <2>3, <1>2 DEF TakesOver
    <3> QED
      BY <3>1 DEF Says
  <2>4. \A k \in 1 .. m : Fits(rs[k].conds, ix) => rs[k].cg = Decision(t, v)[0]
    BY <2>1, <1>0
  <2> QED
    BY <2>2, <2>3, <2>4, <1>3
<1>12. Truth(t, thrs, fs, E, rs)
  BY <1>11 DEF Truth
<1> QED
  BY <1>10, <1>12

\* fs is frs with its last call replaced by below, which has made the call last
Grown(fs, frs, below, last) ==
  /\ Len(fs) = Len(frs) + 1
  /\ \A i \in 1 .. Len(frs) - 1 : fs[i] = frs[i]
  /\ fs[Len(frs)] = below
  /\ fs[Len(frs) + 1] = last

\* fs is frs without its last call
Shrunk(fs, frs) == Len(fs) = Len(frs) - 1 /\ \A i \in 1 .. Len(frs) - 1 : fs[i] = frs[i]

\* rs is rules with one more rule
Extended(rs, rules, rule) ==
  /\ Len(rs) = Len(rules) + 1
  /\ \A k \in 1 .. Len(rules) : rs[k] = rules[k]
  /\ rs[Len(rules) + 1] = rule

\* E is D up to the n-th call, which has passed e on to a call of its own
Handed(E, D, n, e) == E = [i \in 1 .. n + 2 |-> IF i <= n THEN D[i] ELSE e]

LEMMA StackCall ==
  ASSUME NEW t, NEW thrs, NEW frs, NEW inds, NEW D, Stack(t, thrs, frs, inds, D),
         NEW n \in Nat \ {0}, Len(frs) = n,
         NEW fs \in Seq(Frames(t)), NEW below, NEW last, Grown(fs, frs, below, last),
         below.node = frs[n].node, t[below.node].ft >= 0, below.at # "call",
         below.save = Saved(D[n], t[below.node].ft),
         last.at = "call",
         NEW e \in Dictionary, e = Narrowed(thrs, t, below, D[n]),
         Sound(thrs, e), Room(thrs, t, e, last.node),
         NEW E, Handed(E, D, n, e)
  PROVE  Stack(t, thrs, fs, e, E)
<1>0. /\ Len(fs) = n + 1 /\ \A i \in 1 .. n - 1 : fs[i] = frs[i]
      /\ fs[n] = below /\ fs[n + 1] = last
  BY DEF Grown
<1>1. /\ D \in [1 .. n + 1 -> Dictionary]
      /\ D[1] = Empty
      /\ \A k \in 1 .. n + 1 : Sound(thrs, D[k])
      /\ \A k \in 1 .. n :
           /\ D[k + 1] = Narrowed(thrs, t, frs[k], D[k])
           /\ Room(thrs, t, D[k], frs[k].node)
           /\ frs[k].at # "call" =>
                t[frs[k].node].ft >= 0 /\ frs[k].save = Saved(D[k], t[frs[k].node].ft)
           /\ k < n => frs[k].at # "call"
  BY DEF Stack
<1>2. \A k \in 1 .. n + 2 : k \in 1 .. n \/ k = n + 1 \/ k = n + 2
  OBVIOUS
<1>3. \A k \in 1 .. n : k \in 1 .. n + 1 /\ k \in 1 .. n + 2 /\ k <= n
  OBVIOUS
<1>4. (\A k \in 1 .. n : E[k] = D[k]) /\ E[n + 1] = e /\ E[n + 2] = e
  BY DEF Handed
<1>5. E \in [1 .. n + 2 -> Dictionary]
  <2>1. \A k \in 1 .. n + 2 : E[k] \in Dictionary
    BY <1>1, <1>2, <1>3, <1>4
  <2> QED
    BY <2>1 DEF Handed
<1>6. 1 \in 1 .. n /\ n \in 1 .. n
  OBVIOUS
<1>7. E[1] = Empty
  BY <1>1, <1>4, <1>6
<1>8. \A k \in 1 .. n + 2 : Sound(thrs, E[k])
  BY <1>1, <1>2, <1>3, <1>4
<1>9. ASSUME NEW k \in 1 .. n + 1
      PROVE  /\ E[k + 1] = Narrowed(thrs, t, fs[k], E[k])
             /\ Room(thrs, t, E[k], fs[k].node)
             /\ fs[k].at # "call" =>
                  t[fs[k].node].ft >= 0 /\ fs[k].save = Saved(E[k], t[fs[k].node].ft)
             /\ k < n + 1 => fs[k].at # "call"
  <2>1. CASE k < n
    <3>1. k \in 1 .. n - 1 /\ k \in 1 .. n /\ k + 1 \in 1 .. n
      BY <2>1
    <3>2. E[k] = D[k] /\ E[k + 1] = D[k + 1] /\ fs[k] = frs[k]
      BY <1>0, <3>1, <1>4
    <3> QED
      BY <3>1, <3>2, <2>1, <1>1
  <2>2. CASE k = n
    <3>1. E[k] = D[n] /\ E[k + 1] = e
      BY <2>2, <1>4, <1>6
    <3>2. Room(thrs, t, D[n], fs[n].node)
      BY <1>0, <1>1, <1>6
    <3> QED
      BY <1>0, <3>1, <3>2, <2>2
  <2>3. CASE k = n + 1
    <3>1. E[k] = e /\ E[k + 1] = e
      BY <2>3, <1>4
    <3>2. Narrowed(thrs, t, fs[n + 1], e) = e
      BY <1>0 DEF Narrowed
    <3> QED
      BY <1>0, <3>1, <3>2, <2>3
  <2> QED
    BY <2>1, <2>2, <2>3
<1>10. Len(fs) = n + 1 /\ Len(fs) + 1 = n + 2
  BY <1>0
<1>11. E[n + 2] = e
  BY <1>4
<1> QED
  BY <1>5, <1>7, <1>8, <1>9, <1>10, <1>11 DEF Stack

LEMMA StackReturn ==
  ASSUME NEW t, NEW thrs, NEW frs, NEW inds, NEW D, Stack(t, thrs, frs, inds, D),
         NEW n \in Nat \ {0}, Len(frs) = n,
         NEW fs \in Seq(Frames(t)), Len(fs) = n - 1,
         \A i \in 1 .. n - 1 : fs[i] = frs[i],
         NEW E, E = [i \in 1 .. n |-> D[i]]
  PROVE  Stack(t, thrs, fs, D[n], E)
<1>1. /\ D \in [1 .. n + 1 -> Dictionary]
      /\ D[1] = Empty
      /\ \A k \in 1 .. n + 1 : Sound(thrs, D[k])
      /\ \A k \in 1 .. n :
           /\ D[k + 1] = Narrowed(thrs, t, frs[k], D[k])
           /\ Room(thrs, t, D[k], frs[k].node)
           /\ frs[k].at # "call" =>
                t[frs[k].node].ft >= 0 /\ frs[k].save = Saved(D[k], t[frs[k].node].ft)
           /\ k < n => frs[k].at # "call"
  BY DEF Stack
<1>2. \A k \in 1 .. n : k \in 1 .. n + 1
  OBVIOUS
<1>3. \A k \in 1 .. n : E[k] = D[k]
  OBVIOUS
<1>4. E \in [1 .. n -> Dictionary]
  <2>1. \A k \in 1 .. n : D[k] \in Dictionary
    BY <1>1, <1>2
  <2> QED
    BY <2>1
<1>5. E[1] = Empty /\ E[n] = D[n] /\ \A k \in 1 .. n : Sound(thrs, E[k])
  <2>1. 1 \in 1 .. n /\ n \in 1 .. n
    OBVIOUS
  <2> QED
    BY <2>1, <1>1, <1>2, <1>3
<1>6. ASSUME NEW k \in 1 .. n - 1
      PROVE  /\ E[k + 1] = Narrowed(thrs, t, fs[k], E[k])
             /\ Room(thrs, t, E[k], fs[k].node)
             /\ fs[k].at # "call" =>
                  t[fs[k].node].ft >= 0 /\ fs[k].save = Saved(E[k], t[fs[k].node].ft)
             /\ k < n - 1 => fs[k].at # "call"
  <2>1. k \in 1 .. n /\ k + 1 \in 1 .. n /\ k < n
    OBVIOUS
  <2>2. E[k] = D[k] /\ E[k + 1] = D[k + 1] /\ fs[k] = frs[k]
    BY <2>1, <1>3
  <2> QED
    BY <2>1, <2>2, <1>1
<1>7. Len(fs) + 1 = n
  OBVIOUS
<1> QED
  BY <1>4, <1>5, <1>6, <1>7 DEF Stack

--------------------------------------------------------------------------------
(* The actions *)

LEMMA TopFacts ==
  ASSUME NEW t, NEW thrs, NEW frs, NEW inds, NEW D, Stack(t, thrs, frs, inds, D),
         NEW n \in Nat \ {0}, Len(frs) = n
  PROVE  /\ D[n] \in Dictionary
         /\ Sound(thrs, D[n])
         /\ Room(thrs, t, D[n], frs[n].node)
         /\ frs[n] \in Frames(t)
         /\ frs[n].node \in DOMAIN t
         /\ inds = Narrowed(thrs, t, frs[n], D[n])
         /\ frs[n].at # "call" =>
              t[frs[n].node].ft >= 0 /\ frs[n].save = Saved(D[n], t[frs[n].node].ft)
         /\ t[frs[n].node].ft >= 0 => Splits(thrs, D[n], t[frs[n].node])
<1>1. n \in 1 .. n /\ n \in 1 .. n + 1
  OBVIOUS
<1>2. /\ D \in [1 .. n + 1 -> Dictionary]
      /\ D[n + 1] = inds
      /\ \A k \in 1 .. n + 1 : Sound(thrs, D[k])
      /\ \A k \in 1 .. n :
           /\ D[k + 1] = Narrowed(thrs, t, frs[k], D[k])
           /\ Room(thrs, t, D[k], frs[k].node)
           /\ frs[k].at # "call" =>
                t[frs[k].node].ft >= 0 /\ frs[k].save = Saved(D[k], t[frs[k].node].ft)
  BY DEF Stack
<1>3. frs[n] \in Frames(t)
  BY <1>1 DEF Stack
<1>4. frs[n].node \in DOMAIN t
  BY <1>3 DEF Frames
<1>5. Room(thrs, t, D[n], frs[n].node)
  BY <1>1, <1>2
<1>6. t[frs[n].node].ft >= 0 => Splits(thrs, D[n], t[frs[n].node])
  BY <1>5 DEF Room
<1> QED
  BY <1>1, <1>2, <1>3, <1>4, <1>5, <1>6

LEMMA SpaceFacts ==
  ASSUME NEW thrs, NEW ix \in Space(thrs)
  PROVE  /\ ix \in [Feature -> Nat]
         /\ \A f \in Feature : Bounds(f, thrs[f]) => ix[f] < Len(thrs[f])
<1>1. ix \in [Feature -> Nat] /\
      \A f \in Feature : ix[f] < IF thrs[f] = <<>> THEN 1 ELSE Len(thrs[f])
  BY DEF Space
<1>2. ASSUME NEW f \in Feature, Bounds(f, thrs[f]) PROVE ix[f] < Len(thrs[f])
  <2>1. Len(thrs[f]) >= 2
    BY <1>2 DEF Bounds
  <2>2. thrs[f] # <<>>
    BY <2>1
  <2> QED
    BY <1>1, <2>2
<1> QED
  BY <1>1, <1>2

\* The side that the tree takes at a node is the side that the indexes take
LEMMA SideFacts ==
  ASSUME NEW t \in Trees, NEW thrs, NEW d, NEW n \in DOMAIN t, t[n].ft >= 0,
         Splits(thrs, d, t[n]), NEW v, NEW ix, Agree(t, thrs, v, ix)
  PROVE  Decision(t, v)[n] =
           IF ToLeft(t, thrs, n, ix) THEN Decision(t, v)[t[n].left] ELSE Decision(t, v)[t[n].right]
<1>1. Bounds(t[n].ft, thrs[t[n].ft]) /\ Holds(thrs[t[n].ft], t[n].thr)
  BY DEF Splits
<1>2. v[t[n].ft] * Scale <= t[n].thr <=> ToLeft(t, thrs, n, ix)
  BY <1>1 DEF Agree
<1> QED
  BY <1>2, DecisionStep

LEMMA LeftKeeps ==
  ASSUME NEW t \in Trees, NEW thrs, NEW frs, NEW inds, NEW D, NEW rules, Len(rules) \in Nat,
         Stack(t, thrs, frs, inds, D), Cover(t, thrs, frs, D, rules), Truth(t, thrs, frs, D, rules),
         NEW n \in Nat \ {0}, Len(frs) = n,
         frs[n].at = "call", t[frs[n].node].ft >= 0,
         NEW fs \in Seq(Frames(t)), NEW below, NEW last, Grown(fs, frs, below, last),
         below.node = frs[n].node, below.at = "left",
         below.save = Saved(inds, t[frs[n].node].ft),
         last.at = "call", last.node = t[frs[n].node].left,
         NEW e, e = LeftOf(thrs, inds, t[frs[n].node])
  PROVE  \E E : /\ Stack(t, thrs, fs, e, E)
                /\ Cover(t, thrs, fs, E, rules)
                /\ Truth(t, thrs, fs, E, rules)
<1> DEFINE b == frs[n].node
           E == [i \in 1 .. n + 2 |-> IF i <= n THEN D[i] ELSE e]
<1>0. /\ Len(fs) = n + 1 /\ \A i \in 1 .. n - 1 : fs[i] = frs[i]
      /\ fs[n] = below /\ fs[n + 1] = last
  BY DEF Grown
<1>1. /\ D[n] \in Dictionary /\ Sound(thrs, D[n]) /\ Room(thrs, t, D[n], b)
      /\ b \in DOMAIN t /\ Splits(thrs, D[n], t[b])
      /\ inds = Narrowed(thrs, t, frs[n], D[n])
  BY TopFacts
<1>2. inds = D[n]
  BY <1>1 DEF Narrowed
<1>3. e = LeftOf(thrs, D[n], t[b]) /\ e = Narrowed(thrs, t, fs[n], D[n])
  BY <1>0, <1>2 DEF Narrowed
<1>4. /\ e \in Dictionary /\ Sound(thrs, e)
      /\ \A ix \in [Feature -> Nat] : Fits(e, ix) <=> Fits(D[n], ix) /\ ToLeft(t, thrs, b, ix)
  <2> DEFINE l == LeftOf(thrs, D[n], t[b])
  <2>1. /\ l \in Dictionary /\ Sound(thrs, l)
        /\ \A ix \in [Feature -> Nat] : Fits(l, ix) <=> Fits(D[n], ix) /\ ToLeft(t, thrs, b, ix)
    BY <1>1, LeftFacts DEF ToLeft
  <2>2. e = l
    BY <1>3
  <2> HIDE DEF l
  <2> QED
    BY <2>1, <2>2
<1>5. Room(thrs, t, e, fs[n + 1].node)
  BY <1>0, <1>1, <1>3, RoomLeft
<1>6. fs[n].at # "call" /\ fs[n].save = Saved(D[n], t[fs[n].node].ft) /\ t[fs[n].node].ft >= 0
  BY <1>0, <1>2
<1>7. (\A i \in 1 .. n : E[i] = D[i]) /\ E[n + 1] = e
  OBVIOUS
<1> HIDE DEF E
<1>8. Stack(t, thrs, fs, e, E)
  <2>1. Handed(E, D, n, e)
    BY DEF E, Handed
  <2>2. e \in Dictionary /\ Sound(thrs, e) /\ e = Narrowed(thrs, t, below, D[n])
    BY <1>0, <1>3, <1>4
  <2>3. /\ Room(thrs, t, e, last.node)
        /\ t[below.node].ft >= 0 /\ below.at # "call" /\ below.save = Saved(D[n], t[below.node].ft)
    BY <1>0, <1>5, <1>6
  <2> QED
    BY <2>1, <2>2, <2>3, StackCall
<1>9. HandsOn(t, thrs, frs[n], fs[n], D[n], e)
  <2>1. ASSUME NEW ix \in Space(thrs)
        PROVE  /\ Owns(t, thrs, frs[n], D[n], ix) <=>
                    Owns(t, thrs, fs[n], D[n], ix) \/ Fits(e, ix)
               /\ ~(Owns(t, thrs, fs[n], D[n], ix) /\ Fits(e, ix))
               /\ Fits(e, ix) => Fits(D[n], ix)
    <3>1. Fits(e, ix) <=> Fits(D[n], ix) /\ ToLeft(t, thrs, b, ix)
      BY <1>4, SpaceFacts
    <3>2. Owns(t, thrs, frs[n], D[n], ix) <=> Fits(D[n], ix)
      BY DEF Owns
    <3>3. Owns(t, thrs, fs[n], D[n], ix) <=> Fits(D[n], ix) /\ ~ToLeft(t, thrs, b, ix)
      BY <1>0 DEF Owns
    <3> QED
      BY <3>1, <3>2, <3>3
  <2> QED
    BY <2>1 DEF HandsOn
<1>10. Descends(t, thrs, e, frs[n].node, fs[n + 1].node)
  <2>1. ASSUME NEW ix \in Space(thrs), NEW v \in [Feature -> Nat], Agree(t, thrs, v, ix), Fits(e, ix)
        PROVE  Decision(t, v)[b] = Decision(t, v)[t[b].left]
    <3>1. ToLeft(t, thrs, b, ix)
      BY <1>4, <2>1, SpaceFacts
    <3> QED
      BY <3>1, <1>1, <2>1, SideFacts
  <2> QED
    BY <1>0, <2>1 DEF Descends
<1>11. Cover(t, thrs, fs, E, rules) /\ Truth(t, thrs, fs, E, rules)
  BY <1>0, <1>7, <1>9, <1>10, CoverCall
<1> QED
  BY <1>8, <1>11

LEMMA RightKeeps ==
  ASSUME NEW t \in Trees, NEW thrs, NEW frs, NEW inds, NEW D, NEW rules, Len(rules) \in Nat,
         Stack(t, thrs, frs, inds, D), Cover(t, thrs, frs, D, rules), Truth(t, thrs, frs, D, rules),
         NEW n \in Nat \ {0}, Len(frs) = n,
         frs[n].at = "left",
         NEW fs \in Seq(Frames(t)), NEW below, NEW last, Grown(fs, frs, below, last),
         below.node = frs[n].node, below.at = "right", below.save = frs[n].save,
         last.at = "call", last.node = t[frs[n].node].right,
         NEW e, e = RightOf(thrs, D[n], t[frs[n].node])
  PROVE  \E E : /\ Stack(t, thrs, fs, e, E)
                /\ Cover(t, thrs, fs, E, rules)
                /\ Truth(t, thrs, fs, E, rules)
<1> DEFINE b == frs[n].node
           E == [i \in 1 .. n + 2 |-> IF i <= n THEN D[i] ELSE e]
<1>0. /\ Len(fs) = n + 1 /\ \A i \in 1 .. n - 1 : fs[i] = frs[i]
      /\ fs[n] = below /\ fs[n + 1] = last
  BY DEF Grown
<1>1. /\ D[n] \in Dictionary /\ Sound(thrs, D[n]) /\ Room(thrs, t, D[n], b)
      /\ b \in DOMAIN t /\ Splits(thrs, D[n], t[b])
      /\ t[b].ft >= 0 /\ frs[n].save = Saved(D[n], t[b].ft)
  BY TopFacts
<1>2. t[b].ft \in Feature /\ Bounds(t[b].ft, thrs[t[b].ft])
  BY <1>1, TreeTypes DEF Splits
<1>3. e = Narrowed(thrs, t, fs[n], D[n])
  BY <1>0 DEF Narrowed
<1>4. /\ e \in Dictionary /\ Sound(thrs, e)
      /\ \A ix \in [Feature -> Nat] : ix[t[b].ft] < Len(thrs[t[b].ft]) =>
           (Fits(e, ix) <=> Fits(D[n], ix) /\ ~ToLeft(t, thrs, b, ix))
  BY <1>1, RightFacts DEF ToLeft
<1>5. Room(thrs, t, e, fs[n + 1].node)
  BY <1>0, <1>1, RoomRight
<1>6. fs[n].at # "call" /\ fs[n].save = Saved(D[n], t[fs[n].node].ft) /\ t[fs[n].node].ft >= 0
  BY <1>0, <1>1
<1>7. (\A i \in 1 .. n : E[i] = D[i]) /\ E[n + 1] = e
  OBVIOUS
<1> HIDE DEF E
<1>8. Stack(t, thrs, fs, e, E)
  <2>1. Handed(E, D, n, e)
    BY DEF E, Handed
  <2>2. e \in Dictionary /\ Sound(thrs, e) /\ e = Narrowed(thrs, t, below, D[n])
    BY <1>0, <1>3, <1>4
  <2>3. /\ Room(thrs, t, e, last.node)
        /\ t[below.node].ft >= 0 /\ below.at # "call" /\ below.save = Saved(D[n], t[below.node].ft)
    BY <1>0, <1>5, <1>6
  <2> QED
    BY <2>1, <2>2, <2>3, StackCall
<1>9. ASSUME NEW ix \in Space(thrs)
      PROVE  Fits(e, ix) <=> Fits(D[n], ix) /\ ~ToLeft(t, thrs, b, ix)
  <2>1. ix \in [Feature -> Nat] /\ ix[t[b].ft] < Len(thrs[t[b].ft])
    BY <1>2, SpaceFacts
  <2> QED
    BY <2>1, <1>4
<1>10. HandsOn(t, thrs, frs[n], fs[n], D[n], e)
  <2>1. ASSUME NEW ix \in Space(thrs)
        PROVE  /\ Owns(t, thrs, frs[n], D[n], ix) <=>
                    Owns(t, thrs, fs[n], D[n], ix) \/ Fits(e, ix)
               /\ ~(Owns(t, thrs, fs[n], D[n], ix) /\ Fits(e, ix))
               /\ Fits(e, ix) => Fits(D[n], ix)
    <3>1. Owns(t, thrs, frs[n], D[n], ix) <=> Fits(D[n], ix) /\ ~ToLeft(t, thrs, b, ix)
      BY DEF Owns
    <3>2. ~Owns(t, thrs, fs[n], D[n], ix)
      BY <1>0 DEF Owns
    <3> QED
      BY <3>1, <3>2, <1>9
  <2> QED
    BY <2>1 DEF HandsOn
<1>11. Descends(t, thrs, e, frs[n].node, fs[n + 1].node)
  <2>1. ASSUME NEW ix \in Space(thrs), NEW v \in [Feature -> Nat], Agree(t, thrs, v, ix), Fits(e, ix)
        PROVE  Decision(t, v)[b] = Decision(t, v)[t[b].right]
    <3>1. ~ToLeft(t, thrs, b, ix)
      BY <1>9, <2>1
    <3> QED
      BY <3>1, <1>1, <2>1, SideFacts
  <2> QED
    BY <1>0, <2>1 DEF Descends
<1>12. Cover(t, thrs, fs, E, rules) /\ Truth(t, thrs, fs, E, rules)
  BY <1>0, <1>7, <1>10, <1>11, CoverCall
<1> QED
  BY <1>8, <1>12

LEMMA ClimbKeeps ==
  ASSUME NEW t \in Trees, NEW thrs, NEW frs, NEW inds, NEW D, NEW rules, Len(rules) \in Nat,
         Stack(t, thrs, frs, inds, D), Cover(t, thrs, frs, D, rules), Truth(t, thrs, frs, D, rules),
         NEW n \in Nat \ {0}, Len(frs) = n,
         frs[n].at = "right",
         NEW fs \in Seq(Frames(t)), Shrunk(fs, frs)
  PROVE  \E E : /\ Stack(t, thrs, fs, Restored(inds, t[frs[n].node].ft, frs[n].save), E)
                /\ Cover(t, thrs, fs, E, rules)
                /\ Truth(t, thrs, fs, E, rules)
<1> DEFINE b == frs[n].node
           E == [i \in 1 .. n |-> D[i]]
<1>0. Len(fs) = n - 1 /\ \A i \in 1 .. n - 1 : fs[i] = frs[i]
  BY DEF Shrunk
<1>1. /\ D[n] \in Dictionary
      /\ inds = Narrowed(thrs, t, frs[n], D[n])
      /\ frs[n].save = Saved(D[n], t[b].ft)
  BY TopFacts
<1>2. inds = RightOf(thrs, D[n], t[b])
  BY <1>1 DEF Narrowed
<1>3. Restored(inds, t[b].ft, frs[n].save) = D[n]
  <2> DEFINE f == t[b].ft
             i == <<IndexOf(thrs[f], t[b].thr) + 1, High(thrs, D[n], f)>>
  <2>1. inds = With(D[n], f, i)
    BY <1>2 DEF RightOf
  <2> HIDE DEF f, i
  <2>2. Restored(With(D[n], f, i), f, Saved(D[n], f)) = D[n]
    BY <1>1, RestoredIs
  <2> QED
    BY <1>1, <2>1, <2>2 DEF f
<1>4. \A i \in 1 .. n - 1 : E[i] = D[i]
  OBVIOUS
<1>5. E = [i \in 1 .. n |-> D[i]]
  OBVIOUS
<1> HIDE DEF E
<1>6. Stack(t, thrs, fs, D[n], E)
  BY <1>0, <1>5, StackReturn
<1>7. \A ix \in Space(thrs) : ~Owns(t, thrs, frs[n], D[n], ix)
  BY DEF Owns
<1>8. Cover(t, thrs, fs, E, rules) /\ Truth(t, thrs, fs, E, rules)
  BY <1>0, <1>4, <1>7, CoverReturn
<1> QED
  BY <1>3, <1>6, <1>8

LEMMA LeafKeeps ==
  ASSUME NEW t \in Trees, NEW thrs, NEW frs, NEW inds, NEW D,
         NEW rules, NEW rs, NEW rule, Len(rules) \in Nat, Extended(rs, rules, rule),
         Stack(t, thrs, frs, inds, D), Cover(t, thrs, frs, D, rules), Truth(t, thrs, frs, D, rules),
         NEW n \in Nat \ {0}, Len(frs) = n,
         frs[n].at = "call", ~(t[frs[n].node].ft >= 0),
         rule.cg = t[frs[n].node].cg, rule.conds = inds,
         NEW fs \in Seq(Frames(t)), Shrunk(fs, frs)
  PROVE  \E E : /\ Stack(t, thrs, fs, inds, E)
                /\ Cover(t, thrs, fs, E, rs)
                /\ Truth(t, thrs, fs, E, rs)
<1> DEFINE b == frs[n].node
           E == [i \in 1 .. n |-> D[i]]
           m == Len(rules)
           l == n - 1
           next == m + 1
<1>0. /\ Len(fs) = n - 1 /\ \A i \in 1 .. n - 1 : fs[i] = frs[i]
      /\ Len(rs) = m + 1 /\ \A k \in 1 .. m : rs[k] = rules[k]
      /\ rs[m + 1] = rule
  BY DEF Shrunk, Extended
<1>1. b \in DOMAIN t /\ inds = Narrowed(thrs, t, frs[n], D[n])
  BY TopFacts
<1>2. inds = D[n]
  BY <1>1 DEF Narrowed
<1>3. Same(fs, frs, n - 1) /\ Same(E, D, n - 1) /\ Same(rs, rules, m)
  BY <1>0 DEF Same
<1>4. E = [i \in 1 .. n |-> D[i]]
  OBVIOUS
<1> HIDE DEF E
<1>5. Stack(t, thrs, fs, D[n], E)
  BY <1>0, <1>4, StackReturn
<1>6. TakesOver(t, thrs, frs[n], D[n], rule)
  BY <1>2 DEF Owns, TakesOver
<1>7. Says(t, rule, frs[n].node)
  BY <1>1, DecisionStep DEF Says
<1>9. /\ l = n - 1 /\ next = m + 1 /\ Len(fs) = l /\ Len(rs) = next /\ rs[next] = rule
      /\ Same(fs, frs, l) /\ Same(E, D, l)
      /\ Len(frs) = n /\ m \in Nat /\ Len(rules) = m
  BY <1>0, <1>3
<1> HIDE DEF m, l, next
<1>8. Cover(t, thrs, fs, E, rs) /\ Truth(t, thrs, fs, E, rs)
  <2>1. /\ t \in Trees /\ n \in Nat \ {0}
        /\ Cover(t, thrs, frs, D, rules) /\ Truth(t, thrs, frs, D, rules)
    OBVIOUS
  <2> QED
    BY ONLY <2>1, <1>3, <1>6, <1>7, <1>9, CoverRule
<1> QED
  BY <1>2, <1>5, <1>8

LEMMA Popped ==
  ASSUME NEW X, NEW s \in Seq(X), s # <<>>
  PROVE  /\ Front(s) \in Seq(X)
         /\ Len(s) \in Nat \ {0}
         /\ Len(Front(s)) = Len(s) - 1
         /\ Shrunk(Front(s), s)
         /\ \A i \in 1 .. Len(s) - 1 : Front(s)[i] = s[i]
         /\ s[Len(s)] \in X
<1>1. Len(s) \in Nat \ {0}
  BY EmptySeq
<1>2. Len(s) - 1 \in Int /\ \A i \in 1 .. Len(s) - 1 : s[i] \in X
  BY <1>1, ElementOfSeq
<1>3. /\ Front(s) \in Seq(X)
      /\ Len(Front(s)) = IF 1 <= Len(s) - 1 THEN Len(s) - 1 - 1 + 1 ELSE 0
      /\ \A i \in 1 .. Len(s) - 1 - 1 + 1 : Front(s)[i] = s[1 + i - 1]
  BY <1>2, SubSeqProperties DEF Front
<1>4. Len(s) \in 1 .. Len(s)
  BY <1>1
<1>5. s[Len(s)] \in X
  BY <1>4, ElementOfSeq
<1>6. ASSUME NEW i \in 1 .. Len(s) - 1 PROVE Front(s)[i] = s[i]
  <2>1. i \in 1 .. Len(s) - 1 - 1 + 1 /\ 1 + i - 1 = i
    BY <1>1
  <2>2. Front(s)[i] = s[1 + i - 1]
    BY <2>1, <1>3
  <2> QED
    BY <2>1, <2>2
<1>7. Len(Front(s)) = Len(s) - 1
  <2>1. CASE Len(s) = 1
    BY <2>1, <1>3
  <2>2. CASE Len(s) > 1
    <3>1. 1 <= Len(s) - 1 /\ Len(s) - 1 - 1 + 1 = Len(s) - 1
      BY <2>2, <1>1
    <3> QED
      BY <3>1, <1>3
  <2>3. Len(s) = 1 \/ Len(s) > 1
    <3> DEFINE n == Len(s)
    <3>1. n \in Nat \ {0}
      BY <1>1
    <3> HIDE DEF n
    <3>2. n = 1 \/ n > 1
      BY <3>1
    <3> QED
      BY <3>2 DEF n
  <2> QED
    BY ONLY <2>1, <2>2, <2>3
<1> QED
  BY <1>1, <1>3, <1>5, <1>6, <1>7 DEF Shrunk

LEMMA Pushed ==
  ASSUME NEW X, NEW s \in Seq(X), s # <<>>, NEW a \in X, NEW b \in X,
         NEW r, r = Front(s) \o <<a, b>>
  PROVE  /\ r \in Seq(X)
         /\ Grown(r, s, a, b)
<1> DEFINE f == Front(s)
           n == Len(s)
           p == <<a, b>>
<1>1. n \in Nat \ {0} /\ f \in Seq(X) /\ Len(f) = n - 1 /\ \A i \in 1 .. n - 1 : f[i] = s[i]
  BY Popped
<1>2. p \in Seq(X) /\ Len(p) = 2 /\ p[1] = a /\ p[2] = b
  OBVIOUS
<1>3. r = f \o p
  OBVIOUS
<1> HIDE DEF f, n, p
<1>0. /\ r \in Seq(X) /\ Len(r) = Len(f) + Len(p)
      /\ \A i \in 1 .. Len(f) + Len(p) : r[i] = IF i <= Len(f) THEN f[i] ELSE p[i - Len(f)]
  <2>1. /\ f \o p \in Seq(X) /\ Len(f \o p) = Len(f) + Len(p)
        /\ \A i \in 1 .. Len(f) + Len(p) :
             (f \o p)[i] = IF i <= Len(f) THEN f[i] ELSE p[i - Len(f)]
    <3>1. f \in Seq(X) /\ p \in Seq(X)
      BY <1>1, <1>2
    <3> QED
      BY ONLY <3>1, ConcatProperties
  <2> QED
    BY <2>1, <1>3
<1>4. r \in Seq(X) /\ Len(r) = n + 1
  BY <1>0, <1>1, <1>2
<1>5. \A i \in 1 .. n - 1 : r[i] = f[i]
  BY <1>0, <1>1, <1>2
<1>6. r[n] = p[1] /\ r[n + 1] = p[2]
  <2>1. /\ n \in 1 .. Len(f) + Len(p) /\ ~(n <= Len(f)) /\ n - Len(f) = 1
        /\ n + 1 \in 1 .. Len(f) + Len(p) /\ ~(n + 1 <= Len(f)) /\ (n + 1) - Len(f) = 2
    BY <1>1, <1>2
  <2>2. r[n] = p[n - Len(f)] /\ r[n + 1] = p[(n + 1) - Len(f)]
    BY <2>1, <1>0
  <2> QED
    BY <2>1, <2>2
<1> QED
  BY <1>1, <1>2, <1>4, <1>5, <1>6 DEF n, Grown

\* The walk that collects the thresholds
LEMMA CollectedStep ==
  ASSUME NEW t \in Trees, NEW thrs, NEW todo, Collected(t, thrs, todo), todo # <<>>,
         NEW a, NEW ns,
         LET n == t[Head(todo)]
         IN  IF n.ft >= 0
             THEN /\ a = [thrs EXCEPT ![n.ft] = Append(@, n.thr)]
                  /\ ns = <<n.left, n.right>> \o Tail(todo)
             ELSE a = thrs /\ ns = Tail(todo)
  PROVE  Collected(t, a, ns)
<1> DEFINE h == Head(todo)
           r == Tail(todo)
<1>1. todo \in Seq(DOMAIN t) /\ thrs \in [Feature -> Seq(Nat \ {0})]
  BY DEF Collected
<1>2. /\ Len(todo) \in Nat \ {0}
      /\ h = todo[1] /\ h \in DOMAIN t
      /\ r \in Seq(DOMAIN t) /\ Len(r) = Len(todo) - 1
      /\ \A j \in 1 .. Len(todo) - 1 : r[j] = todo[j + 1]
  BY <1>1
<1> DEFINE Left(m, s) == \E j \in 1 .. Len(s) : s[j] = m
           Listed(n, T) == \E i \in 1 .. Len(T[t[n].ft]) : T[t[n].ft][i] = t[n].thr
<1>3. PICK C \in SUBSET DOMAIN t :
        /\ 0 \in C \/ Left(0, todo)
        /\ \A n \in C : t[n].ft >= 0 =>
             /\ Listed(n, thrs)
             /\ \A m \in {t[n].left, t[n].right} : m \in C \/ Left(m, todo)
  BY DEF Collected
<1>4. ASSUME NEW m, Left(m, todo) PROVE m = h \/ Left(m, r)
  <2>1. PICK j \in 1 .. Len(todo) : todo[j] = m
    BY <1>4
  <2>2. CASE j = 1
    BY <2>1, <2>2, <1>2
  <2>3. CASE j # 1
    <3>1. j - 1 \in 1 .. Len(todo) - 1 /\ (j - 1) + 1 = j
      BY <2>3, <1>2
    <3>2. r[j - 1] = m
      BY <3>1, <2>1, <1>2
    <3> QED
      BY <3>1, <3>2, <1>2
  <2> QED
    BY <2>2, <2>3
<1> DEFINE B == C \cup {h}
<1>5. ASSUME NEW s, \A m : Left(m, r) => Left(m, s),
             NEW T, \A n \in C : t[n].ft >= 0 /\ Listed(n, thrs) => Listed(n, T),
             t[h].ft >= 0 =>
               Listed(h, T) /\ Left(t[h].left, s) /\ Left(t[h].right, s)
      PROVE  /\ 0 \in B \/ Left(0, s)
             /\ \A n \in B : t[n].ft >= 0 =>
                  /\ Listed(n, T)
                  /\ \A m \in {t[n].left, t[n].right} : m \in B \/ Left(m, s)
  <2> HIDE DEF Left, Listed, h, r
  <2>1. 0 \in B \/ Left(0, s)
    BY <1>3, <1>4, <1>5
  <2>2. ASSUME NEW n \in C, t[n].ft >= 0
        PROVE  Listed(n, T) /\ \A m \in {t[n].left, t[n].right} : m \in B \/ Left(m, s)
    BY <2>2, <1>3, <1>4, <1>5
  <2>3. ASSUME t[h].ft >= 0
        PROVE  Listed(h, T) /\ \A m \in {t[h].left, t[h].right} : m \in B \/ Left(m, s)
    BY <2>3, <1>5
  <2> QED
    BY <2>1, <2>2, <2>3
<1>6. CASE t[h].ft >= 0
  <2> DEFINE f == t[h].ft
             th == t[h].thr
             p == <<t[h].left, t[h].right>>
  <2>1. /\ f \in Feature /\ th \in Nat \ {0}
        /\ t[h].left \in DOMAIN t /\ t[h].right \in DOMAIN t
    BY <1>2, <1>6, TreeTypes
  <2>2. a = [thrs EXCEPT ![f] = Append(@, th)] /\ ns = p \o r
    BY <1>6
  <2>3. p \in Seq(DOMAIN t) /\ Len(p) = 2 /\ p[1] = t[h].left /\ p[2] = t[h].right
    BY <2>1
  <2> HIDE DEF p
  <2>4. /\ ns \in Seq(DOMAIN t) /\ Len(ns) = Len(p) + Len(r)
        /\ \A i \in 1 .. Len(p) + Len(r) : ns[i] = IF i <= Len(p) THEN p[i] ELSE r[i - Len(p)]
    <3> HIDE DEF r
    <3> QED
      BY <2>2, <2>3, <1>2, ConcatProperties
  <2>5. Len(ns) = Len(r) + 2 /\ ns[1] = p[1] /\ ns[2] = p[2] /\ \A j \in 1 .. Len(r) : ns[j + 2] = r[j]
    <3> HIDE DEF r
    <3>1. Len(r) \in Nat
      BY <1>2
    <3> QED
      BY <2>3, <2>4, <3>1
  <2>6. \A m : Left(m, r) => Left(m, ns)
    <3> HIDE DEF r
    <3>1. ASSUME NEW m, NEW j \in 1 .. Len(r), r[j] = m PROVE Left(m, ns)
      <4>1. j + 2 \in 1 .. Len(ns) /\ ns[j + 2] = m
        BY <3>1, <2>5, <1>2
      <4> QED
        BY <4>1
    <3> QED
      BY <3>1
  <2>7. Left(t[h].left, ns) /\ Left(t[h].right, ns)
    <3> HIDE DEF r
    <3>1. 1 \in 1 .. Len(ns) /\ 2 \in 1 .. Len(ns)
      BY <2>5, <1>2
    <3> QED
      BY <3>1, <2>3, <2>5
  <2>8. /\ a \in [Feature -> Seq(Nat \ {0})]
        /\ a[f] = Append(thrs[f], th)
        /\ \A g \in Feature : g # f => a[g] = thrs[g]
    BY <2>1, <2>2, <1>1
  <2>9. thrs[f] \in Seq(Nat \ {0})
    BY <2>1, <1>1
  <2>10. /\ Len(a[f]) = Len(thrs[f]) + 1
         /\ a[f][Len(thrs[f]) + 1] = th
         /\ \A i \in 1 .. Len(thrs[f]) : a[f][i] = thrs[f][i]
         /\ Len(thrs[f]) \in Nat
    <3>1. Len(thrs[f]) \in Nat
      BY <2>9, LenProperties
    <3> HIDE DEF f, th
    <3> QED
      BY <2>1, <2>8, <2>9, <3>1, AppendProperties
  <2>11. Listed(h, a)
    <3>1. Len(thrs[f]) + 1 \in 1 .. Len(a[f])
      BY <2>10
    <3> QED
      BY <3>1, <2>10
  <2>12. ASSUME NEW n \in C, t[n].ft >= 0, Listed(n, thrs) PROVE Listed(n, a)
    <3>1. t[n].ft \in Feature
      BY <2>12, TreeTypes
    <3>2. PICK i \in 1 .. Len(thrs[t[n].ft]) : thrs[t[n].ft][i] = t[n].thr
      BY <2>12
    <3>3. CASE t[n].ft = f
      <4> HIDE DEF f
      <4>1. i \in 1 .. Len(thrs[f]) /\ thrs[f][i] = t[n].thr
        BY <3>2, <3>3
      <4> DEFINE x == t[n].thr
                 T == thrs[f]
                 U == a[f]
      <4> HIDE DEF x, T, U
      <4>0. Len(T) \in Nat /\ Len(U) = Len(T) + 1 /\ \A j \in 1 .. Len(T) : U[j] = T[j]
        BY <2>10 DEF T, U
      <4>3. i \in 1 .. Len(T) /\ T[i] = x
        BY <4>1 DEF T, x
      <4>4. i \in 1 .. Len(U) /\ U[i] = x
        <5>1. U[i] = x
          BY ONLY <4>0, <4>3
        <5>2. i \in 1 .. Len(U)
          BY ONLY <4>0, <4>3
        <5> QED
          BY ONLY <5>1, <5>2
      <4> QED
        BY <4>4, <3>3 DEF U, x
    <3>4. CASE t[n].ft # f
      BY <3>1, <3>2, <3>4, <2>8
    <3> QED
      BY <3>3, <3>4
  <2> HIDE DEF Left, Listed, h, r, f
  <2>13. /\ 0 \in B \/ Left(0, ns)
         /\ \A n \in B : t[n].ft >= 0 =>
              /\ Listed(n, a)
              /\ \A m \in {t[n].left, t[n].right} : m \in B \/ Left(m, ns)
    BY <2>6, <2>7, <2>11, <2>12, <1>5
  <2>14. B \in SUBSET DOMAIN t
    BY <1>2
  <2> HIDE DEF B
  <2> QED
    BY <2>4, <2>8, <2>13, <2>14 DEF Collected, Left, Listed
<1>7. CASE ~(t[h].ft >= 0)
  <2>1. a = thrs /\ ns = r
    BY <1>7
  <2> HIDE DEF Left, Listed, h, r
  <2>2. /\ 0 \in B \/ Left(0, ns)
        /\ \A n \in B : t[n].ft >= 0 =>
             /\ Listed(n, a)
             /\ \A m \in {t[n].left, t[n].right} : m \in B \/ Left(m, ns)
    BY <2>1, <1>5, <1>7
  <2>3. B \in SUBSET DOMAIN t
    BY <1>2
  <2>4. ns \in Seq(DOMAIN t) /\ a \in [Feature -> Seq(Nat \ {0})]
    BY <2>1, <1>1, <1>2
  <2> HIDE DEF B
  <2> QED
    BY <2>2, <2>3, <2>4 DEF Collected, Left, Listed
<1> QED
  BY <1>6, <1>7

\* Once it has ended every node has been visited
LEMMA SortedWritten ==
  ASSUME NEW t \in Trees, NEW thrs, Collected(t, thrs, <<>>),
         NEW a, a = [f \in Feature |-> IF thrs[f] = <<>> THEN <<>> ELSE Bounded(f, thrs[f])],
         NEW frs, frs = <<[node |-> 0, at |-> "call", save |-> <<>>]>>
  PROVE  Walked(t, a, frs, Empty, <<>>)
<1>1. thrs \in [Feature -> Seq(Nat \ {0})]
  BY DEF Collected
<1>2. PICK C \in SUBSET DOMAIN t :
        /\ 0 \in C
        /\ \A n \in C : t[n].ft >= 0 =>
             /\ \E i \in 1 .. Len(thrs[t[n].ft]) : thrs[t[n].ft][i] = t[n].thr
             /\ {t[n].left, t[n].right} \subseteq C
  <2> DEFINE none == <<>>
  <2>1. 1 .. Len(none) = {}
    OBVIOUS
  <2>2. Collected(t, thrs, none)
    OBVIOUS
  <2> HIDE DEF none
  <2>3. PICK C \in SUBSET DOMAIN t :
          /\ 0 \in C \/ \E j \in 1 .. Len(none) : none[j] = 0
          /\ \A n \in C : t[n].ft >= 0 =>
               /\ \E i \in 1 .. Len(thrs[t[n].ft]) : thrs[t[n].ft][i] = t[n].thr
               /\ \A m \in {t[n].left, t[n].right} :
                    m \in C \/ \E j \in 1 .. Len(none) : none[j] = m
    BY <2>2 DEF Collected
  <2>4. 0 \in C
    BY <2>1, <2>3
  <2>5. \A n \in C : t[n].ft >= 0 =>
          /\ \E i \in 1 .. Len(thrs[t[n].ft]) : thrs[t[n].ft][i] = t[n].thr
          /\ {t[n].left, t[n].right} \subseteq C
    BY <2>1, <2>3
  <2> QED
    BY <2>4, <2>5
<1>3. ASSUME NEW f \in Feature, thrs[f] # <<>>
      PROVE  /\ Bounds(f, a[f]) /\ Len(a[f]) = Len(thrs[f]) + 2
             /\ \A i \in 1 .. Len(thrs[f]) : Holds(a[f], thrs[f][i])
  <2>1. a[f] = Bounded(f, thrs[f]) /\ thrs[f] \in Seq(Nat \ {0})
    BY <1>1, <1>3
  <2> QED
    BY <2>1, BoundedFacts
<1>4. Lists(a)
  <2>1. ASSUME NEW f \in Feature
        PROVE  a[f] \in Seq(Nat) /\ (a[f] = <<>> \/ Bounds(f, a[f]))
    <3>1. CASE thrs[f] = <<>>
      BY <3>1
    <3>2. CASE thrs[f] # <<>>
      BY <3>2, <1>3 DEF Bounds
    <3> QED
      BY <3>1, <3>2
  <2> QED
    BY <2>1 DEF Lists
<1>5. Room(a, t, Empty, 0)
  <2>1. ASSUME NEW b \in C, t[b].ft >= 0 PROVE Splits(a, Empty, t[b])
    <3> DEFINE f == t[b].ft
               T == a[f]
    <3>1. f \in Feature /\ t[b].thr \in Nat
      BY <2>1, TreeTypes
    <3>2. PICK i \in 1 .. Len(thrs[f]) : thrs[f][i] = t[b].thr
      BY <1>2, <2>1
    <3>3. thrs[f] # <<>>
      BY <3>2
    <3>4. Bounds(f, T) /\ Holds(T, t[b].thr)
      BY <1>3, <3>1, <3>2, <3>3
    <3>5. IndexOf(T, t[b].thr) \in 1 .. Len(T) - 2 /\ Len(T) \in Nat
      <4> HIDE DEF f, T
      <4>1. Len(T) \in Nat
        BY <3>4 DEF Bounds
      <4> QED
        BY <4>1, <3>1, <3>4, IndexOfFacts
    <3>6. Low(Empty, f) = 0 /\ High(a, Empty, f) = Len(T) - 1
      BY EmptyFacts DEF Low, High
    <3> HIDE DEF f, T
    <3>7. 0 <= IndexOf(T, t[b].thr) /\ IndexOf(T, t[b].thr) < Len(T) - 1
      BY <3>5
    <3> QED
      BY <3>4, <3>6, <3>7 DEF Splits, f, T
  <2>2. Closed(t, C)
    BY <1>2 DEF Closed
  <2> QED
    BY <1>2, <2>1, <2>2 DEF Room
<1> DEFINE D == [k \in 1 .. 2 |-> Empty]
<1>6. /\ frs \in Seq(Frames(t)) /\ Len(frs) = 1
      /\ frs[1].node = 0 /\ frs[1].at = "call"
  <2>1. 0 \in DOMAIN t
    BY TreeTypes
  <2>2. [node |-> 0, at |-> "call", save |-> <<>>] \in Frames(t)
    BY <2>1 DEF Frames, Positions, Saves
  <2> QED
    BY <2>2
<1>7. D[1] = Empty /\ D[2] = Empty /\ DOMAIN D = 1 .. 2
  OBVIOUS
<1>8. D \in [1 .. 2 -> Dictionary]
  BY EmptyFacts
<1> HIDE DEF D
<1>9. Stack(t, a, frs, Empty, D)
  <2>1. \A k \in 1 .. 2 : k = 1 \/ k = 2
    OBVIOUS
  <2>2. \A k \in 1 .. 2 : Sound(a, D[k])
    BY <2>1, <1>7, EmptyFacts
  <2>3. ASSUME NEW k \in 1 .. 1
        PROVE  /\ D[k + 1] = Narrowed(a, t, frs[k], D[k])
               /\ Room(a, t, D[k], frs[k].node)
               /\ frs[k].at = "call" /\ ~(k < 1)
    <3>1. k = 1 /\ k + 1 = 2
      OBVIOUS
    <3> QED
      BY <3>1, <1>5, <1>6, <1>7 DEF Narrowed
  <2>4. Len(frs) + 1 = 2
    BY <1>6
  <2> QED
    BY <1>6, <1>7, <1>8, <2>2, <2>3, <2>4 DEF Stack
<1>10. Cover(t, a, frs, D, <<>>)
  <2>1. \A j \in 1 .. Len(frs) : j = 1
    BY <1>6
  <2>2. 1 \in 1 .. Len(frs) /\ ~ \E k \in 1 .. Len(<<>>) : TRUE
    BY <1>6
  <2>3. \A ix : Owns(t, a, frs[1], D[1], ix)
    BY <1>6, <1>7, EmptyFacts DEF Owns
  <2>4. \A i, j \in 1 .. Len(frs) : ~(i < j)
    BY <1>6
  <2> QED
    BY <2>2, <2>3, <2>4 DEF Cover
<1>11. Truth(t, a, frs, D, <<>>)
  <2>1. \A j \in 1 .. Len(frs) : frs[j].node = 0
    BY <1>6
  <2>2. ~ \E k \in 1 .. Len(<<>>) : TRUE
    OBVIOUS
  <2> QED
    BY <2>1, <2>2 DEF Truth
<1> QED
  BY <1>4, <1>9, <1>10, <1>11 DEF Walked

\* What GoLeft and GoRight do to the calls and to the dictionary, and WriteLeaf to the rules
Calls(fs, frs, top, at, save, child) ==
  fs = Front(frs) \o <<[top EXCEPT !.at = at, !.save = save],
                      [node |-> child, at |-> "call", save |-> <<>>]>>

GivesLeft(e, thrs, inds, n, save) ==
  e = With(inds, n.ft, <<IF save = <<>> THEN 0 ELSE save[1], IndexOf(thrs[n.ft], n.thr)>>)

GivesRight(e, thrs, inds, n, save) ==
  e = With(inds, n.ft, <<IndexOf(thrs[n.ft], n.thr) + 1,
                         IF save = <<>> THEN Len(thrs[n.ft]) - 1 ELSE save[2]>>)

Adds(rs, rules, n, inds) == rs = Append(rules, [cg |-> n.cg, conds |-> inds])

LEMMA CallsFacts ==
  ASSUME NEW t, NEW frs \in Seq(Frames(t)), frs # <<>>, NEW top \in Frames(t),
         NEW at \in Positions, NEW save \in Saves,
         NEW child \in DOMAIN t, NEW fs, Calls(fs, frs, top, at, save, child)
  PROVE  \E below, last :
           /\ fs \in Seq(Frames(t)) /\ Grown(fs, frs, below, last)
           /\ below.node = top.node /\ below.at = at /\ below.save = save
           /\ last.node = child /\ last.at = "call"
<1> DEFINE below == [top EXCEPT !.at = at, !.save = save]
           last == [node |-> child, at |-> "call", save |-> <<>>]
<1>1. /\ below \in Frames(t) /\ below.node = top.node /\ below.at = at /\ below.save = save
      /\ last \in Frames(t) /\ last.node = child /\ last.at = "call"
  BY DEF Frames, Positions, Saves
<1>2. fs = Front(frs) \o <<below, last>>
  BY DEF Calls
<1> HIDE DEF below, last
<1>3. fs \in Seq(Frames(t)) /\ Grown(fs, frs, below, last)
  BY <1>1, <1>2, Pushed
<1> QED
  BY <1>1, <1>3

LEMMA SavedTypes ==
  ASSUME NEW d \in Dictionary, NEW f
  PROVE  /\ Saved(d, f) \in Saves
         /\ (IF Saved(d, f) = <<>> THEN 0 ELSE Saved(d, f)[1]) = Low(d, f)
         /\ \A thrs : (IF Saved(d, f) = <<>> THEN Len(thrs[f]) - 1 ELSE Saved(d, f)[2]) =
                       High(thrs, d, f)
<1>1. CASE f \in DOMAIN d
  <2>1. Saved(d, f) = d[f] /\ d[f] \in Nat \X Nat
    BY <1>1, DictionaryTypes DEF Saved
  <2>2. Saved(d, f) # <<>>
    <3>1. \A x \in Nat \X Nat : x # <<>>
      OBVIOUS
    <3> QED
      BY <2>1, <3>1
  <2> QED
    BY <1>1, <2>1, <2>2 DEF Low, High, Saves
<1>2. CASE f \notin DOMAIN d
  <2>1. Saved(d, f) = <<>>
    BY <1>2 DEF Saved
  <2> QED
    BY <1>2, <2>1 DEF Low, High, Saves
<1> QED
  BY <1>1, <1>2

LEMMA LeftWritten ==
  ASSUME NEW t \in Trees, NEW thrs, NEW frs, NEW inds, NEW rules \in Seq(Rules),
         Walked(t, thrs, frs, inds, rules), frs # <<>>,
         NEW top, top = frs[Len(frs)], top.at = "call", t[top.node].ft >= 0,
         NEW save, save = Saved(inds, t[top.node].ft),
         NEW fs, Calls(fs, frs, top, "left", save, t[top.node].left),
         NEW e, GivesLeft(e, thrs, inds, t[top.node], save)
  PROVE  Walked(t, thrs, fs, e, rules)
<1>1. PICK D : /\ Stack(t, thrs, frs, inds, D)
               /\ Cover(t, thrs, frs, D, rules)
               /\ Truth(t, thrs, frs, D, rules)
  BY DEF Walked
<1> DEFINE n == Len(frs)
           b == top.node
<1>2. frs \in Seq(Frames(t))
  BY <1>1 DEF Stack
<1>3. n \in Nat \ {0}
  BY <1>2, EmptySeq
<1>4. /\ top \in Frames(t) /\ b \in DOMAIN t
      /\ D[n] \in Dictionary /\ inds = Narrowed(thrs, t, top, D[n])
  BY <1>1, <1>3, TopFacts
<1>5. inds = D[n]
  BY <1>4 DEF Narrowed
<1>6. save \in Saves /\ (IF save = <<>> THEN 0 ELSE save[1]) = Low(inds, t[b].ft)
  <2> DEFINE f == t[b].ft
  <2> HIDE DEF f
  <2>1. inds \in Dictionary /\ save = Saved(inds, f)
    BY <1>4, <1>5 DEF f
  <2>2. save \in Saves /\ (IF save = <<>> THEN 0 ELSE save[1]) = Low(inds, f)
    BY ONLY <2>1, SavedTypes
  <2> QED
    BY <2>2 DEF f
<1>7. e = LeftOf(thrs, inds, t[b])
  BY <1>6 DEF LeftOf, GivesLeft
<1>9. PICK below, last :
        /\ fs \in Seq(Frames(t)) /\ Grown(fs, frs, below, last)
        /\ below.node = b /\ below.at = "left" /\ below.save = save
        /\ last.node = t[b].left /\ last.at = "call"
  <2>1. t[b].left \in DOMAIN t /\ "left" \in Positions
    BY <1>4, TreeTypes DEF Positions
  <2>2. frs # <<>> /\ Calls(fs, frs, top, "left", save, t[b].left)
    OBVIOUS
  <2> QED
    BY ONLY <1>2, <1>4, <1>6, <2>1, <2>2, CallsFacts
<1>10. Len(rules) \in Nat
  BY LenProperties
<1> HIDE DEF n
<1>11. \E E : /\ Stack(t, thrs, fs, e, E)
              /\ Cover(t, thrs, fs, E, rules)
              /\ Truth(t, thrs, fs, E, rules)
  <2>1. /\ n = Len(frs)
        /\ below.node = frs[n].node /\ last.node = t[frs[n].node].left
        /\ t[frs[n].node].ft >= 0 /\ frs[n].at = "call"
        /\ below.save = Saved(inds, t[frs[n].node].ft)
        /\ e = LeftOf(thrs, inds, t[frs[n].node])
    BY <1>7, <1>9 DEF n
  <2> QED
    BY <1>1, <1>3, <1>9, <1>10, <2>1, LeftKeeps
<1> QED
  BY <1>11 DEF Walked

LEMMA RightWritten ==
  ASSUME NEW t \in Trees, NEW thrs, NEW frs, NEW inds, NEW rules \in Seq(Rules),
         Walked(t, thrs, frs, inds, rules), frs # <<>>,
         NEW top, top = frs[Len(frs)], top.at = "left",
         NEW save, save = top.save,
         NEW fs, Calls(fs, frs, top, "right", save, t[top.node].right),
         NEW e, GivesRight(e, thrs, inds, t[top.node], save)
  PROVE  Walked(t, thrs, fs, e, rules)
<1>1. PICK D : /\ Stack(t, thrs, frs, inds, D)
               /\ Cover(t, thrs, frs, D, rules)
               /\ Truth(t, thrs, frs, D, rules)
  BY DEF Walked
<1> DEFINE n == Len(frs)
           b == top.node
<1>2. frs \in Seq(Frames(t))
  BY <1>1 DEF Stack
<1>3. n \in Nat \ {0}
  BY <1>2, EmptySeq
<1>4. /\ top \in Frames(t) /\ b \in DOMAIN t
      /\ D[n] \in Dictionary /\ inds = Narrowed(thrs, t, top, D[n])
      /\ t[b].ft >= 0 /\ save = Saved(D[n], t[b].ft)
  BY <1>1, <1>3, TopFacts
<1>5. inds = LeftOf(thrs, D[n], t[b])
  BY <1>4 DEF Narrowed
<1>6. /\ save \in Saves
      /\ (IF save = <<>> THEN Len(thrs[t[b].ft]) - 1 ELSE save[2]) = High(thrs, D[n], t[b].ft)
  <2> DEFINE f == t[b].ft
             d == D[n]
  <2> HIDE DEF f, d
  <2>1. d \in Dictionary /\ save = Saved(d, f)
    BY <1>4 DEF d, f
  <2>2. save \in Saves /\ (IF save = <<>> THEN Len(thrs[f]) - 1 ELSE save[2]) = High(thrs, d, f)
    BY ONLY <2>1, SavedTypes
  <2> QED
    BY <2>2 DEF d, f
<1>7. e = RightOf(thrs, D[n], t[b])
  <2> DEFINE high == High(thrs, D[n], t[b].ft)
             i == <<IndexOf(thrs[t[b].ft], t[b].thr) + 1, high>>
             low == <<Low(D[n], t[b].ft), IndexOf(thrs[t[b].ft], t[b].thr)>>
  <2>1. e = With(inds, t[b].ft, i)
    BY <1>6 DEF GivesRight
  <2>2. inds = With(D[n], t[b].ft, low)
    BY <1>5 DEF LeftOf
  <2>3. RightOf(thrs, D[n], t[b]) = With(D[n], t[b].ft, i)
    BY DEF RightOf
  <2> HIDE DEF i, low
  <2>4. With(With(D[n], t[b].ft, low), t[b].ft, i) = With(D[n], t[b].ft, i)
    BY WithTwice
  <2> QED
    BY <2>1, <2>2, <2>3, <2>4
<1>9. PICK below, last :
        /\ fs \in Seq(Frames(t)) /\ Grown(fs, frs, below, last)
        /\ below.node = b /\ below.at = "right" /\ below.save = save
        /\ last.node = t[b].right /\ last.at = "call"
  <2>1. t[b].right \in DOMAIN t /\ "right" \in Positions
    BY <1>4, TreeTypes DEF Positions
  <2>2. frs # <<>> /\ Calls(fs, frs, top, "right", save, t[b].right)
    OBVIOUS
  <2> QED
    BY ONLY <1>2, <1>4, <1>6, <2>1, <2>2, CallsFacts
<1>10. Len(rules) \in Nat
  BY LenProperties
<1> HIDE DEF n
<1>11. \E E : /\ Stack(t, thrs, fs, e, E)
              /\ Cover(t, thrs, fs, E, rules)
              /\ Truth(t, thrs, fs, E, rules)
  <2>1. /\ n = Len(frs)
        /\ below.node = frs[n].node /\ last.node = t[frs[n].node].right
        /\ frs[n].at = "left" /\ below.save = frs[n].save
        /\ e = RightOf(thrs, D[n], t[frs[n].node])
    BY <1>7, <1>9 DEF n
  <2> QED
    BY <1>1, <1>3, <1>9, <1>10, <2>1, RightKeeps
<1> QED
  BY <1>11 DEF Walked

LEMMA ClimbWritten ==
  ASSUME NEW t \in Trees, NEW thrs, NEW frs, NEW inds, NEW rules \in Seq(Rules),
         Walked(t, thrs, frs, inds, rules), frs # <<>>,
         NEW top, top = frs[Len(frs)], top.at = "right"
  PROVE  Walked(t, thrs, Front(frs), Restored(inds, t[top.node].ft, top.save), rules)
<1>1. PICK D : /\ Stack(t, thrs, frs, inds, D)
               /\ Cover(t, thrs, frs, D, rules)
               /\ Truth(t, thrs, frs, D, rules)
  BY DEF Walked
<1> DEFINE n == Len(frs)
           fs == Front(frs)
<1>2. frs \in Seq(Frames(t))
  BY <1>1 DEF Stack
<1>3. /\ n \in Nat \ {0} /\ fs \in Seq(Frames(t)) /\ Shrunk(fs, frs)
  BY <1>2, Popped
<1>4. Len(rules) \in Nat
  BY LenProperties
<1> HIDE DEF n, fs
<1>5. \E E : /\ Stack(t, thrs, fs, Restored(inds, t[top.node].ft, top.save), E)
             /\ Cover(t, thrs, fs, E, rules)
             /\ Truth(t, thrs, fs, E, rules)
  BY <1>1, <1>3, <1>4, ClimbKeeps DEF n
<1> QED
  BY <1>5 DEF Walked, fs

LEMMA LeafWritten ==
  ASSUME NEW t \in Trees, NEW thrs, NEW frs, NEW inds, NEW rules \in Seq(Rules),
         Walked(t, thrs, frs, inds, rules), frs # <<>>,
         NEW top, top = frs[Len(frs)], top.at = "call", ~(t[top.node].ft >= 0),
         NEW rs, Adds(rs, rules, t[top.node], inds)
  PROVE  rs \in Seq(Rules) /\ Walked(t, thrs, Front(frs), inds, rs)
<1>1. PICK D : /\ Stack(t, thrs, frs, inds, D)
               /\ Cover(t, thrs, frs, D, rules)
               /\ Truth(t, thrs, frs, D, rules)
  BY DEF Walked
<1> DEFINE n == Len(frs)
           m == Len(rules)
           fs == Front(frs)
           rule == [cg |-> t[top.node].cg, conds |-> inds]
<1>2. frs \in Seq(Frames(t))
  BY <1>1 DEF Stack
<1>3. /\ n \in Nat \ {0} /\ fs \in Seq(Frames(t)) /\ Shrunk(fs, frs)
  BY <1>2, Popped
<1>4. m \in Nat
  BY LenProperties
<1>5. /\ D[n] \in Dictionary /\ top.node \in DOMAIN t
      /\ inds = Narrowed(thrs, t, top, D[n])
  BY <1>1, <1>3, TopFacts
<1>6. inds \in Dictionary /\ t[top.node].cg \in BOOLEAN
  BY <1>5, TreeTypes DEF Narrowed
<1>7. rule \in Rules /\ rule.cg = t[top.node].cg /\ rule.conds = inds
  BY <1>6 DEF Rules
<1>8. rs = Append(rules, rule)
  BY DEF Adds
<1> HIDE DEF n, m, fs, rule
<1>9. rs \in Seq(Rules) /\ Extended(rs, rules, rule)
  BY <1>7, <1>8, AppendProperties DEF Extended
<1>10. \E E : /\ Stack(t, thrs, fs, inds, E)
              /\ Cover(t, thrs, fs, E, rs)
              /\ Truth(t, thrs, fs, E, rs)
  BY <1>1, <1>3, <1>4, <1>7, <1>9, LeafKeeps DEF n, m
<1> QED
  BY <1>9, <1>10 DEF Walked, fs

LEMMA InitInv == Init => Inv
<1> SUFFICES ASSUME Init PROVE Inv
  OBVIOUS
<1>1. /\ tree \in Trees /\ phase = "collecting" /\ visit = <<0>>
      /\ FTS_THRS = [f \in Feature |-> <<>>]
      /\ frames = <<>> /\ FTS_INDS = Empty /\ actRules = <<>>
  BY DEF Init, Empty
<1>2. Collected(tree, FTS_THRS, visit)
  <2>1. 0 \in DOMAIN tree
    BY <1>1, TreeTypes
  <2>2. visit \in Seq(DOMAIN tree) /\ 1 \in 1 .. Len(visit) /\ visit[1] = 0
    BY <1>1, <2>1
  <2>3. FTS_THRS \in [Feature -> Seq(Nat \ {0})]
    BY <1>1
  <2> DEFINE C == {n \in DOMAIN tree : FALSE}
  <2>4. C \in SUBSET DOMAIN tree /\ \A n \in C : FALSE
    OBVIOUS
  <2> HIDE DEF C
  <2> QED
    BY <2>2, <2>3, <2>4 DEF Collected
<1> QED
  BY <1>1, <1>2 DEF Inv

LEMMA StepInv == Inv /\ [Next]_vars => Inv'
<1> SUFFICES ASSUME Inv, [Next]_vars PROVE Inv'
  OBVIOUS
<1>1. /\ tree \in Trees
      /\ phase \in {"collecting", "writing", "installed"}
      /\ actRules \in Seq(Rules)
  BY DEF Inv
<1>2. CASE CollectNode
  <2>1. /\ phase = "collecting" /\ visit # <<>>
        /\ UNCHANGED <<tree, phase, frames, FTS_INDS, actRules, ftRules>>
    BY <1>2 DEF CollectNode
  <2>2. /\ Collected(tree, FTS_THRS, visit)
        /\ frames = <<>> /\ FTS_INDS = Empty /\ actRules = <<>>
    BY <2>1 DEF Inv
  <2>3. LET n == tree[Head(visit)]
        IN  IF n.ft >= 0
            THEN /\ FTS_THRS' = [FTS_THRS EXCEPT ![n.ft] = Append(@, n.thr)]
                 /\ visit' = <<n.left, n.right>> \o Tail(visit)
            ELSE FTS_THRS' = FTS_THRS /\ visit' = Tail(visit)
    BY <1>2 DEF CollectNode
  <2>4. Collected(tree, FTS_THRS', visit')
    BY <1>1, <2>1, <2>2, <2>3, CollectedStep
  <2> QED
    BY <1>1, <2>1, <2>2, <2>4 DEF Inv
<1>3. CASE SortThresholds
  <2>1. /\ phase = "collecting" /\ visit = <<>> /\ phase' = "writing"
        /\ FTS_THRS' = [f \in Feature |->
                          IF FTS_THRS[f] = <<>> THEN <<>> ELSE Bounded(f, FTS_THRS[f])]
        /\ frames' = <<[node |-> 0, at |-> "call", save |-> <<>>]>>
        /\ UNCHANGED <<tree, visit, FTS_INDS, actRules, ftRules>>
    BY <1>3 DEF SortThresholds
  <2>2. Collected(tree, FTS_THRS, <<>>) /\ FTS_INDS = Empty /\ actRules = <<>>
    BY <2>1 DEF Inv
  <2>3. Walked(tree, FTS_THRS', frames', Empty, <<>>)
    BY <1>1, <2>1, <2>2, SortedWritten
  <2> QED
    BY <1>1, <2>1, <2>2, <2>3 DEF Inv
<1>4. CASE WriteLeaf
  <2>1. /\ phase = "writing" /\ frames # <<>> /\ Top.at = "call" /\ ~(tree[Top.node].ft >= 0)
        /\ Adds(actRules', actRules, tree[Top.node], FTS_INDS)
        /\ frames' = Front(frames)
        /\ UNCHANGED <<tree, phase, visit, FTS_THRS, FTS_INDS, ftRules>>
    BY <1>4 DEF WriteLeaf, Inner, Adds
  <2>2. Walked(tree, FTS_THRS, frames, FTS_INDS, actRules)
    BY <2>1 DEF Inv
  <2>3. Top = frames[Len(frames)]
    BY DEF Top
  <2>4. /\ actRules' \in Seq(Rules)
        /\ Walked(tree, FTS_THRS, Front(frames), FTS_INDS, actRules')
    BY <1>1, <2>1, <2>2, <2>3, LeafWritten
  <2> QED
    BY <1>1, <2>1, <2>4 DEF Inv
<1>5. CASE GoLeft
  <2> DEFINE n == tree[Top.node]
             save == Saved(FTS_INDS, n.ft)
  <2>1. /\ phase = "writing" /\ frames # <<>> /\ Top.at = "call" /\ n.ft >= 0
        /\ GivesLeft(FTS_INDS', FTS_THRS, FTS_INDS, n, save)
        /\ Calls(frames', frames, Top, "left", save, n.left)
        /\ UNCHANGED <<tree, phase, visit, FTS_THRS, actRules, ftRules>>
    BY <1>5 DEF GoLeft, Inner, Call, Calls, GivesLeft
  <2>2. Walked(tree, FTS_THRS, frames, FTS_INDS, actRules)
    BY <2>1 DEF Inv
  <2>3. Top = frames[Len(frames)]
    BY DEF Top
  <2>4. Walked(tree, FTS_THRS, frames', FTS_INDS', actRules)
    BY <1>1, <2>1, <2>2, <2>3, LeftWritten
  <2> QED
    BY <1>1, <2>1, <2>4 DEF Inv
<1>6. CASE GoRight
  <2> DEFINE n == tree[Top.node]
             save == Top.save
  <2>1. /\ phase = "writing" /\ frames # <<>> /\ Top.at = "left"
        /\ GivesRight(FTS_INDS', FTS_THRS, FTS_INDS, n, save)
        /\ Calls(frames', frames, Top, "right", save, n.right)
        /\ UNCHANGED <<tree, phase, visit, FTS_THRS, actRules, ftRules>>
    BY <1>6 DEF GoRight, Call, Calls, GivesRight
  <2>2. Walked(tree, FTS_THRS, frames, FTS_INDS, actRules)
    BY <2>1 DEF Inv
  <2>3. Top = frames[Len(frames)]
    BY DEF Top
  <2>4. Walked(tree, FTS_THRS, frames', FTS_INDS', actRules)
    BY <1>1, <2>1, <2>2, <2>3, RightWritten
  <2> QED
    BY <1>1, <2>1, <2>4 DEF Inv
<1>7. CASE Climb
  <2>1. /\ phase = "writing" /\ frames # <<>> /\ Top.at = "right"
        /\ FTS_INDS' = Restored(FTS_INDS, tree[Top.node].ft, Top.save)
        /\ frames' = Front(frames)
        /\ UNCHANGED <<tree, phase, visit, FTS_THRS, actRules, ftRules>>
    BY <1>7 DEF Climb
  <2>2. Walked(tree, FTS_THRS, frames, FTS_INDS, actRules)
    BY <2>1 DEF Inv
  <2>3. Top = frames[Len(frames)]
    BY DEF Top
  <2>4. Walked(tree, FTS_THRS, frames', FTS_INDS', actRules)
    BY <1>1, <2>1, <2>2, <2>3, ClimbWritten
  <2> QED
    BY <1>1, <2>1, <2>4 DEF Inv
<1>8. CASE Install
  <2>1. /\ phase = "writing" /\ frames = <<>> /\ phase' = "installed"
        /\ ftRules' = [f \in Feature |-> Ranges(FTS_THRS[f])]
        /\ UNCHANGED <<tree, visit, FTS_THRS, frames, FTS_INDS, actRules>>
    BY <1>8 DEF Install
  <2>2. Walked(tree, FTS_THRS, frames, FTS_INDS, actRules)
    BY <2>1 DEF Inv
  <2> QED
    BY <1>1, <2>1, <2>2 DEF Inv
<1>9. CASE UNCHANGED vars
  BY <1>9 DEF Inv, vars
<1> QED
  BY <1>2, <1>3, <1>4, <1>5, <1>6, <1>7, <1>8, <1>9 DEF Next

--------------------------------------------------------------------------------
(* What the invariant says of the tables *)

LEMMA InvTypes == Inv => TypeOK
<1> SUFFICES ASSUME Inv PROVE TypeOK
  OBVIOUS
<1>1. FTS_INDS \in Dictionary /\ Sound(FTS_THRS, FTS_INDS)
  <2>1. CASE phase = "collecting"
    <3>1. FTS_INDS = Empty
      BY <2>1 DEF Inv
    <3> QED
      BY <3>1, EmptyFacts
  <2>2. CASE phase # "collecting"
    <3>1. PICK D : Stack(tree, FTS_THRS, frames, FTS_INDS, D)
      BY <2>2 DEF Inv, Walked
    <3>2. Len(frames) \in Nat
      BY <3>1, LenProperties DEF Stack
    <3>3. Len(frames) + 1 \in 1 .. Len(frames) + 1
      BY <3>2
    <3> QED
      BY <3>1, <3>3 DEF Stack
  <2> QED
    BY <2>1, <2>2
<1>2. DOMAIN FTS_INDS \subseteq Feature
  BY <1>1, DictionaryTypes
<1>3. ASSUME NEW f \in DOMAIN FTS_INDS
      PROVE  LET i == FTS_INDS[f]
             IN  0 <= i[1] /\ i[1] <= i[2] /\ i[2] < Len(FTS_THRS[f])
  <2>1. FTS_INDS[f][1] \in Nat
    BY <1>1, BoundsOfEntries
  <2>2. 0 <= FTS_INDS[f][1]
    <3> DEFINE low == FTS_INDS[f][1]
    <3>1. low \in Nat
      BY <2>1
    <3> HIDE DEF low
    <3>2. 0 <= low
      BY <3>1
    <3> QED
      BY <3>2 DEF low
  <2> QED
    BY <1>1, <2>2 DEF Sound
<1>4. ASSUME NEW k \in DOMAIN actRules PROVE DOMAIN actRules[k].conds \subseteq Feature
  <2>1. actRules[k] \in Rules
    BY <1>4 DEF Inv
  <2>2. actRules[k].conds \in Dictionary
    BY <2>1 DEF Rules
  <2> QED
    BY <2>2, DictionaryTypes
<1> QED
  BY <1>2, <1>3, <1>4 DEF Inv, TypeOK

\* Of the indexes ix one rule matches, and it says what the tree decides of every
\* vector whose values take the same sides
LEMMA MatchingFacts ==
  ASSUME Inv, phase # "collecting", frames = <<>>, NEW ix \in Space(FTS_THRS)
  PROVE  \E k \in DOMAIN actRules :
           /\ MatchingRules(ix) = {k}
           /\ \A v \in [Feature -> Nat] :
                Agree(tree, FTS_THRS, v, ix) => (Verdict(ix) <=> TreeVerdict(v))
<1>1. /\ tree \in Trees /\ frames = <<>> /\ actRules \in Seq(Rules)
      /\ Walked(tree, FTS_THRS, frames, FTS_INDS, actRules)
  BY DEF Inv
<1>2. PICK D : /\ Cover(tree, FTS_THRS, frames, D, actRules)
               /\ Truth(tree, FTS_THRS, frames, D, actRules)
  BY <1>1 DEF Walked
<1>3. DOMAIN actRules = 1 .. Len(actRules) /\ \A k \in DOMAIN actRules : actRules[k] \in Rules /\ k \in Nat
  BY <1>1
<1>4. ix \in [Feature -> Nat]
  BY SpaceFacts
<1>5. ASSUME NEW k \in DOMAIN actRules
      PROVE  Matches(actRules[k], ix) <=> Fits(actRules[k].conds, ix)
  <2> DEFINE d == actRules[k].conds
  <2>1. d \in Dictionary
    BY <1>3 DEF Rules
  <2> HIDE DEF d
  <2>2. ASSUME NEW f \in DOMAIN d
        PROVE  ix[f] \in d[f][1] .. d[f][2] <=> d[f][1] <= ix[f] /\ ix[f] <= d[f][2]
    <3> DEFINE lo == d[f][1]
               hi == d[f][2]
               x == ix[f]
    <3>1. lo \in Nat /\ hi \in Nat
      BY <2>1, BoundsOfEntries
    <3>2. x \in Nat
      BY <1>4, <2>1, DictionaryTypes
    <3> HIDE DEF lo, hi, x
    <3>3. x \in lo .. hi <=> lo <= x /\ x <= hi
      BY <3>1, <3>2
    <3> QED
      BY <3>3 DEF lo, hi, x
  <2> QED
    BY <2>2 DEF Matches, Fits, d
<1>6. ~ \E j \in 1 .. Len(frames) : TRUE
  BY <1>1
<1>7. PICK k \in DOMAIN actRules : Fits(actRules[k].conds, ix)
  BY <1>2, <1>3, <1>6 DEF Cover
<1>8. \A l \in DOMAIN actRules : Fits(actRules[l].conds, ix) => l = k
  BY <1>2, <1>3, <1>7 DEF Cover
<1>9. MatchingRules(ix) = {k}
  BY <1>5, <1>7, <1>8 DEF MatchingRules
<1>10. Verdict(ix) <=> actRules[k].cg
  <2>1. Max({k}) = k
    <3>1. k >= k
      BY <1>3
    <3> QED
      BY <3>1 DEF Max
  <2> QED
    BY <1>9, <2>1 DEF Verdict
<1>11. ASSUME NEW v \in [Feature -> Nat], Agree(tree, FTS_THRS, v, ix)
       PROVE  actRules[k].cg = TreeVerdict(v)
  BY <1>2, <1>3, <1>7, <1>11 DEF Truth, TreeVerdict
<1> QED
  BY <1>9, <1>10, <1>11

LEMMA VectorsAreIndexes ==
  ASSUME NEW ix \in IndexVectors
  PROVE  ix \in Space(FTS_THRS)
<1>1. /\ ix \in [Feature -> UNION {0 .. IndexCount(f) - 1 : f \in Feature}]
      /\ \A f \in Feature : ix[f] < IndexCount(f)
  BY DEF IndexVectors
<1>2. ASSUME NEW f \in Feature PROVE ix[f] \in Nat
  <2>1. PICK g \in Feature : ix[f] \in 0 .. IndexCount(g) - 1
    BY <1>1
  <2> DEFINE last == IndexCount(g) - 1
             x == ix[f]
  <2>2. x \in 0 .. last
    BY <2>1
  <2> HIDE DEF last, x
  <2>3. x \in Nat
    BY <2>2
  <2> QED
    BY <2>3 DEF x
<1>3. ix \in [Feature -> Nat]
  BY <1>1, <1>2
<1> QED
  BY <1>1, <1>3 DEF Space, IndexCount

LEMMA InvPartition == Inv => RulesPartition
<1> SUFFICES ASSUME Inv, phase = "installed", NEW ix \in IndexVectors
             PROVE  \E k \in DOMAIN actRules : MatchingRules(ix) = {k}
  BY DEF RulesPartition
<1>1. ix \in Space(FTS_THRS)
  BY VectorsAreIndexes
<1>2. frames = <<>>
  BY DEF Inv
<1> QED
  BY <1>1, <1>2, MatchingFacts

LEMMA HitsArePicks ==
  ASSUME Inv, phase = "installed", NEW f \in Feature, NEW v
  PROVE  /\ Hits(f, v) = Picks(FTS_THRS[f], v[f])
         /\ FTS_THRS[f] = <<>> => Hits(f, v) = {}
         /\ FTS_THRS[f] = <<>> \/ Bounds(f, FTS_THRS[f])
<1>1. ftRules[f] = Ranges(FTS_THRS[f])
  BY DEF Inv
<1>2. Hits(f, v) = Picks(FTS_THRS[f], v[f])
  BY <1>1 DEF Hits, Picks
<1>3. ASSUME FTS_THRS[f] = <<>> PROVE Hits(f, v) = {}
  <2>1. ~ \E i \in 1 .. Len(<<>>) - 1 : TRUE
    OBVIOUS
  <2>2. Ranges(FTS_THRS[f]) = {}
    BY <1>3, <2>1 DEF Ranges
  <2> QED
    BY <1>2, <2>2 DEF Picks
<1>4. FTS_THRS[f] = <<>> \/ Bounds(f, FTS_THRS[f])
  BY DEF Inv, Walked, Lists
<1> QED
  BY <1>2, <1>3, <1>4

LEMMA InvFirstMatch == Inv => FirstMatchFaithful
<1> SUFFICES ASSUME Inv, phase = "installed", NEW v \in Vectors, InRange(v)
             PROVE  Verdict([f \in Feature |-> FirstPick(f, v)]) <=> TreeVerdict(v)
  BY DEF FirstMatchFaithful
<1> DEFINE ix == [f \in Feature |-> FirstPick(f, v)]
<1>1. v \in [Feature -> Nat]
  BY TreeAssumption
<1>2. ASSUME NEW f \in Feature, FTS_THRS[f] = <<>> PROVE FirstPick(f, v) = 0
  <2>1. MayPick(f, v) = {0}
    BY <1>2, HitsArePicks DEF MayPick
  <2>2. Min({0}) = 0
    BY DEF Min
  <2> QED
    BY <2>1, <2>2 DEF FirstPick
<1>3. ASSUME NEW f \in Feature, Bounds(f, FTS_THRS[f])
      PROVE  /\ FirstPick(f, v) \in 1 .. Len(FTS_THRS[f]) - 1
             /\ \A thr \in Nat : Holds(FTS_THRS[f], thr) =>
                  (v[f] * Scale <= thr <=> FirstPick(f, v) <= IndexOf(FTS_THRS[f], thr))
  <2>1. v[f] \in Nat /\ v[f] <= FTS_MAX[f]
    BY <1>1 DEF InRange
  <2>2. /\ Picks(FTS_THRS[f], v[f]) # {}
        /\ Min(Picks(FTS_THRS[f], v[f])) \in 1 .. Len(FTS_THRS[f]) - 1
        /\ \A thr \in Nat : Holds(FTS_THRS[f], thr) =>
             (v[f] * Scale <= thr <=>
                Min(Picks(FTS_THRS[f], v[f])) <= IndexOf(FTS_THRS[f], thr))
    BY <1>3, <2>1, FirstPickFacts
  <2>3. MayPick(f, v) = Picks(FTS_THRS[f], v[f])
    BY <2>2, HitsArePicks DEF MayPick
  <2> QED
    BY <2>2, <2>3 DEF FirstPick
<1>4. ix \in Space(FTS_THRS)
  <2>1. ASSUME NEW f \in Feature
        PROVE  /\ FirstPick(f, v) \in Nat
               /\ FirstPick(f, v) < IF FTS_THRS[f] = <<>> THEN 1 ELSE Len(FTS_THRS[f])
    <3>1. CASE FTS_THRS[f] = <<>>
      BY <3>1, <1>2
    <3>2. CASE FTS_THRS[f] # <<>>
      <4> DEFINE x == FirstPick(f, v)
                 n == Len(FTS_THRS[f])
      <4>0. Bounds(f, FTS_THRS[f])
        BY <3>2, HitsArePicks
      <4>1. x \in 1 .. n - 1 /\ n \in Nat
        <5>1. x \in 1 .. n - 1
          BY <4>0, <1>3
        <5>2. n \in Nat
          BY <4>0 DEF Bounds
        <5> QED
          BY <5>1, <5>2
      <4> HIDE DEF x, n
      <4>2. x \in Nat /\ x < n
        BY <4>1
      <4> QED
        BY <3>2, <4>2 DEF x, n
    <3> QED
      BY <3>1, <3>2
  <2> QED
    BY <2>1 DEF Space
<1>5. Agree(tree, FTS_THRS, v, ix)
  <2>1. ASSUME NEW n \in DOMAIN tree, tree[n].ft >= 0,
               Bounds(tree[n].ft, FTS_THRS[tree[n].ft]),
               Holds(FTS_THRS[tree[n].ft], tree[n].thr)
        PROVE  v[tree[n].ft] * Scale <= tree[n].thr <=> ToLeft(tree, FTS_THRS, n, ix)
    <3>1. tree \in Trees
      BY DEF Inv
    <3>2. tree[n].ft \in Feature /\ tree[n].thr \in Nat
      BY <2>1, <3>1, TreeTypes
    <3>3. ix[tree[n].ft] = FirstPick(tree[n].ft, v)
      BY <3>2
    <3> HIDE DEF ix
    <3> QED
      BY <1>3, <2>1, <3>2, <3>3 DEF ToLeft
  <2> HIDE DEF ix
  <2> QED
    BY <2>1 DEF Agree
<1> HIDE DEF ix
<1>6. frames = <<>>
  BY DEF Inv
<1>7. Verdict(ix) <=> TreeVerdict(v)
  BY <1>1, <1>4, <1>5, <1>6, MatchingFacts
<1> QED
  BY <1>7 DEF ix

LEMMA InvOffBounds == Inv => OffBoundsFaithful
<1> SUFFICES ASSUME Inv, phase = "installed", NEW v \in Vectors, InRange(v), OffBounds(v),
                    NEW ix \in IndexVectors, \A f \in Feature : ix[f] \in MayPick(f, v)
             PROVE  Verdict(ix) <=> TreeVerdict(v)
  BY DEF OffBoundsFaithful
<1>1. v \in [Feature -> Nat]
  BY TreeAssumption
<1>2. ix \in Space(FTS_THRS)
  BY VectorsAreIndexes
<1>3. Agree(tree, FTS_THRS, v, ix)
  <2>1. ASSUME NEW n \in DOMAIN tree, tree[n].ft >= 0,
               Bounds(tree[n].ft, FTS_THRS[tree[n].ft]),
               Holds(FTS_THRS[tree[n].ft], tree[n].thr)
        PROVE  v[tree[n].ft] * Scale <= tree[n].thr <=> ToLeft(tree, FTS_THRS, n, ix)
    <3> DEFINE f == tree[n].ft
    <3>1. tree \in Trees
      BY DEF Inv
    <3>2. f \in Feature /\ tree[n].thr \in Nat
      BY <2>1, <3>1, TreeTypes
    <3>3. v[f] \in Nat /\ v[f] <= FTS_MAX[f] /\ \A i \in 1 .. Len(FTS_THRS[f]) : v[f] # FTS_THRS[f][i] \div Scale
      BY <1>1, <3>2 DEF InRange, OffBounds
    <3>4. Bounds(f, FTS_THRS[f]) /\ Holds(FTS_THRS[f], tree[n].thr)
      BY <2>1
    <3> HIDE DEF f
    <3>5. Picks(FTS_THRS[f], v[f]) # {}
      BY <3>2, <3>3, <3>4, FirstPickFacts
    <3>6. MayPick(f, v) = Picks(FTS_THRS[f], v[f])
      BY <3>2, <3>5, HitsArePicks DEF MayPick
    <3>7. ix[f] \in Picks(FTS_THRS[f], v[f])
      BY <3>2, <3>6
    <3>8. v[f] * Scale <= tree[n].thr <=> ix[f] <= IndexOf(FTS_THRS[f], tree[n].thr)
      BY <3>2, <3>3, <3>4, <3>7, AnyPickFacts
    <3> QED
      BY <3>8 DEF ToLeft, f
  <2> QED
    BY <2>1 DEF Agree
<1>4. frames = <<>>
  BY DEF Inv
<1> QED
  BY <1>1, <1>2, <1>3, <1>4, MatchingFacts

--------------------------------------------------------------------------------
(* The theorems *)

LEMMA SpecInv == Spec => []Inv
<1> QED
  BY InitInv, StepInv, PTL DEF Spec

\* TypeOK: the interval of a feature is never empty and never leaves the indexes of
\* its feature, on every path of Write_Rules_Rec and after every return of it.
THEOREM RulesAreTyped == Spec => []TypeOK
<1> QED
  BY SpecInv, InvTypes, PTL

\* RulesPartition: for every tree that a training can give, the rules written at the
\* leaves split the index space, so that what dicoFtsInds is left with at a leaf is the
\* path to it and nothing else.
THEOREM RulesSplitTheSpace == Spec => []RulesPartition
<1> QED
  BY SpecInv, InvPartition, PTL

\* FirstMatchFaithful: taking the first range at a bound, the tables of main.py decide as
\* the tree does on every vector within FTS_MAX, whatever the thresholds are.
THEOREM FirstMatchDecides == Spec => []FirstMatchFaithful
<1> QED
  BY SpecInv, InvFirstMatch, PTL

\* OffBoundsFaithful: off the bounds, they do whatever ranges are taken.
THEOREM OffBoundsDecides == Spec => []OffBoundsFaithful
<1> QED
  BY SpecInv, InvOffBounds, PTL

--------------------------------------------------------------------------------
(* Flattened sequences *)

Occurs(x, s) == \E i \in 1 .. Len(s) : s[i] = x

LEMMA OccursInConcat ==
  ASSUME NEW S, NEW r \in Seq(S), NEW s \in Seq(S)
  PROVE  /\ r \o s \in Seq(S)
         /\ Len(r \o s) = Len(r) + Len(s)
         /\ \A i \in 1 .. Len(r) : (r \o s)[i] = r[i]
         /\ \A i \in 1 .. Len(s) : (r \o s)[Len(r) + i] = s[i]
         /\ \A x : Occurs(x, r \o s) <=> Occurs(x, r) \/ Occurs(x, s)
<1> DEFINE c == r \o s
           m == Len(r)
           n == Len(s)
<1>1. /\ c \in Seq(S) /\ Len(c) = m + n
      /\ \A i \in 1 .. m + n : c[i] = IF i <= m THEN r[i] ELSE s[i - m]
  BY ConcatProperties
<1>2. m \in Nat /\ n \in Nat
  BY LenProperties
<1> HIDE DEF c, m, n
<1>3. \A i \in 1 .. m : c[i] = r[i]
  BY <1>1, <1>2
<1>4. ASSUME NEW i \in 1 .. n PROVE c[m + i] = s[i]
  <2>1. m + i \in 1 .. m + n /\ ~(m + i <= m) /\ (m + i) - m = i
    BY <1>2
  <2> QED
    BY <1>1, <2>1
<1>5. ASSUME NEW i \in 1 .. m + n
      PROVE  \/ \E j \in 1 .. m : c[i] = r[j]
             \/ \E j \in 1 .. n : c[i] = s[j]
  <2>1. CASE i <= m
    <3>1. i \in 1 .. m
      BY <2>1, <1>2
    <3> QED
      BY <3>1, <1>3
  <2>2. CASE ~(i <= m)
    <3>1. i - m \in 1 .. n
      BY <2>2, <1>2
    <3> QED
      BY <3>1, <2>2, <1>1
  <2> QED
    BY <2>1, <2>2
<1>6. /\ \A i \in 1 .. m : i \in 1 .. m + n
      /\ \A i \in 1 .. n : m + i \in 1 .. m + n
  BY <1>2
<1>7. ASSUME NEW x
      PROVE  Occurs(x, c) <=> Occurs(x, r) \/ Occurs(x, s)
  BY <1>1, <1>3, <1>4, <1>5, <1>6 DEF Occurs, m, n
<1> QED
  BY <1>1, <1>3, <1>4, <1>7 DEF c, m, n

\* FlattenSeq of n sequences: what flatten[n] is
Joins(ss, g, k) == \A i \in 1 .. k : g[i] = IF i = 1 THEN ss[i] ELSE g[i - 1] \o ss[i]

LEMMA JoinsExists ==
  ASSUME NEW S, NEW ss \in Seq(Seq(S)), NEW n, n = Len(ss)
  PROVE  \E g \in [1 .. n -> Seq(S)] : Joins(ss, g, n)
<1>1. n \in Nat /\ \A i \in 1 .. n : ss[i] \in Seq(S)
  BY LenProperties, ElementOfSeq
<1> DEFINE T == {k \in Nat : k <= n => \E g \in [1 .. k -> Seq(S)] : Joins(ss, g, k)}
<1>2. 0 \in T
  <2>1. \A g : Joins(ss, g, 0)
    BY DEF Joins
  <2>2. [i \in 1 .. 0 |-> <<>>] \in [1 .. 0 -> Seq(S)]
    OBVIOUS
  <2> QED
    BY <2>1, <2>2
<1>3. ASSUME NEW k \in Nat, k \in T PROVE k + 1 \in T
  <2>1. SUFFICES ASSUME k + 1 <= n
                 PROVE  \E g \in [1 .. k + 1 -> Seq(S)] : Joins(ss, g, k + 1)
    OBVIOUS
  <2>2. PICK g \in [1 .. k -> Seq(S)] : Joins(ss, g, k)
    BY <1>1, <1>3, <2>1
  <2> DEFINE next == IF k = 0 THEN ss[1] ELSE g[k] \o ss[k + 1]
             e == [i \in 1 .. k + 1 |-> IF i = k + 1 THEN next ELSE g[i]]
  <2>3. next \in Seq(S)
    <3>1. ss[k + 1] \in Seq(S)
      BY <1>1, <2>1
    <3>2. CASE k = 0
      BY <3>1, <3>2
    <3>3. CASE k # 0
      <4>1. k \in 1 .. k
        BY <3>3
      <4>2. g[k] \in Seq(S)
        BY <4>1
      <4> QED
        BY <3>1, <3>3, <4>2, ConcatProperties
    <3> QED
      BY <3>2, <3>3
  <2> HIDE DEF next
  <2>4. e \in [1 .. k + 1 -> Seq(S)]
    BY <2>3
  <2>5. ASSUME NEW i \in 1 .. k + 1
        PROVE  e[i] = IF i = 1 THEN ss[i] ELSE e[i - 1] \o ss[i]
    <3>1. CASE i = k + 1
      <4>1. CASE k = 0
        BY <3>1, <4>1 DEF next
      <4>2. CASE k # 0
        <5>1. e[i] = next /\ i # 1 /\ i - 1 = k /\ k \in 1 .. k + 1 /\ k # k + 1
          BY <3>1, <4>2
        <5>2. e[i - 1] = g[k]
          BY <5>1
        <5> QED
          BY <5>1, <5>2, <3>1, <4>2 DEF next
      <4> QED
        BY <4>1, <4>2
    <3>2. CASE i # k + 1
      <4>1. i \in 1 .. k /\ (i = 1 \/ i - 1 \in 1 .. k)
        BY <3>2
      <4>2. e[i] = g[i] /\ (i = 1 \/ e[i - 1] = g[i - 1])
        BY <4>1
      <4> HIDE DEF e
      <4> QED
        BY <4>1, <4>2, <2>2 DEF Joins
    <3> QED
      BY <3>1, <3>2
  <2> HIDE DEF e
  <2>6. Joins(ss, e, k + 1)
    BY <2>5 DEF Joins
  <2> QED
    BY <2>4, <2>6
<1>4. n \in T
  <2> HIDE DEF T
  <2> QED
    BY <1>1, <1>2, <1>3, Induction
<1> QED
  BY <1>1, <1>4

LEMMA FlattenFacts ==
  ASSUME NEW S, NEW ss \in Seq(Seq(S))
  PROVE  /\ FlattenSeq(ss) \in Seq(S)
         /\ \A x : Occurs(x, FlattenSeq(ss)) <=> \E k \in 1 .. Len(ss) : Occurs(x, ss[k])
<1> DEFINE n == Len(ss)
<1>1. n \in Nat /\ \A i \in 1 .. n : ss[i] \in Seq(S)
  BY LenProperties, ElementOfSeq
<1>2. CASE n = 0
  <2>1. FlattenSeq(ss) = ss
    BY <1>2 DEF FlattenSeq
  <2>2. ss = <<>>
    BY <1>2, EmptySeq
  <2>3. ss \in Seq(S) /\ \A x : ~Occurs(x, ss)
    BY <1>2, <2>2 DEF Occurs
  <2> QED
    BY <1>2, <2>1, <2>3
<1>3. CASE n # 0
  <2> DEFINE Def(g) == g = [i \in 1 .. n |-> IF i = 1 THEN ss[i] ELSE g[i - 1] \o ss[i]]
             h == CHOOSE g : Def(g)
  <2>1. FlattenSeq(ss) = h[n]
    BY <1>3 DEF FlattenSeq
  <2>2. \E g : Def(g)
    <3>1. PICK g \in [1 .. n -> Seq(S)] : Joins(ss, g, n)
      BY JoinsExists
    <3>2. Def(g)
      BY <3>1 DEF Joins
    <3> QED
      BY <3>2
  <2>3. Def(h)
    <3> HIDE DEF Def
    <3> QED
      BY <2>2
  <2>4. \A i \in 1 .. n : h[i] = IF i = 1 THEN ss[i] ELSE h[i - 1] \o ss[i]
    BY <2>3
  <2> HIDE DEF h, Def
  <2> DEFINE Facts(k) == /\ h[k] \in Seq(S)
                         /\ \A x : Occurs(x, h[k]) <=> \E j \in 1 .. k : Occurs(x, ss[j])
             T == {k \in Nat : 1 <= k /\ k <= n => Facts(k)}
  <2>5. 0 \in T
    OBVIOUS
  <2>6. ASSUME NEW k \in Nat, k \in T PROVE k + 1 \in T
    <3>1. SUFFICES ASSUME k + 1 <= n PROVE Facts(k + 1)
      OBVIOUS
    <3>2. k + 1 \in 1 .. n /\ ss[k + 1] \in Seq(S)
      BY <1>1, <3>1
    <3>3. CASE k = 0
      <4>1. h[k + 1] = ss[1] /\ k + 1 = 1
        BY <2>4, <3>2, <3>3
      <4>2. \A j \in 1 .. 1 : j = 1
        OBVIOUS
      <4> QED
        BY <4>1, <4>2, <3>2
    <3>4. CASE k # 0
      <4>1. Facts(k)
        BY <2>6, <3>1, <3>4, <1>1
      <4>2. h[k + 1] = h[k] \o ss[k + 1]
        <5>1. k + 1 # 1 /\ (k + 1) - 1 = k
          BY <3>4
        <5> QED
          BY <2>4, <3>2, <5>1
      <4>3. /\ h[k + 1] \in Seq(S)
            /\ \A x : Occurs(x, h[k + 1]) <=> Occurs(x, h[k]) \/ Occurs(x, ss[k + 1])
        BY <4>1, <4>2, <3>2, OccursInConcat
      <4>4. \A j : j \in 1 .. k + 1 <=> j \in 1 .. k \/ j = k + 1
        OBVIOUS
      <4> QED
        BY <4>1, <4>3, <4>4
    <3> QED
      BY <3>3, <3>4
  <2>7. n \in T
    <3> HIDE DEF T
    <3> QED
      BY <1>1, <2>5, <2>6, Induction
  <2>8. Facts(n)
    BY <1>1, <1>3, <2>7
  <2> QED
    BY <2>1, <2>8
<1> QED
  BY <1>2, <1>3

\* The numbers 1 .. Cardinality(Feature) number the features
LEMMA FeaturesInOrder ==
  /\ IsFiniteSet(Feature) /\ Cardinality(Feature) \in Nat
  /\ FeatureOrder \in [1 .. Cardinality(Feature) -> Feature]
  /\ \A f \in Feature : \E k \in 1 .. Cardinality(Feature) : FeatureOrder[k] = f
<1> DEFINE n == Cardinality(Feature)
<1>1. IsFiniteSet(Feature)
  <2> DEFINE last == 11
  <2>1. IsFiniteSet(0 .. last)
    <3>1. last \in Int
      OBVIOUS
    <3> HIDE DEF last
    <3> QED
      BY <3>1, FS_Interval
  <2> QED
    BY <2>1, FS_Subset, DeploymentAssumption
<1>2. n \in Nat /\ Bijection(1 .. n, Feature) # {}
  BY <1>1, FS_CardinalityType DEF ExistsBijection
<1>3. PICK b \in Bijection(1 .. n, Feature) : TRUE
  BY <1>2
<1>4. /\ b \in [1 .. n -> Feature]
      /\ \A i, j \in 1 .. n : b[i] = b[j] => i = j
      /\ \A f \in Feature : \E i \in 1 .. n : b[i] = f
  BY <1>3 DEF Bijection, Injection, Surjection, IsInjective
<1>5. b \in [1 .. n -> Nat]
  <2>1. Feature \subseteq Nat
    BY DeploymentAssumption
  <2> HIDE DEF n
  <2> QED
    BY <1>4, <2>1
<1> HIDE DEF n
<1>6. PICK p \in Bijection(1 .. n, 1 .. n) : \A i, j \in 1 .. n : i < j => b[p[i]] <= b[p[j]]
  BY <1>2, <1>5, SortingOrder
<1>7. /\ p \in [1 .. n -> 1 .. n]
      /\ \A i, j \in 1 .. n : p[i] = p[j] => i = j
      /\ \A i \in 1 .. n : \E j \in 1 .. n : p[j] = i
  BY <1>6 DEF Bijection, Injection, Surjection, IsInjective
<1> DEFINE o == [i \in 1 .. n |-> b[p[i]]]
<1>8. o \in Bijection(1 .. n, Feature)
  <2>1. o \in [1 .. n -> Feature]
    BY <1>4, <1>7
  <2>2. \A i, j \in 1 .. n : o[i] = o[j] => i = j
    BY <1>4, <1>7
  <2>3. \A f \in Feature : \E i \in 1 .. n : o[i] = f
    BY <1>4, <1>7
  <2> HIDE DEF o
  <2> QED
    BY <2>1, <2>2, <2>3 DEF Bijection, Injection, Surjection, IsInjective
<1>9. \A i, j \in 1 .. n : i < j => o[i] < o[j]
  <2>1. ASSUME NEW i \in 1 .. n, NEW j \in 1 .. n, i < j PROVE o[i] < o[j]
    <3>1. p[i] \in 1 .. n /\ p[j] \in 1 .. n
      BY <1>7
    <3>2. i # j
      BY <1>2, <2>1
    <3>5. p[i] # p[j]
      BY <1>7, <3>2
    <3>6. b[p[i]] # b[p[j]] /\ b[p[i]] \in Nat /\ b[p[j]] \in Nat
      BY <1>4, <1>5, <3>1, <3>5
    <3>3. b[p[i]] <= b[p[j]]
      BY <1>6, <2>1
    <3>4. b[p[i]] < b[p[j]]
      BY <3>3, <3>6
    <3> QED
      BY <3>4
  <2> QED
    BY <2>1
<1> HIDE DEF o
<1>10. FeatureOrder \in Bijection(1 .. n, Feature)
  BY <1>8, <1>9 DEF FeatureOrder, n
<1>11. /\ FeatureOrder \in [1 .. n -> Feature]
       /\ \A f \in Feature : \E k \in 1 .. n : FeatureOrder[k] = f
  BY <1>10 DEF Bijection, Injection, Surjection
<1> QED
  BY <1>1, <1>2, <1>11 DEF n

--------------------------------------------------------------------------------
(* The script of main.py *)

Tables == {"Divide1", "Divide2", "Feat", "ActRules"}

Entries == [table : Tables, row : Seq(Int)]

LEMMA EntryFacts ==
  ASSUME NEW table \in Tables
  PROVE  /\ \A x \in Int : Entry(table, <<x>>) \in Entries
         /\ \A x, y \in Int : Entry(table, <<x, y>>) \in Entries
         /\ \A row : Entry(table, row).table = table /\ Entry(table, row).row = row
<1>1. \A row \in Seq(Int) : Entry(table, row) \in Entries
  BY DEF Entry, Entries
<1>2. \A x \in Int : <<x>> \in Seq(Int)
  OBVIOUS
<1>3. \A x, y \in Int : <<x, y>> \in Seq(Int)
  OBVIOUS
<1>4. \A row : Entry(table, row).table = table /\ Entry(table, row).row = row
  BY DEF Entry
<1> QED
  BY <1>1, <1>2, <1>3, <1>4

LEMMA CountFacts ==
  ASSUME Inv, NEW f \in Feature
  PROVE  /\ IndexCount(f) \in Nat \ {0}
         /\ \/ phase = "collecting"
            \/ FTS_THRS[f] = <<>> /\ IndexCount(f) = 1
            \/ Bounds(f, FTS_THRS[f]) /\ IndexCount(f) = Len(FTS_THRS[f])
<1>1. CASE phase = "collecting"
  <2>1. FTS_THRS[f] \in Seq(Nat \ {0})
    BY <1>1 DEF Inv, Collected
  <2>2. Len(FTS_THRS[f]) \in Nat /\ (FTS_THRS[f] = <<>> \/ Len(FTS_THRS[f]) # 0)
    BY <2>1, EmptySeq, LenProperties
  <2> QED
    BY <1>1, <2>2 DEF IndexCount
<1>2. CASE phase # "collecting"
  <2>1. FTS_THRS[f] = <<>> \/ Bounds(f, FTS_THRS[f])
    BY <1>2 DEF Inv, Walked, Lists
  <2>2. CASE FTS_THRS[f] = <<>>
    <3>1. IndexCount(f) = 1
      BY <2>2 DEF IndexCount
    <3>2. IndexCount(f) \in Nat \ {0}
      BY <3>1
    <3> QED
      BY <2>2, <3>1, <3>2, Zenon
  <2>3. CASE Bounds(f, FTS_THRS[f])
    <3>1. Len(FTS_THRS[f]) \in Nat /\ Len(FTS_THRS[f]) >= 2
      BY <2>3 DEF Bounds
    <3>2. FTS_THRS[f] # <<>>
      BY <3>1
    <3> QED
      BY <2>3, <3>1, <3>2 DEF IndexCount
  <2> QED
    BY <2>1, <2>2, <2>3
<1> QED
  BY <1>1, <1>2

LEMMA DivisionEntriesFacts ==
  /\ DivisionEntries \in Seq(Entries)
  /\ \A x : Occurs(x, DivisionEntries) <=>
       \E d \in 1 .. DivisionRanges : x = Entry("Divide1", <<d>>) \/ x = Entry("Divide2", <<d>>)
<1> DEFINE n == DivisionRanges
           pair(d) == <<Entry("Divide1", <<d>>), Entry("Divide2", <<d>>)>>
           ss == [d \in 1 .. n |-> pair(d)]
<1>1. n \in Nat
  BY DeploymentAssumption
<1>2. ASSUME NEW d \in 1 .. n
      PROVE  /\ pair(d) \in Seq(Entries)
             /\ \A x : Occurs(x, pair(d)) <=> x = Entry("Divide1", <<d>>) \/ x = Entry("Divide2", <<d>>)
  <2> DEFINE a == Entry("Divide1", <<d>>)
             b == Entry("Divide2", <<d>>)
  <2>1. a \in Entries /\ b \in Entries
    <3>1. "Divide1" \in Tables /\ "Divide2" \in Tables /\ d \in Int
      BY <1>1 DEF Tables
    <3> QED
      BY <3>1, EntryFacts
  <2> HIDE DEF a, b
  <2>2. <<a, b>> \in Seq(Entries) /\ Len(<<a, b>>) = 2 /\ <<a, b>>[1] = a /\ <<a, b>>[2] = b
    BY <2>1
  <2>3. \A i : i \in 1 .. 2 <=> i = 1 \/ i = 2
    OBVIOUS
  <2>4. \A x : Occurs(x, <<a, b>>) <=> x = a \/ x = b
    BY <2>2, <2>3 DEF Occurs
  <2> QED
    BY <2>2, <2>4 DEF a, b
<1> HIDE DEF pair, n
<1>3. ss \in Seq(Seq(Entries)) /\ Len(ss) = n /\ \A d \in 1 .. n : ss[d] = pair(d)
  <2>1. \A d \in 1 .. n : pair(d) \in Seq(Entries)
    BY <1>2
  <2> QED
    BY <1>1, <2>1
<1>4. DivisionEntries = FlattenSeq(ss)
  BY DEF DivisionEntries, pair, n
<1> HIDE DEF ss
<1>5. /\ FlattenSeq(ss) \in Seq(Entries)
      /\ \A x : Occurs(x, FlattenSeq(ss)) <=> \E k \in 1 .. Len(ss) : Occurs(x, ss[k])
  BY <1>3, FlattenFacts
<1>6. \A x : Occurs(x, FlattenSeq(ss)) <=>
        \E d \in 1 .. n : x = Entry("Divide1", <<d>>) \/ x = Entry("Divide2", <<d>>)
  <2>1. \A x : Occurs(x, FlattenSeq(ss)) <=> \E d \in 1 .. n : Occurs(x, pair(d))
    BY <1>3, <1>5
  <2> QED
    BY <1>2, <2>1
<1> QED
  BY <1>4, <1>5, <1>6 DEF n

LEMMA FeatureEntriesFacts ==
  ASSUME Inv
  PROVE  /\ FeatureEntries \in Seq(Entries)
         /\ \A x : Occurs(x, FeatureEntries) <=>
              \E f \in Feature : \E i \in 1 .. IndexCount(f) - 1 : x = Entry("Feat", <<f, i>>)
<1> DEFINE n == Cardinality(Feature)
           of(f) == [i \in 1 .. IndexCount(f) - 1 |-> Entry("Feat", <<f, i>>)]
           ss == [k \in 1 .. n |-> of(FeatureOrder[k])]
<1>1. /\ n \in Nat /\ FeatureOrder \in [1 .. n -> Feature]
      /\ \A f \in Feature : \E k \in 1 .. n : FeatureOrder[k] = f
  BY FeaturesInOrder
<1>2. ASSUME NEW f \in Feature
      PROVE  /\ of(f) \in Seq(Entries)
             /\ \A x : Occurs(x, of(f)) <=> \E i \in 1 .. IndexCount(f) - 1 : x = Entry("Feat", <<f, i>>)
  <2> DEFINE c == IndexCount(f) - 1
             e(i) == Entry("Feat", <<f, i>>)
  <2>1. c \in Nat
    BY CountFacts
  <2>2. \A i \in 1 .. c : e(i) \in Entries
    <3>1. f \in Int /\ "Feat" \in Tables /\ \A i \in 1 .. c : i \in Int
      BY DeploymentAssumption DEF Tables
    <3> QED
      BY <3>1, EntryFacts
  <2> HIDE DEF c, e
  <2> DEFINE s == [i \in 1 .. c |-> e(i)]
  <2>3. s \in Seq(Entries) /\ Len(s) = c /\ \A i \in 1 .. c : s[i] = e(i)
    BY <2>1, <2>2
  <2>4. of(f) = s
    BY DEF c, e
  <2> HIDE DEF s
  <2>5. \A x : Occurs(x, s) <=> \E i \in 1 .. c : x = e(i)
    BY <2>3 DEF Occurs
  <2> HIDE DEF of
  <2> QED
    BY <2>3, <2>4, <2>5 DEF c, e
<1> HIDE DEF of, n
<1>3. ss \in Seq(Seq(Entries)) /\ Len(ss) = n /\ \A k \in 1 .. n : ss[k] = of(FeatureOrder[k])
  <2>1. \A k \in 1 .. n : of(FeatureOrder[k]) \in Seq(Entries)
    BY <1>1, <1>2
  <2> QED
    BY <1>1, <2>1
<1>4. FeatureEntries = FlattenSeq(ss)
  BY DEF FeatureEntries, of, n
<1> HIDE DEF ss
<1>5. /\ FlattenSeq(ss) \in Seq(Entries)
      /\ \A x : Occurs(x, FlattenSeq(ss)) <=> \E k \in 1 .. Len(ss) : Occurs(x, ss[k])
  BY <1>3, FlattenFacts
<1>6. \A x : Occurs(x, FlattenSeq(ss)) <=> \E f \in Feature : Occurs(x, of(f))
  BY <1>1, <1>3, <1>5
<1> QED
  BY <1>2, <1>4, <1>5, <1>6

\* Thresholds come first, leaves last, and none is left out
LEMMA ScriptFacts ==
  ASSUME Inv, NEW n, n = Len(Script), NEW m, m = Len(actRules), NEW q, q = n - m
  PROVE  /\ n \in Nat /\ m \in Nat /\ q \in Nat
         /\ Script \in Seq(Entries)
         /\ \A d \in 1 .. DivisionRanges :
              /\ \E k \in 1 .. q : Script[k] = Entry("Divide1", <<d>>)
              /\ \E k \in 1 .. q : Script[k] = Entry("Divide2", <<d>>)
         /\ \A f \in Feature : \A i \in 1 .. IndexCount(f) - 1 :
              \E k \in 1 .. q : Script[k] = Entry("Feat", <<f, i>>)
         /\ \A l \in 1 .. m : \E k \in 1 .. n : Script[k] = Entry("ActRules", <<l>>)
         /\ \A k \in 1 .. n : Script[k].table = "Feat" =>
              \E f \in Feature : \E i \in 1 .. IndexCount(f) - 1 : Script[k] = Entry("Feat", <<f, i>>)
<1> DEFINE a == DivisionEntries
           b == FeatureEntries
           c == ActionEntries
<1>1. /\ a \in Seq(Entries) /\ b \in Seq(Entries)
      /\ \A x : Occurs(x, a) <=>
           \E d \in 1 .. DivisionRanges : x = Entry("Divide1", <<d>>) \/ x = Entry("Divide2", <<d>>)
      /\ \A x : Occurs(x, b) <=>
           \E f \in Feature : \E i \in 1 .. IndexCount(f) - 1 : x = Entry("Feat", <<f, i>>)
  BY DivisionEntriesFacts, FeatureEntriesFacts
<1>2. m \in Nat
  BY LenProperties DEF Inv
<1>3. c \in Seq(Entries) /\ Len(c) = m /\ \A l \in 1 .. m : c[l] = Entry("ActRules", <<l>>)
  <2>1. \A l \in 1 .. m : Entry("ActRules", <<l>>) \in Entries
    <3>1. "ActRules" \in Tables /\ \A l \in 1 .. m : l \in Int
      BY DEF Tables
    <3> QED
      BY <3>1, EntryFacts
  <2>2. c = [l \in 1 .. m |-> Entry("ActRules", <<l>>)]
    BY DEF ActionEntries
  <2> HIDE DEF c
  <2> QED
    BY <1>2, <2>1, <2>2
<1>4. Script = (a \o b) \o c
  BY DEF Script
<1> HIDE DEF a, b, c
<1> DEFINE h == a \o b
<1>5. h \in Seq(Entries) /\ \A x : Occurs(x, h) <=> Occurs(x, a) \/ Occurs(x, b)
  BY <1>1, OccursInConcat
<1> HIDE DEF h
<1>6. /\ Script \in Seq(Entries) /\ Len(Script) = Len(h) + Len(c)
      /\ \A i \in 1 .. Len(h) : Script[i] = h[i]
      /\ \A i \in 1 .. Len(c) : Script[Len(h) + i] = c[i]
      /\ \A x : Occurs(x, Script) <=> Occurs(x, h) \/ Occurs(x, c)
  <2>1. Script = h \o c
    BY <1>4 DEF h
  <2>2. /\ h \o c \in Seq(Entries)
        /\ Len(h \o c) = Len(h) + Len(c)
        /\ \A i \in 1 .. Len(h) : (h \o c)[i] = h[i]
        /\ \A i \in 1 .. Len(c) : (h \o c)[Len(h) + i] = c[i]
        /\ \A x : Occurs(x, h \o c) <=> Occurs(x, h) \/ Occurs(x, c)
    <3>1. h \in Seq(Entries) /\ c \in Seq(Entries)
      BY <1>3, <1>5
    <3> QED
      BY ONLY <3>1, OccursInConcat
  <2> QED
    BY <2>1, <2>2
<1>7. q = Len(h) /\ q \in Nat /\ n \in Nat
  <2>1. Len(h) \in Nat
    BY <1>5, LenProperties
  <2> QED
    BY <1>2, <1>3, <1>6, <2>1
<1>8. \A x : Occurs(x, h) => \E k \in 1 .. q : Script[k] = x
  BY <1>6, <1>7 DEF Occurs
<1>9. ASSUME NEW d \in 1 .. DivisionRanges
      PROVE  /\ \E k \in 1 .. q : Script[k] = Entry("Divide1", <<d>>)
             /\ \E k \in 1 .. q : Script[k] = Entry("Divide2", <<d>>)
  BY <1>1, <1>5, <1>8
<1>10. ASSUME NEW f \in Feature, NEW i \in 1 .. IndexCount(f) - 1
       PROVE  \E k \in 1 .. q : Script[k] = Entry("Feat", <<f, i>>)
  BY <1>1, <1>5, <1>8
<1>11. ASSUME NEW l \in 1 .. m PROVE \E k \in 1 .. n : Script[k] = Entry("ActRules", <<l>>)
  <2>1. q + l \in 1 .. n
    BY <1>2, <1>7
  <2> QED
    BY <2>1, <1>3, <1>6, <1>7
<1>12. ASSUME NEW k \in 1 .. n, Script[k].table = "Feat"
       PROVE  \E f \in Feature : \E i \in 1 .. IndexCount(f) - 1 : Script[k] = Entry("Feat", <<f, i>>)
  <2> DEFINE x == Script[k]
  <2>1. Occurs(x, Script)
    BY DEF Occurs
  <2>2. x.table = "Feat"
    BY <1>12
  <2> HIDE DEF x
  <2>3. ~Occurs(x, c)
    <3>1. \A l \in 1 .. m : Entry("ActRules", <<l>>).table = "ActRules"
      BY DEF Entry
    <3> QED
      BY <1>3, <2>2, <3>1 DEF Occurs
  <2>4. ~Occurs(x, a)
    <3>1. \A d \in 1 .. DivisionRanges :
            Entry("Divide1", <<d>>).table = "Divide1" /\ Entry("Divide2", <<d>>).table = "Divide2"
      BY DEF Entry
    <3> QED
      BY <1>1, <2>2, <3>1
  <2>5. Occurs(x, b)
    BY <2>1, <2>3, <2>4, <1>5, <1>6
  <2> QED
    BY <1>1, <2>5 DEF x
<1> QED
  BY <1>2, <1>6, <1>7, <1>9, <1>10, <1>11, <1>12

--------------------------------------------------------------------------------
(* The inductive invariant of Deployment *)

\* The ranges a table holds so far
Loaded ==
  ftRules = [f \in Feature |-> {r \in Ranges(FTS_THRS[f]) : Has("Feat", <<f, r.index>>)}]

Final == Cardinality(Feature) + 3

Packets ==
  [v : Vectors, down : 0 .. DivisionRanges, up : 0 .. DivisionRanges, at : 1 .. Final + 1,
   seen : [Feature -> Nat], ix : [Feature -> Nat], cg : BOOLEAN,
   began : {"nothing", "leaves", "thresholds"}]

\* What MayPick gives when all ranges are there
FullPick(thrs, f, x) == IF Picks(thrs[f], x) = {} THEN {0} ELSE Picks(thrs[f], x)

\* A direction without packets has features 0
Admitted(p) ==
  /\ p.down = 0 => \A f \in OfDownlink : p.v[f] = 0
  /\ p.up = 0 => \A f \in OfUplink : p.v[f] = 0

\* Every division has hit
Divided(p) ==
  \A f \in Feature :
    p.seen[f] = IF (f \in OfDownlink /\ p.at = 1) \/ (f \in OfUplink /\ p.at <= 2)
                THEN 0 ELSE p.v[f]

\* Every look-up of a feature so far has found all ranges of its table
Picked(p, thrs) ==
  \A k \in 1 .. Cardinality(Feature) :
    k + 2 < p.at => p.ix[FeatureOrder[k]] \in FullPick(thrs, FeatureOrder[k], p.v[FeatureOrder[k]])

\* The vectors of indexes that all rules together call CG
Positive == {ix \in Space(FTS_THRS) : Verdict(ix)}

\* What is known of the packet p when q entries come before the leaves, there are n, and
\* d of them are inserted
Looked(p, thrs, yes, q, n, d) ==
  /\ p \in Packets
  /\ p.ix \in Space(thrs)
  /\ Admitted(p)
  /\ p.began # "thresholds" => q <= d /\ Divided(p) /\ Picked(p, thrs)
  /\ p.began = "nothing" => d = n
  /\ p.at = Final + 1 /\ p.cg => p.ix \in yes
  /\ p.at = Final + 1 /\ p.began = "nothing" /\ p.ix \in yes => p.cg

DInv ==
  /\ Inv
  /\ phase # "installed"
  /\ done \in 0 .. IF Written THEN Len(Script) ELSE 0
  /\ Loaded
  /\ packet # NoPacket =>
       /\ Written
       /\ Looked(packet, FTS_THRS, Positive, Len(Script) - Len(actRules), Len(Script), done)

--------------------------------------------------------------------------------
(* The stages of a packet *)

LEMMA StageFacts ==
  /\ Len(Stages) = Final /\ Final \in Nat /\ Final >= 3
  /\ Stages[1] = <<"Divide1">> /\ Stages[2] = <<"Divide2">> /\ Stages[Final] = <<"ActRules">>
  /\ \A k \in 1 .. Cardinality(Feature) : Stages[k + 2] = <<"Feat", FeatureOrder[k]>>
<1> DEFINE n == Cardinality(Feature)
           a == << <<"Divide1">>, <<"Divide2">> >>
           b == [k \in 1 .. n |-> <<"Feat", FeatureOrder[k]>>]
           c == << <<"ActRules">> >>
           S == {<<"Divide1">>, <<"Divide2">>, <<"ActRules">>} \cup {<<"Feat", f>> : f \in Feature}
<1>1. n \in Nat /\ FeatureOrder \in [1 .. n -> Feature]
  BY FeaturesInOrder
<1>2. <<"Divide1">> \in S /\ <<"Divide2">> \in S /\ <<"ActRules">> \in S
      /\ \A f \in Feature : <<"Feat", f>> \in S
  OBVIOUS
<1> HIDE DEF S, n
<1>3. a \in Seq(S) /\ Len(a) = 2 /\ a[1] = <<"Divide1">> /\ a[2] = <<"Divide2">>
  BY <1>2
<1>4. c \in Seq(S) /\ Len(c) = 1 /\ c[1] = <<"ActRules">>
  BY <1>2
<1>5. b \in Seq(S) /\ Len(b) = n /\ \A k \in 1 .. n : b[k] = <<"Feat", FeatureOrder[k]>>
  <2>1. \A k \in 1 .. n : <<"Feat", FeatureOrder[k]>> \in S
    BY <1>1, <1>2
  <2> QED
    BY <1>1, <2>1
<1>6. Stages = (a \o b) \o c
  BY DEF Stages, n
<1> HIDE DEF a, b, c
<1> DEFINE h == a \o b
<1>7. /\ h \in Seq(S) /\ Len(h) = 2 + n
      /\ \A i \in 1 .. 2 : h[i] = a[i]
      /\ \A i \in 1 .. n : h[2 + i] = b[i]
  <2>1. /\ a \o b \in Seq(S) /\ Len(a \o b) = Len(a) + Len(b)
        /\ \A i \in 1 .. Len(a) : (a \o b)[i] = a[i]
        /\ \A i \in 1 .. Len(b) : (a \o b)[Len(a) + i] = b[i]
    <3>1. a \in Seq(S) /\ b \in Seq(S)
      BY <1>3, <1>5
    <3> QED
      BY ONLY <3>1, OccursInConcat
  <2> QED
    BY <1>3, <1>5, <2>1
<1> HIDE DEF h
<1>8. /\ Stages \in Seq(S) /\ Len(Stages) = 2 + n + 1
      /\ \A i \in 1 .. 2 + n : Stages[i] = h[i]
      /\ \A i \in 1 .. 1 : Stages[2 + n + i] = c[i]
  <2>1. /\ h \o c \in Seq(S) /\ Len(h \o c) = Len(h) + Len(c)
        /\ \A i \in 1 .. Len(h) : (h \o c)[i] = h[i]
        /\ \A i \in 1 .. Len(c) : (h \o c)[Len(h) + i] = c[i]
    <3>1. h \in Seq(S) /\ c \in Seq(S)
      BY <1>4, <1>7
    <3> QED
      BY ONLY <3>1, OccursInConcat
  <2>2. Stages = h \o c
    BY <1>6 DEF h
  <2> QED
    BY <1>4, <1>7, <2>1, <2>2
<1>9. Final = 2 + n + 1 /\ Final \in Nat /\ Final >= 3
  BY <1>1 DEF Final, n
<1>10. Stages[1] = <<"Divide1">> /\ Stages[2] = <<"Divide2">>
  <2>1. 1 \in 1 .. 2 /\ 2 \in 1 .. 2 /\ 1 \in 1 .. 2 + n /\ 2 \in 1 .. 2 + n
    BY <1>1
  <2> QED
    BY <1>3, <1>7, <1>8, <2>1
<1>11. Stages[Final] = <<"ActRules">>
  <2>1. 1 \in 1 .. 1
    OBVIOUS
  <2> QED
    BY <1>4, <1>8, <1>9, <2>1
<1>12. ASSUME NEW k \in 1 .. n PROVE Stages[k + 2] = <<"Feat", FeatureOrder[k]>>
  <2>1. 2 + k \in 1 .. 2 + n /\ 2 + k = k + 2
    BY <1>1
  <2> QED
    BY <1>5, <1>7, <1>8, <2>1
<1> QED
  BY <1>8, <1>9, <1>10, <1>11, <1>12 DEF n

\* Which stage a packet is at, told by the table
LEMMA StageOf ==
  ASSUME NEW i \in 1 .. Final
  PROVE  /\ Stages[i] = <<"Divide1">> => i = 1
         /\ Stages[i] = <<"Divide2">> => i = 2
         /\ Stages[i] = <<"ActRules">> => i = Final
         /\ \A f : Stages[i] = <<"Feat", f>> =>
              \E k \in 1 .. Cardinality(Feature) : i = k + 2 /\ FeatureOrder[k] = f
<1> DEFINE n == Cardinality(Feature)
<1>1. n \in Nat /\ Final = n + 3
  BY FeaturesInOrder DEF Final
<1>2. /\ Stages[1] = <<"Divide1">> /\ Stages[2] = <<"Divide2">> /\ Stages[Final] = <<"ActRules">>
      /\ \A k \in 1 .. n : Stages[k + 2] = <<"Feat", FeatureOrder[k]>>
  BY StageFacts
<1>3. \/ i = 1 \/ i = 2 \/ i = Final
      \/ \E k \in 1 .. n : i = k + 2
  <2>1. i = 1 \/ i = 2 \/ i = Final \/ i - 2 \in 1 .. n
    BY <1>1
  <2>2. i = (i - 2) + 2
    OBVIOUS
  <2> QED
    BY <2>1, <2>2
<1>4. /\ <<"Divide1">> # <<"Divide2">> /\ <<"Divide1">> # <<"ActRules">>
      /\ <<"Divide2">> # <<"ActRules">>
      /\ \A f : /\ <<"Feat", f>> # <<"Divide1">> /\ <<"Feat", f>> # <<"Divide2">>
                /\ <<"Feat", f>> # <<"ActRules">>
      /\ \A f, g : <<"Feat", f>> = <<"Feat", g>> => f = g
  <2>1. \A x, y : <<x>> = <<y>> => x = y
    OBVIOUS
  <2>2. \A x, y, z : <<x, y>> # <<z>>
    <3>1. \A x, y, z : Len(<<x, y>>) = 2 /\ Len(<<z>>) = 1
      OBVIOUS
    <3> QED
      BY <3>1
  <2>3. \A x, y, z : <<x, y>> = <<x, z>> => y = z
    OBVIOUS
  <2> QED
    BY <2>1, <2>2, <2>3
<1> HIDE DEF n
<1>5. CASE i = 1
  BY <1>2, <1>4, <1>5
<1>6. CASE i = 2
  BY <1>2, <1>4, <1>6
<1>7. CASE i = Final
  BY <1>2, <1>4, <1>7
<1>8. ASSUME NEW k \in 1 .. n, i = k + 2
      PROVE  /\ Stages[i] # <<"Divide1">> /\ Stages[i] # <<"Divide2">> /\ Stages[i] # <<"ActRules">>
             /\ \A f : Stages[i] = <<"Feat", f>> => FeatureOrder[k] = f
  BY <1>2, <1>4, <1>8
<1> QED
  BY <1>3, <1>5, <1>6, <1>7, <1>8 DEF n

--------------------------------------------------------------------------------
(* Every step of Deployment keeps the invariant *)

LEMMA ScriptTypes ==
  Inv => /\ Len(Script) \in Nat /\ Len(actRules) \in Nat
         /\ Len(Script) - Len(actRules) \in Nat
<1> SUFFICES ASSUME Inv
             PROVE  /\ Len(Script) \in Nat /\ Len(actRules) \in Nat
                    /\ Len(Script) - Len(actRules) \in Nat
  OBVIOUS
<1> DEFINE n == Len(Script)
           m == Len(actRules)
           q == n - m
<1>1. n \in Nat /\ m \in Nat /\ q \in Nat
  <2> HIDE DEF n, m, q
  <2> QED
    BY ScriptFacts DEF n, m, q
<1> QED
  BY <1>1

\* Once the rules are written nothing but the tables changes
LEMMA WalkKept ==
  ASSUME UNCHANGED walkVars
  PROVE  /\ UNCHANGED <<tree, phase, visit, FTS_THRS, frames, FTS_INDS, actRules>>
         /\ Written' = Written
         /\ Script' = Script
         /\ Positive' = Positive
<1>1. UNCHANGED <<tree, phase, visit, FTS_THRS, frames, FTS_INDS, actRules>>
  BY DEF walkVars
<1>2. Written' = Written
  BY <1>1 DEF Written
<1>3. FeatureEntries' = FeatureEntries
  BY <1>1 DEF FeatureEntries, IndexCount
<1>4. ActionEntries' = ActionEntries
  BY <1>1 DEF ActionEntries
<1>5. Script' = Script
  BY <1>3, <1>4 DEF Script, DivisionEntries
<1>6. \A ix : MatchingRules(ix)' = MatchingRules(ix)
  BY <1>1 DEF MatchingRules, Matches
<1>7. \A ix : Verdict(ix)' = Verdict(ix)
  BY <1>1, <1>6 DEF Verdict
<1>8. Positive' = Positive
  BY <1>1, <1>7 DEF Positive
<1> QED
  BY <1>1, <1>2, <1>5, <1>8

LEMMA InvKept ==
  ASSUME Inv, phase # "installed", UNCHANGED walkVars
  PROVE  Inv' /\ phase' # "installed"
BY WalkKept DEF Inv

LEMMA DInitInv == DInit => DInv
<1> SUFFICES ASSUME DInit PROVE DInv
  OBVIOUS
<1>1. Init /\ done = 0 /\ packet = NoPacket
  BY DEF DInit
<1>2. phase = "collecting" /\ ftRules = [f \in Feature |-> {}]
  BY <1>1 DEF Init
<1>3. Inv
  BY <1>1, InitInv
<1>4. ~Written
  BY <1>2 DEF Written
<1>5. Loaded
  <2>1. \A row : ~Has("Feat", row)
    BY <1>1 DEF Has
  <2>2. \A f \in Feature : {r \in Ranges(FTS_THRS[f]) : Has("Feat", <<f, r.index>>)} = {}
    BY <2>1
  <2> QED
    BY <1>2, <2>2 DEF Loaded
<1> QED
  BY <1>1, <1>2, <1>3, <1>4, <1>5 DEF DInv

LEMMA WalkFacts ==
  ASSUME Walk
  PROVE  /\ [Next]_vars /\ ~Written /\ phase' \in {phase, "writing"}
         /\ UNCHANGED <<done, packet, ftRules>>
<1>1. /\ CollectNode \/ SortThresholds \/ WriteLeaf \/ GoLeft \/ GoRight \/ Climb
      /\ UNCHANGED <<done, packet>>
  BY DEF Walk
<1>2. Next
  BY <1>1 DEF Next
<1>3. CASE CollectNode
  BY <1>2, <1>3, <1>1 DEF CollectNode, Written
<1>4. CASE SortThresholds
  BY <1>2, <1>4, <1>1 DEF SortThresholds, Written
<1>5. CASE WriteLeaf
  BY <1>2, <1>5, <1>1 DEF WriteLeaf, Written
<1>6. CASE GoLeft
  BY <1>2, <1>6, <1>1 DEF GoLeft, Written
<1>7. CASE GoRight
  BY <1>2, <1>7, <1>1 DEF GoRight, Written
<1>8. CASE Climb
  BY <1>2, <1>8, <1>1 DEF Climb, Written
<1> QED
  BY <1>1, <1>3, <1>4, <1>5, <1>6, <1>7, <1>8

LEMMA NoneLoaded ==
  done = 0 => (Loaded <=> ftRules = [f \in Feature |-> {}])
<1> SUFFICES ASSUME done = 0 PROVE Loaded <=> ftRules = [f \in Feature |-> {}]
  OBVIOUS
<1>1. \A row : ~Has("Feat", row)
  BY DEF Has
<1>2. \A f \in Feature : {r \in Ranges(FTS_THRS[f]) : Has("Feat", <<f, r.index>>)} = {}
  BY <1>1
<1>3. [f \in Feature |-> {r \in Ranges(FTS_THRS[f]) : Has("Feat", <<f, r.index>>)}] = [f \in Feature |-> {}]
  BY <1>2
<1> QED
  BY <1>3 DEF Loaded

LEMMA WalkInv == DInv /\ Walk => DInv'
<1> SUFFICES ASSUME DInv, Walk PROVE DInv'
  OBVIOUS
<1>1. /\ [Next]_vars /\ ~Written /\ phase' \in {phase, "writing"}
      /\ UNCHANGED <<done, packet, ftRules>>
  BY WalkFacts
<1>2. /\ Inv /\ phase # "installed" /\ Loaded
      /\ packet = NoPacket
      /\ done = 0
  BY <1>1 DEF DInv
<1>3. Inv' /\ phase' # "installed"
  BY <1>1, <1>2, StepInv
<1>4. Len(Script)' \in Nat
  <2>1. (Inv => /\ Len(Script) \in Nat /\ Len(actRules) \in Nat
                /\ Len(Script) - Len(actRules) \in Nat)'
    BY ScriptTypes, PTL
  <2> QED
    BY <1>3, <2>1
<1>5. done' = 0 /\ packet' = NoPacket
  BY <1>1, <1>2
<1>6. done' \in 0 .. IF Written' THEN Len(Script)' ELSE 0
  BY <1>4, <1>5
<1>7. Loaded'
  <2>1. ftRules = [f \in Feature |-> {}]
    BY <1>2, NoneLoaded
  <2>2. ftRules' = [f \in Feature |-> {}]
    BY <1>1, <2>1
  <2>3. (done = 0 => (Loaded <=> ftRules = [f \in Feature |-> {}]))'
    BY NoneLoaded, PTL
  <2> QED
    BY <1>5, <2>2, <2>3
<1> QED
  BY <1>3, <1>5, <1>6, <1>7 DEF DInv

LEMMA LookedLater ==
  ASSUME NEW p, NEW thrs, NEW yes, NEW q \in Nat, NEW n \in Nat, NEW d \in Nat, NEW e, e = d + 1,
         d < n, Looked(p, thrs, yes, q, n, d)
  PROVE  Looked(p, thrs, yes, q, n, e)
<1>1. q <= d => q <= e
  OBVIOUS
<1>2. p.began # "nothing"
  BY DEF Looked
<1> QED
  BY <1>1, <1>2 DEF Looked

LEMMA EntriesDiffer ==
  \A table, row, other, way : Entry(table, row) = Entry(other, way) <=> table = other /\ row = way
BY DEF Entry

LEMMA LoadedStep ==
  ASSUME Inv, Loaded, done \in Nat, done < Len(Script), UNCHANGED walkVars,
         done' = done + 1, ftRules' = WithRange(Script[done + 1])
  PROVE  Loaded'
<1> DEFINE e == Script[done + 1]
           n == Len(Script)
           in(f, j) == \E k \in 1 .. done : Script[k] = Entry("Feat", <<f, j>>)
<1>1. /\ n \in Nat /\ done + 1 \in 1 .. n
      /\ \A k \in 1 .. n : Script[k].table = "Feat" =>
           \E f \in Feature : \E i \in 1 .. IndexCount(f) - 1 : Script[k] = Entry("Feat", <<f, i>>)
  <2> DEFINE m == Len(actRules)
             q == n - m
  <2>1. /\ n \in Nat
        /\ \A k \in 1 .. n : Script[k].table = "Feat" =>
           \E f \in Feature : \E i \in 1 .. IndexCount(f) - 1 : Script[k] = Entry("Feat", <<f, i>>)
    <3> HIDE DEF n, m, q
    <3> QED
      BY ScriptFacts DEF n, m, q
  <2> QED
    BY <2>1
<1>2. UNCHANGED FTS_THRS /\ Script' = Script
  BY WalkKept
<1>3. ASSUME NEW f, NEW j
      PROVE  Has("Feat", <<f, j>>)' <=> in(f, j) \/ e = Entry("Feat", <<f, j>>)
  <2>1. Has("Feat", <<f, j>>)' <=> \E k \in 1 .. done + 1 : Script[k] = Entry("Feat", <<f, j>>)
    BY <1>2 DEF Has
  <2>2. \A k : k \in 1 .. done + 1 <=> k \in 1 .. done \/ k = done + 1
    OBVIOUS
  <2> QED
    BY <2>1, <2>2
<1>4. ftRules = [f \in Feature |-> {r \in Ranges(FTS_THRS[f]) : in(f, r.index)}]
  BY DEF Loaded, Has
<1> HIDE DEF e, in, n
<1>5. SUFFICES ftRules' = [f \in Feature |-> {r \in Ranges(FTS_THRS[f]) :
                             in(f, r.index) \/ e = Entry("Feat", <<f, r.index>>)}]
  BY <1>2, <1>3 DEF Loaded
<1>6. CASE e.table # "Feat"
  <2>1. ftRules' = ftRules
    BY <1>6 DEF WithRange, e
  <2>2. \A row : e # Entry("Feat", row)
    BY <1>6 DEF Entry
  <2> QED
    BY <2>1, <2>2, <1>4
<1>7. CASE e.table = "Feat"
  <2>1. PICK f \in Feature, i \in Int : e = Entry("Feat", <<f, i>>)
    BY <1>1, <1>7 DEF e
  <2>2. e.row[1] = f /\ e.row[2] = i
    BY <2>1 DEF Entry
  <2>3. ftRules' = [ftRules EXCEPT ![f] = @ \cup {r \in Ranges(FTS_THRS[f]) : r.index = i}]
    BY <1>7, <2>2 DEF WithRange, e
  <2>4. \A g, j : e = Entry("Feat", <<g, j>>) <=> f = g /\ i = j
    <3>1. \A g, j : <<f, i>> = <<g, j>> <=> f = g /\ i = j
      OBVIOUS
    <3> QED
      BY <2>1, <3>1, EntriesDiffer
  <2>5. ASSUME NEW g \in Feature
        PROVE  ftRules'[g] = {r \in Ranges(FTS_THRS[g]) :
                                in(g, r.index) \/ e = Entry("Feat", <<g, r.index>>)}
    <3>1. CASE g = f
      <4>1. ftRules'[g] = {r \in Ranges(FTS_THRS[g]) : in(g, r.index)}
                          \cup {r \in Ranges(FTS_THRS[g]) : r.index = i}
        BY <1>4, <2>3, <3>1
      <4> QED
        BY <4>1, <2>4, <3>1
    <3>2. CASE g # f
      <4>1. ftRules'[g] = {r \in Ranges(FTS_THRS[g]) : in(g, r.index)}
        BY <1>4, <2>3, <3>2
      <4> QED
        BY <4>1, <2>4, <3>2
    <3> QED
      BY <3>1, <3>2
  <2>6. ftRules' = [g \in Feature |-> ftRules'[g]]
    BY <1>4, <2>3
  <2> QED
    BY <2>5, <2>6
<1> QED
  BY <1>6, <1>7

LEMMA InsertInv == DInv /\ Insert => DInv'
<1> SUFFICES ASSUME DInv, Insert PROVE DInv'
  OBVIOUS
<1> DEFINE n == Len(Script)
           q == n - Len(actRules)
<1>1. /\ Written /\ done < n /\ done' = done + 1
      /\ ftRules' = WithRange(Script[done + 1])
      /\ UNCHANGED walkVars /\ packet' = packet
  BY DEF Insert
<1>2. Inv /\ phase # "installed" /\ Loaded
  BY DEF DInv
<1>3. n \in Nat /\ q \in Nat
  BY <1>2, ScriptTypes
<1>4. done \in 0 .. n
  BY <1>1 DEF DInv
<1> DEFINE d == done
<1>5. d \in Nat /\ d + 1 \in 0 .. n
  BY <1>1, <1>3, <1>4
<1>6. Inv' /\ phase' # "installed"
  BY <1>1, <1>2, InvKept
<1>7. /\ Written' = Written /\ Script' = Script /\ Positive' = Positive
      /\ FTS_THRS' = FTS_THRS /\ actRules' = actRules
  BY <1>1, WalkKept
<1>8. Loaded'
  BY <1>1, <1>2, <1>5, LoadedStep
<1>9. ASSUME packet # NoPacket
      PROVE  Looked(packet, FTS_THRS, Positive, q, n, done + 1)
  <2>1. Looked(packet, FTS_THRS, Positive, q, n, d)
    BY <1>9 DEF DInv
  <2> DEFINE e == d + 1
  <2>2. d < n
    BY <1>1
  <2> HIDE DEF q, n, d, e
  <2>3. Looked(packet, FTS_THRS, Positive, q, n, e)
    BY <2>1, <2>2, <1>3, <1>5, LookedLater DEF e
  <2> QED
    BY <2>3 DEF e, d
<1> HIDE DEF d
<1>10. done' \in 0 .. IF Written' THEN Len(Script') ELSE 0
  BY <1>1, <1>5, <1>7 DEF d
<1> QED
  BY <1>1, <1>6, <1>7, <1>8, <1>9, <1>10 DEF DInv

\* A step of the switch alone
LEMMA SwitchInv ==
  ASSUME DInv, UNCHANGED <<walkVars, ftRules, done>>,
         \/ packet' = NoPacket
         \/ /\ Written
            /\ Looked(packet', FTS_THRS, Positive, Len(Script) - Len(actRules), Len(Script), done)
  PROVE  DInv'
<1>1. Inv /\ phase # "installed" /\ Loaded /\ UNCHANGED walkVars
  BY DEF DInv
<1>2. Inv' /\ phase' # "installed"
  BY <1>1, InvKept
<1>3. /\ Written' = Written /\ Script' = Script /\ Positive' = Positive
      /\ FTS_THRS' = FTS_THRS /\ actRules' = actRules
  BY <1>1, WalkKept
<1>4. Loaded'
  <2>1. \A row : Has("Feat", row)' = Has("Feat", row)
    BY <1>3 DEF Has
  <2> QED
    BY <1>1, <1>3, <2>1 DEF Loaded
<1>5. done' \in 0 .. IF Written' THEN Len(Script') ELSE 0
  BY <1>3 DEF DInv
<1> QED
  BY <1>2, <1>3, <1>4, <1>5 DEF DInv

LEMMA ArriveInv ==
  ASSUME DInv, NEW v \in Vectors, NEW down \in 0 .. DivisionRanges, NEW up \in 0 .. DivisionRanges,
         Arrive(v, down, up)
  PROVE  DInv'
<1> DEFINE n == Len(Script)
           q == n - Len(actRules)
           p == packet'
           zero == [f \in Feature |-> 0]
           s == [f \in Feature |-> IF f \in OfDownlink \cup OfUplink THEN 0 ELSE v[f]]
<1>1. /\ Written /\ UNCHANGED <<walkVars, ftRules, done>>
      /\ down = 0 => \A f \in OfDownlink : v[f] = 0
      /\ up = 0 => \A f \in OfUplink : v[f] = 0
      /\ p = [v |-> v, down |-> down, up |-> up, at |-> 1, seen |-> s, ix |-> zero, cg |-> FALSE,
              began |-> Progress]
  BY DEF Arrive
<1>2. Inv /\ done \in 0 .. n
  BY <1>1 DEF DInv
<1>3. n \in Nat /\ q \in Nat /\ Len(actRules) \in Nat
  BY <1>2, ScriptTypes
<1>4. v \in [Feature -> Nat]
  BY TreeAssumption
<1>5. /\ Progress \in {"nothing", "leaves", "thresholds"}
      /\ Progress # "thresholds" => q <= done
      /\ Progress = "nothing" => done = n
  <2>1. CASE done = n
    BY <2>1, <1>1, <1>3 DEF Progress, AllInserted
  <2>2. CASE done # n /\ done >= q
    BY <2>2, <1>1, <1>2, <1>3 DEF Progress, AllInserted
  <2>3. CASE done # n /\ ~(done >= q)
    BY <2>3, <1>1, <1>2, <1>3 DEF Progress, AllInserted
  <2> QED
    BY <2>1, <2>2, <2>3
<1>6. Final \in Nat /\ Final >= 3
  BY StageFacts
<1>7. s \in [Feature -> Nat] /\ zero \in [Feature -> Nat]
  BY <1>4
<1>8. /\ p.v = v /\ p.down = down /\ p.up = up /\ p.at = 1 /\ p.seen = s /\ p.ix = zero
      /\ p.cg = FALSE /\ p.began = Progress
  BY <1>1
<1>9. p \in Packets
  <2>1. 1 \in 1 .. Final + 1
    BY <1>6
  <2> HIDE DEF s, zero
  <2> QED
    BY <1>1, <1>5, <1>7, <2>1 DEF Packets
<1>10. p.ix \in Space(FTS_THRS)
  <2>1. ASSUME NEW f \in Feature
        PROVE  0 < IF FTS_THRS[f] = <<>> THEN 1 ELSE Len(FTS_THRS[f])
    BY <1>2, CountFacts DEF IndexCount
  <2> QED
    BY <1>7, <1>8, <2>1 DEF Space
<1>11. Admitted(p)
  BY <1>1, <1>8 DEF Admitted
<1>12. Divided(p)
  <2>1. ASSUME NEW f \in Feature
        PROVE  s[f] = IF (f \in OfDownlink /\ 1 = 1) \/ (f \in OfUplink /\ 1 <= 2) THEN 0 ELSE v[f]
    OBVIOUS
  <2> HIDE DEF s, p
  <2> QED
    BY <1>8, <2>1 DEF Divided
<1>13. Picked(p, FTS_THRS)
  <2>1. \A k \in 1 .. Cardinality(Feature) : ~(k + 2 < 1)
    BY FeaturesInOrder
  <2> HIDE DEF p
  <2> QED
    BY <1>8, <2>1 DEF Picked
<1>14. p.at # Final + 1
  BY <1>6, <1>8
<1> HIDE DEF p, q, n
<1>15. Looked(p, FTS_THRS, Positive, q, n, done)
  BY <1>5, <1>8, <1>9, <1>10, <1>11, <1>12, <1>13, <1>14 DEF Looked
<1> QED
  BY <1>1, <1>15, SwitchInv DEF p, q, n

\* What a look-up leaves alone
Onward(p, r) ==
  /\ r.v = p.v /\ r.down = p.down /\ r.up = p.up /\ r.began = p.began
  /\ r.at = p.at + 1

\* A look-up changes one field of the packet
Sees(p, r, s) == r = [[p EXCEPT !.seen = s] EXCEPT !.at = @ + 1]

Indexes(p, r, i) == r = [[p EXCEPT !.ix = i] EXCEPT !.at = @ + 1]

Judges(p, r, c) == r = [[p EXCEPT !.cg = c] EXCEPT !.at = @ + 1]

LEMMA Moved ==
  ASSUME NEW p \in Packets, p.at \in 1 .. Final, NEW r
  PROVE  /\ \A s \in [Feature -> Nat] : Sees(p, r, s) =>
              r \in Packets /\ Onward(p, r) /\ r.seen = s /\ r.ix = p.ix /\ r.cg = p.cg
         /\ \A i \in [Feature -> Nat] : Indexes(p, r, i) =>
              r \in Packets /\ Onward(p, r) /\ r.seen = p.seen /\ r.ix = i /\ r.cg = p.cg
         /\ \A c \in BOOLEAN : Judges(p, r, c) =>
              r \in Packets /\ Onward(p, r) /\ r.seen = p.seen /\ r.ix = p.ix /\ r.cg = c
<1>1. Final \in Nat
  BY StageFacts
<1>2. p.at + 1 \in 1 .. Final + 1
  BY <1>1
<1>3. ASSUME NEW s \in [Feature -> Nat], Sees(p, r, s)
      PROVE  r \in Packets /\ Onward(p, r) /\ r.seen = s /\ r.ix = p.ix /\ r.cg = p.cg
  BY <1>2, <1>3 DEF Packets, Onward, Sees
<1>4. ASSUME NEW i \in [Feature -> Nat], Indexes(p, r, i)
      PROVE  r \in Packets /\ Onward(p, r) /\ r.seen = p.seen /\ r.ix = i /\ r.cg = p.cg
  BY <1>2, <1>4 DEF Packets, Onward, Indexes
<1>5. ASSUME NEW c \in BOOLEAN, Judges(p, r, c)
      PROVE  r \in Packets /\ Onward(p, r) /\ r.seen = p.seen /\ r.ix = p.ix /\ r.cg = c
  BY <1>2, <1>5 DEF Packets, Onward, Judges
<1> QED
  BY <1>3, <1>4, <1>5

\* A packet that is looked up, and the state it is looked up in
LEMMA Flying ==
  ASSUME DInv, InFlight
  PROVE  /\ Written /\ Inv /\ packet \in Packets /\ packet.at \in 1 .. Final
         /\ Looked(packet, FTS_THRS, Positive, Len(Script) - Len(actRules), Len(Script), done)
         /\ packet.v \in [Feature -> Nat]
<1>1. packet # NoPacket /\ packet.at <= Final
  BY StageFacts DEF InFlight
<1>2. /\ Inv /\ Written
      /\ Looked(packet, FTS_THRS, Positive, Len(Script) - Len(actRules), Len(Script), done)
  BY <1>1 DEF DInv
<1>3. packet \in Packets
  BY <1>2 DEF Looked
<1>4. Final \in Nat
  BY StageFacts
<1>5. packet.at \in 1 .. Final + 1 /\ packet.v \in Vectors
  BY <1>3 DEF Packets
<1>6. packet.at \in 1 .. Final
  BY <1>1, <1>4, <1>5
<1>7. packet.v \in [Feature -> Nat]
  BY <1>5, TreeAssumption
<1> QED
  BY <1>2, <1>3, <1>6, <1>7

\* With q entries inserted, every division and every threshold is found
LEMMA FoundFirst ==
  ASSUME DInv, Len(Script) - Len(actRules) <= done, Written
  PROVE  /\ \A d \in 1 .. DivisionRanges : Has("Divide1", <<d>>) /\ Has("Divide2", <<d>>)
         /\ \A f \in Feature : ftRules[f] = Ranges(FTS_THRS[f])
<1> DEFINE n == Len(Script)
           m == Len(actRules)
           q == n - m
<1>1. Inv /\ done \in 0 .. n /\ n \in Nat /\ q \in Nat /\ q <= done
  BY ScriptTypes DEF DInv
<1>2. /\ \A d \in 1 .. DivisionRanges :
           /\ \E k \in 1 .. q : Script[k] = Entry("Divide1", <<d>>)
           /\ \E k \in 1 .. q : Script[k] = Entry("Divide2", <<d>>)
      /\ \A f \in Feature : \A i \in 1 .. IndexCount(f) - 1 :
           \E k \in 1 .. q : Script[k] = Entry("Feat", <<f, i>>)
  <2> HIDE DEF n, m, q
  <2> QED
    BY <1>1, ScriptFacts DEF n, m, q
<1>3. \A k \in 1 .. q : k \in 1 .. done
  BY <1>1
<1> HIDE DEF q
<1>4. \A d \in 1 .. DivisionRanges : Has("Divide1", <<d>>) /\ Has("Divide2", <<d>>)
  BY <1>2, <1>3 DEF Has
<1>5. \A f \in Feature : \A i \in 1 .. IndexCount(f) - 1 : Has("Feat", <<f, i>>)
  BY <1>2, <1>3 DEF Has
<1>6. ASSUME NEW f \in Feature PROVE ftRules[f] = Ranges(FTS_THRS[f])
  <2>1. ftRules[f] = {r \in Ranges(FTS_THRS[f]) : Has("Feat", <<f, r.index>>)}
    BY DEF DInv, Loaded
  <2>2. ASSUME NEW r \in Ranges(FTS_THRS[f]) PROVE r.index \in 1 .. IndexCount(f) - 1
    <3>1. r.index \in 1 .. Len(FTS_THRS[f]) - 1
      BY DEF Ranges
    <3>2. FTS_THRS[f] # <<>>
      <4>1. ASSUME FTS_THRS[f] = <<>> PROVE FALSE
        <5>1. Len(FTS_THRS[f]) = 0
          BY <4>1
        <5> QED
          BY <3>1, <5>1
      <4> QED
        BY <4>1
    <3> QED
      BY <3>1, <3>2 DEF IndexCount
  <2> QED
    BY <1>5, <2>1, <2>2
<1> QED
  BY <1>4, <1>6

LEMMA LookUpDivide1Inv == DInv /\ LookUpDivide1 => DInv'
<1> SUFFICES ASSUME DInv, LookUpDivide1 PROVE DInv'
  OBVIOUS
<1> DEFINE p == packet
           r == packet'
           s == [f \in Feature |->
                   IF f \in OfDownlink /\ Has("Divide1", <<p.down>>) THEN p.v[f] ELSE p.seen[f]]
           q == Len(Script) - Len(actRules)
           n == Len(Script)
<1>1. /\ InFlight /\ Stages[p.at] = <<"Divide1">> /\ UNCHANGED <<walkVars, ftRules, done>>
      /\ Sees(p, r, s)
  BY DEF LookUpDivide1, Step, Stage, Sees
<1>2. /\ Written /\ p \in Packets /\ p.at \in 1 .. Final
      /\ Looked(p, FTS_THRS, Positive, q, n, done) /\ p.v \in [Feature -> Nat]
  BY <1>1, Flying
<1>3. p.at = 1
  BY <1>1, <1>2, StageOf
<1>4. /\ p.seen \in [Feature -> Nat] /\ p.ix \in [Feature -> Nat] /\ p.cg \in BOOLEAN
      /\ p.down \in 0 .. DivisionRanges
  BY <1>2 DEF Packets
<1>5. s \in [Feature -> Nat]
  BY <1>2, <1>4
<1> HIDE DEF s, q, n, r, p
<1>7. r \in Packets /\ Onward(p, r) /\ r.seen = s /\ r.ix = p.ix /\ r.cg = p.cg
  BY <1>1, <1>2, <1>5, Moved
<1>8. r.at = 2 /\ Final \in Nat /\ Final >= 3
  BY <1>3, <1>7, StageFacts DEF Onward
<1>9. Admitted(p) /\ Admitted(r)
  BY <1>2, <1>7 DEF Looked, Admitted, Onward
<1>10. ASSUME r.began # "thresholds" PROVE q <= done /\ Divided(r) /\ Picked(r, FTS_THRS)
  <2>1. q <= done /\ Divided(p)
    BY <1>2, <1>7, <1>10 DEF Looked, Onward
  <2>2. \A d \in 1 .. DivisionRanges : Has("Divide1", <<d>>)
    BY <1>2, <2>1, FoundFirst DEF q
  <2>3. p.down = 0 \/ Has("Divide1", <<p.down>>)
    BY <1>4, <2>2, DeploymentAssumption
  <2>4. ASSUME NEW f \in Feature
        PROVE  s[f] = IF (f \in OfDownlink /\ r.at = 1) \/ (f \in OfUplink /\ r.at <= 2)
                      THEN 0 ELSE r.v[f]
    <3>1. p.seen[f] = IF f \in OfDownlink \/ f \in OfUplink THEN 0 ELSE p.v[f]
      BY <1>3, <2>1 DEF Divided
    <3>2. r.v = p.v
      BY <1>7 DEF Onward
    <3>3. ~(f \in OfDownlink /\ f \in OfUplink)
      BY DEF OfDownlink, OfUplink
    <3>4. s[f] = IF f \in OfDownlink /\ Has("Divide1", <<p.down>>) THEN p.v[f] ELSE p.seen[f]
      BY DEF s
    <3>5. p.down = 0 /\ f \in OfDownlink => p.v[f] = 0
      BY <1>9 DEF Admitted
    <3> QED
      BY <2>3, <3>1, <3>2, <3>3, <3>4, <3>5, <1>8
  <2>5. Divided(r)
    BY <1>7, <2>4 DEF Divided
  <2>6. Picked(r, FTS_THRS)
    <3>1. \A k \in 1 .. Cardinality(Feature) : ~(k + 2 < 2)
      BY FeaturesInOrder
    <3> QED
      BY <1>8, <3>1 DEF Picked
  <2> QED
    BY <2>1, <2>5, <2>6
<1>11. r.began = "nothing" => done = n
  BY <1>2, <1>7 DEF Looked, Onward
<1>12. r.at # Final + 1 /\ r.ix \in Space(FTS_THRS)
  BY <1>2, <1>7, <1>8 DEF Looked
<1>13. Looked(r, FTS_THRS, Positive, q, n, done)
  BY <1>7, <1>9, <1>10, <1>11, <1>12 DEF Looked
<1> QED
  BY <1>1, <1>2, <1>13, SwitchInv DEF r, q, n

LEMMA LookUpDivide2Inv == DInv /\ LookUpDivide2 => DInv'
<1> SUFFICES ASSUME DInv, LookUpDivide2 PROVE DInv'
  OBVIOUS
<1> DEFINE p == packet
           r == packet'
           s == [f \in Feature |->
                   IF f \notin OfUplink \/ p.up = 0 THEN p.seen[f]
                   ELSE IF Has("Divide2", <<p.up>>) THEN p.v[f]
                   ELSE IF f - 6 \in Feature THEN p.seen[f - 6] ELSE 0]
           q == Len(Script) - Len(actRules)
           n == Len(Script)
<1>1. /\ InFlight /\ Stages[p.at] = <<"Divide2">> /\ UNCHANGED <<walkVars, ftRules, done>>
      /\ Sees(p, r, s)
  BY DEF LookUpDivide2, Step, Stage, Sees
<1>2. /\ Written /\ p \in Packets /\ p.at \in 1 .. Final
      /\ Looked(p, FTS_THRS, Positive, q, n, done) /\ p.v \in [Feature -> Nat]
  BY <1>1, Flying
<1>3. p.at = 2
  BY <1>1, <1>2, StageOf
<1>4. p.seen \in [Feature -> Nat] /\ p.up \in 0 .. DivisionRanges
  BY <1>2 DEF Packets
<1>5. s \in [Feature -> Nat]
  BY <1>2, <1>4
<1> HIDE DEF s, q, n, r, p
<1>7. r \in Packets /\ Onward(p, r) /\ r.seen = s /\ r.ix = p.ix /\ r.cg = p.cg
  BY <1>1, <1>2, <1>5, Moved
<1>8. r.at = 3 /\ Final \in Nat /\ Final >= 3
  BY <1>3, <1>7, StageFacts DEF Onward
<1>9. Admitted(p) /\ Admitted(r)
  BY <1>2, <1>7 DEF Looked, Admitted, Onward
<1>10. ASSUME r.began # "thresholds" PROVE q <= done /\ Divided(r) /\ Picked(r, FTS_THRS)
  <2>1. q <= done /\ Divided(p)
    BY <1>2, <1>7, <1>10 DEF Looked, Onward
  <2>2. \A d \in 1 .. DivisionRanges : Has("Divide2", <<d>>)
    BY <1>2, <2>1, FoundFirst DEF q
  <2>3. p.up = 0 \/ Has("Divide2", <<p.up>>)
    BY <1>4, <2>2, DeploymentAssumption
  <2>4. ASSUME NEW f \in Feature
        PROVE  s[f] = IF (f \in OfDownlink /\ r.at = 1) \/ (f \in OfUplink /\ r.at <= 2)
                      THEN 0 ELSE r.v[f]
    <3>1. p.seen[f] = IF f \in OfUplink THEN 0 ELSE p.v[f]
      BY <1>3, <2>1 DEF Divided
    <3>2. r.v = p.v
      BY <1>7 DEF Onward
    <3>4. s[f] = IF f \notin OfUplink \/ p.up = 0 THEN p.seen[f]
                 ELSE IF Has("Divide2", <<p.up>>) THEN p.v[f]
                 ELSE IF f - 6 \in Feature THEN p.seen[f - 6] ELSE 0
      BY DEF s
    <3>5. p.up = 0 /\ f \in OfUplink => p.v[f] = 0
      BY <1>9 DEF Admitted
    <3> QED
      BY <2>3, <3>1, <3>2, <3>4, <3>5, <1>8
  <2>5. Divided(r)
    BY <1>7, <2>4 DEF Divided
  <2>6. Picked(r, FTS_THRS)
    <3>1. \A k \in 1 .. Cardinality(Feature) : ~(k + 2 < 3)
      BY FeaturesInOrder
    <3> QED
      BY <1>8, <3>1 DEF Picked
  <2> QED
    BY <2>1, <2>5, <2>6
<1>11. r.began = "nothing" => done = n
  BY <1>2, <1>7 DEF Looked, Onward
<1>12. r.at # Final + 1 /\ r.ix \in Space(FTS_THRS)
  BY <1>2, <1>7, <1>8 DEF Looked
<1>13. Looked(r, FTS_THRS, Positive, q, n, done)
  BY <1>7, <1>9, <1>10, <1>11, <1>12 DEF Looked
<1> QED
  BY <1>1, <1>2, <1>13, SwitchInv DEF r, q, n

\* An index that a table of thresholds gives is one of its feature
LEMMA PicksAreIndexes ==
  ASSUME DInv, NEW f \in Feature, NEW v, NEW i \in MayPick(f, v)
  PROVE  i \in Nat /\ i < IF FTS_THRS[f] = <<>> THEN 1 ELSE Len(FTS_THRS[f])
<1>1. Inv /\ ftRules[f] \subseteq Ranges(FTS_THRS[f])
  BY DEF DInv, Loaded
<1>2. 0 < IF FTS_THRS[f] = <<>> THEN 1 ELSE Len(FTS_THRS[f])
  BY <1>1, CountFacts DEF IndexCount
<1>3. CASE i = 0
  BY <1>2, <1>3
<1>4. CASE i # 0
  <2>1. i \in Hits(f, v)
    BY <1>4 DEF MayPick
  <2>2. \E r \in Ranges(FTS_THRS[f]) : i = r.index
    BY <1>1, <2>1 DEF Hits
  <2>3. i \in 1 .. Len(FTS_THRS[f]) - 1
    BY <2>2 DEF Ranges
  <2>4. IndexCount(f) \in Nat
    BY <1>1, CountFacts
  <2>5. CASE FTS_THRS[f] = <<>>
    <3>1. Len(FTS_THRS[f]) = 0
      BY <2>5
    <3> QED
      BY <2>3, <3>1
  <2>6. CASE FTS_THRS[f] # <<>>
    <3>1. Len(FTS_THRS[f]) \in Nat
      BY <2>4, <2>6 DEF IndexCount
    <3> QED
      BY <2>3, <2>6, <3>1
  <2> QED
    BY <2>5, <2>6
<1> QED
  BY <1>3, <1>4

LEMMA LookUpFeatureInv ==
  ASSUME DInv, NEW f \in Feature, LookUpFeature(f)
  PROVE  DInv'
<1> DEFINE p == packet
           r == packet'
           q == Len(Script) - Len(actRules)
           n == Len(Script)
<1>1. /\ InFlight /\ Stages[p.at] = <<"Feat", f>>
      /\ \E i \in MayPick(f, p.seen) : Step([packet EXCEPT !.ix[f] = i])
  BY DEF LookUpFeature, Stage
<1>2. /\ Written /\ p \in Packets /\ p.at \in 1 .. Final
      /\ Looked(p, FTS_THRS, Positive, q, n, done) /\ p.v \in [Feature -> Nat]
  BY <1>1, Flying
<1>3. PICK k \in 1 .. Cardinality(Feature) : p.at = k + 2 /\ FeatureOrder[k] = f
  BY <1>1, <1>2, StageOf
<1>4. PICK i \in MayPick(f, p.seen) :
        /\ UNCHANGED <<walkVars, ftRules, done>>
        /\ Indexes(p, r, [p.ix EXCEPT ![f] = i])
  BY <1>1 DEF Step, Indexes
<1> DEFINE x == [p.ix EXCEPT ![f] = i]
<1>5. i \in Nat /\ i < IF FTS_THRS[f] = <<>> THEN 1 ELSE Len(FTS_THRS[f])
  BY PicksAreIndexes
<1>6. p.ix \in Space(FTS_THRS) /\ p.ix \in [Feature -> Nat]
  BY <1>2, SpaceFacts DEF Looked
<1>7. x \in [Feature -> Nat] /\ x[f] = i /\ \A g \in Feature : g # f => x[g] = p.ix[g]
  BY <1>5, <1>6
<1>8. x \in Space(FTS_THRS)
  <2> HIDE DEF x
  <2> QED
    BY <1>5, <1>6, <1>7 DEF Space
<1> HIDE DEF x, q, n, r, p
<1>9. r \in Packets /\ Onward(p, r) /\ r.seen = p.seen /\ r.ix = x /\ r.cg = p.cg
  BY <1>2, <1>4, <1>7, Moved DEF x
<1>10. /\ r.at = k + 3 /\ k + 3 <= Final /\ k \in Nat
       /\ Cardinality(Feature) \in Nat /\ Final = Cardinality(Feature) + 3
  BY <1>3, <1>9, FeaturesInOrder DEF Onward, Final
<1>11. Admitted(r)
  BY <1>2, <1>9 DEF Looked, Admitted, Onward
<1>12. ASSUME r.began # "thresholds" PROVE q <= done /\ Divided(r) /\ Picked(r, FTS_THRS)
  <2>1. q <= done /\ Divided(p) /\ Picked(p, FTS_THRS)
    BY <1>2, <1>9, <1>12 DEF Looked, Onward
  <2>2. ftRules[f] = Ranges(FTS_THRS[f])
    BY <1>2, <2>1, FoundFirst DEF q
  <2>3. /\ ~(p.at = 1) /\ ~(p.at <= 2) /\ ~(r.at = 1) /\ ~(r.at <= 2)
    BY <1>3, <1>10
  <2>4. \A g \in Feature : p.seen[g] = p.v[g]
    BY <2>1, <2>3 DEF Divided
  <2>5. r.v = p.v
    BY <1>9 DEF Onward
  <2>6. Divided(r)
    BY <1>9, <2>3, <2>4, <2>5 DEF Divided
  <2>7. i \in FullPick(FTS_THRS, f, p.v[f])
    <3>1. Hits(f, p.seen) = Picks(FTS_THRS[f], p.v[f])
      BY <2>2, <2>4 DEF Hits, Picks
    <3> QED
      BY <3>1 DEF MayPick, FullPick
  <2>8. ASSUME NEW l \in 1 .. Cardinality(Feature), l + 2 < r.at
        PROVE  x[FeatureOrder[l]] \in FullPick(FTS_THRS, FeatureOrder[l], p.v[FeatureOrder[l]])
    <3>1. CASE FeatureOrder[l] = f
      BY <3>1, <1>7, <2>7
    <3>2. CASE FeatureOrder[l] # f
      <4>1. l + 2 < p.at
        <5>1. l # k
          BY <3>2, <1>3
        <5> QED
          BY <5>1, <2>8, <1>3, <1>10
      <4>2. p.ix[FeatureOrder[l]] \in FullPick(FTS_THRS, FeatureOrder[l], p.v[FeatureOrder[l]])
        BY <4>1, <2>1 DEF Picked
      <4>3. FeatureOrder[l] \in Feature
        BY FeaturesInOrder
      <4> QED
        BY <4>2, <4>3, <3>2, <1>7
    <3> QED
      BY <3>1, <3>2
  <2>9. Picked(r, FTS_THRS)
    BY <1>9, <2>5, <2>8 DEF Picked
  <2> QED
    BY <2>1, <2>6, <2>9
<1>13. r.began = "nothing" => done = n
  BY <1>2, <1>9 DEF Looked, Onward
<1>14. r.at # Final + 1 /\ r.ix \in Space(FTS_THRS)
  BY <1>8, <1>9, <1>10
<1>15. Looked(r, FTS_THRS, Positive, q, n, done)
  BY <1>9, <1>11, <1>12, <1>13, <1>14 DEF Looked
<1> QED
  BY <1>2, <1>4, <1>15, SwitchInv DEF r, q, n

\* The rule that the switch finds among those installed
LEMMA InstalledFacts ==
  ASSUME Inv, Written, NEW ix \in Space(FTS_THRS)
  PROVE  LET hits == InstalledHits(ix)
             c    == hits # {} /\ actRules[Max(hits)].cg
         IN  /\ c \in BOOLEAN
             /\ c => Verdict(ix)
             /\ done = Len(Script) /\ Verdict(ix) => c
<1> DEFINE hits == InstalledHits(ix)
           c == hits # {} /\ actRules[Max(hits)].cg
<1>1. PICK k \in DOMAIN actRules : MatchingRules(ix) = {k}
  <2>1. phase # "collecting" /\ frames = <<>>
    BY DEF Written
  <2> QED
    BY <2>1, MatchingFacts
<1>2. hits = {} \/ hits = MatchingRules(ix)
  BY <1>1 DEF InstalledHits
<1>3. c \in BOOLEAN
  OBVIOUS
<1>4. c => Verdict(ix)
  <2> HIDE DEF hits
  <2> QED
    BY <1>2 DEF Verdict
<1>5. ASSUME done = Len(Script) PROVE Verdict(ix) => c
  <2>1. Has("ActRules", <<k>>)
    <3> DEFINE n == Len(Script)
               m == Len(actRules)
               q == n - m
    <3>1. \A l \in 1 .. m : \E j \in 1 .. n : Script[j] = Entry("ActRules", <<l>>)
      <4> HIDE DEF n, m, q
      <4> QED
        BY ScriptFacts DEF n, m, q
    <3>2. k \in 1 .. m
      BY <1>1 DEF Inv
    <3> QED
      BY <1>5, <3>1, <3>2 DEF Has
  <2>2. hits = MatchingRules(ix)
    BY <1>1, <2>1 DEF InstalledHits
  <2> HIDE DEF hits
  <2> QED
    BY <2>2 DEF Verdict
<1> QED
  BY <1>3, <1>4, <1>5

LEMMA LookUpActionInv == DInv /\ LookUpAction => DInv'
<1> SUFFICES ASSUME DInv, LookUpAction PROVE DInv'
  OBVIOUS
<1> DEFINE p == packet
           r == packet'
           q == Len(Script) - Len(actRules)
           n == Len(Script)
           hits == InstalledHits(p.ix)
           c == hits # {} /\ actRules[Max(hits)].cg
<1>1. /\ InFlight /\ Stages[p.at] = <<"ActRules">> /\ UNCHANGED <<walkVars, ftRules, done>>
      /\ Judges(p, r, c)
  BY DEF LookUpAction, Step, Stage, Judges
<1>2. /\ Written /\ Inv /\ p \in Packets /\ p.at \in 1 .. Final
      /\ Looked(p, FTS_THRS, Positive, q, n, done) /\ p.v \in [Feature -> Nat]
  BY <1>1, Flying
<1>3. p.at = Final
  BY <1>1, <1>2, StageOf
<1>4. p.ix \in Space(FTS_THRS)
  BY <1>2 DEF Looked
<1>5. /\ c \in BOOLEAN
      /\ c => Verdict(p.ix)
      /\ done = n /\ Verdict(p.ix) => c
  BY <1>2, <1>4, InstalledFacts
<1> HIDE DEF c, q, n, r, p
<1>6. r \in Packets /\ Onward(p, r) /\ r.seen = p.seen /\ r.ix = p.ix /\ r.cg = c
  BY <1>1, <1>2, <1>5, Moved
<1>7. /\ r.at = Final + 1 /\ Final = Cardinality(Feature) + 3 /\ Cardinality(Feature) \in Nat
      /\ r.v = p.v
  BY <1>3, <1>6, FeaturesInOrder DEF Onward, Final
<1>8. Admitted(r)
  BY <1>2, <1>6 DEF Looked, Admitted, Onward
<1>9. ASSUME r.began # "thresholds" PROVE q <= done /\ Divided(r) /\ Picked(r, FTS_THRS)
  <2>1. q <= done /\ Divided(p) /\ Picked(p, FTS_THRS)
    BY <1>2, <1>6, <1>9 DEF Looked, Onward
  <2>2. ~(p.at = 1) /\ ~(p.at <= 2) /\ ~(r.at = 1) /\ ~(r.at <= 2)
    BY <1>3, <1>7
  <2>3. Divided(r)
    BY <1>6, <1>7, <2>1, <2>2 DEF Divided
  <2>4. \A k \in 1 .. Cardinality(Feature) : k + 2 < p.at
    BY <1>3, <1>7
  <2>5. Picked(r, FTS_THRS)
    BY <1>6, <1>7, <2>1, <2>4 DEF Picked
  <2> QED
    BY <2>1, <2>3, <2>5
<1>10. r.began = "nothing" => done = n
  BY <1>2, <1>6 DEF Looked, Onward
<1>11. r.cg => r.ix \in Positive
  BY <1>4, <1>5, <1>6 DEF Positive
<1>12. r.began = "nothing" /\ r.ix \in Positive => r.cg
  BY <1>5, <1>6, <1>10 DEF Positive
<1>13. Looked(r, FTS_THRS, Positive, q, n, done)
  BY <1>4, <1>6, <1>8, <1>9, <1>10, <1>11, <1>12 DEF Looked
<1> QED
  BY <1>1, <1>2, <1>13, SwitchInv DEF r, q, n

LEMMA StutterInv == DInv /\ UNCHANGED dvars => DInv'
<1> SUFFICES ASSUME DInv, UNCHANGED dvars PROVE DInv'
  OBVIOUS
<1>1. UNCHANGED <<walkVars, ftRules, done>> /\ packet' = packet
  BY DEF dvars
<1>2. CASE packet = NoPacket
  BY <1>1, <1>2, SwitchInv
<1>3. CASE packet # NoPacket
  <2>1. /\ Written
        /\ Looked(packet', FTS_THRS, Positive, Len(Script) - Len(actRules), Len(Script), done)
    BY <1>1, <1>3 DEF DInv
  <2> QED
    BY <1>1, <2>1, SwitchInv
<1> QED
  BY <1>2, <1>3

LEMMA DStepInv == DInv /\ [DNext]_dvars => DInv'
<1> SUFFICES ASSUME DInv, [DNext]_dvars PROVE DInv'
  OBVIOUS
<1>1. CASE Walk
  BY <1>1, WalkInv
<1>2. CASE Insert
  BY <1>2, InsertInv
<1>3. CASE \E v \in Vectors, down, up \in 0 .. DivisionRanges : Arrive(v, down, up)
  BY <1>3, ArriveInv
<1>4. CASE LookUpDivide1
  BY <1>4, LookUpDivide1Inv
<1>5. CASE LookUpDivide2
  BY <1>5, LookUpDivide2Inv
<1>6. CASE \E f \in Feature : LookUpFeature(f)
  BY <1>6, LookUpFeatureInv
<1>7. CASE LookUpAction
  BY <1>7, LookUpActionInv
<1>8. CASE Leave
  BY <1>8, SwitchInv DEF Leave
<1>9. CASE UNCHANGED dvars
  BY <1>9, StutterInv
<1> QED
  BY <1>1, <1>2, <1>3, <1>4, <1>5, <1>6, <1>7, <1>8, <1>9 DEF DNext, LookUp

LEMMA DSpecInv == DSpec => []DInv
<1> QED
  BY DInitInv, DStepInv, PTL DEF DSpec

--------------------------------------------------------------------------------
(* What the invariant of Deployment says of the verdicts *)

LEMMA DInvTypes == DInv => DTypeOK
<1> SUFFICES ASSUME DInv PROVE DTypeOK
  OBVIOUS
<1>1. TypeOK /\ done \in 0 .. IF Written THEN Len(Script) ELSE 0
  BY InvTypes DEF DInv
<1>2. ASSUME packet # NoPacket
      PROVE  /\ packet.at \in 1 .. Len(Stages) + 1
             /\ \A f \in Feature : packet.ix[f] < IndexCount(f)
  <2>1. packet \in Packets /\ packet.ix \in Space(FTS_THRS)
    BY <1>2 DEF DInv, Looked
  <2>2. packet.at \in 1 .. Len(Stages) + 1
    BY <2>1, StageFacts DEF Packets
  <2>3. \A f \in Feature : packet.ix[f] < IndexCount(f)
    BY <2>1 DEF Space, IndexCount
  <2> QED
    BY <2>2, <2>3
<1> QED
  BY <1>1, <1>2 DEF DTypeOK

\* A value in one range only leaves nothing to choose
LEMMA OnePick ==
  ASSUME NEW f \in Feature, NEW T, Bounds(f, T), NEW x \in Nat,
         Cardinality({r \in Ranges(T) : x \in r.lo .. r.hi}) <= 1,
         NEW i \in Picks(T, x)
  PROVE  i = Min(Picks(T, x))
<1> DEFINE n == Len(T) - 1
           at == [j \in 1 .. n |-> [lo |-> T[j] \div Scale, hi |-> T[j + 1] \div Scale, index |-> j]]
           S == {r \in Ranges(T) : x \in r.lo .. r.hi}
<1>1. IsFiniteSet(Ranges(T))
  <2>1. n \in Int
    BY DEF Bounds
  <2>2. Ranges(T) = {at[j] : j \in 1 .. n}
    BY DEF Ranges
  <2> HIDE DEF n
  <2>3. IsFiniteSet(1 .. n)
    BY <2>1, FS_Interval
  <2>4. at \in Surjection(1 .. n, {at[j] : j \in 1 .. n})
    BY DEF Surjection
  <2> QED
    BY <2>2, <2>3, <2>4, FS_Surjection
<1>2. IsFiniteSet(S) /\ Cardinality(S) \in Nat
  <2>1. S \subseteq Ranges(T)
    OBVIOUS
  <2> HIDE DEF S
  <2> QED
    BY <1>1, <2>1, FS_Subset, FS_CardinalityType
<1>3. PICK r \in S : i = r.index
  BY DEF Picks
<1>4. Cardinality(S) <= 1 /\ S # {}
  BY <1>3
<1> HIDE DEF S
<1>5. Cardinality(S) = 1
  BY <1>2, <1>4, FS_EmptySet
<1>6. PICK s : S = {s}
  BY <1>2, <1>5, FS_Singleton
<1>7. Picks(T, x) = {i}
  BY <1>3, <1>6 DEF Picks, S
<1>8. i \in Int
  <2>1. i \in 1 .. n
    BY DEF Picks, Ranges
  <2> QED
    BY <2>1
<1>9. Min({i}) = i
  <2>1. i <= i
    BY <1>8
  <2> QED
    BY <2>1 DEF Min
<1> QED
  BY <1>7, <1>9

\* The indexes of a packet that has seen all ranges take the sides of its values
LEMMA AnsweredAgree ==
  ASSUME DInv, Answered, Plain(packet.v), packet.began # "thresholds"
  PROVE  Agree(tree, FTS_THRS, packet.v, packet.ix)
<1> DEFINE p == packet
<1>1. /\ Inv /\ Written
      /\ Looked(p, FTS_THRS, Positive, Len(Script) - Len(actRules), Len(Script), done)
  BY DEF DInv, Answered
<1>2. p \in Packets /\ Picked(p, FTS_THRS)
  BY <1>1 DEF Looked
<1>3. p.at = Final + 1 /\ p.v \in [Feature -> Nat]
  <2>1. ~(p.at <= Final)
    BY StageFacts DEF Answered, InFlight
  <2>2. p.at \in 1 .. Final + 1 /\ p.v \in Vectors
    BY <1>2 DEF Packets
  <2>3. Final \in Nat
    BY StageFacts
  <2> HIDE DEF p
  <2> QED
    BY <2>1, <2>2, <2>3, TreeAssumption
<1>4. tree \in Trees
  BY <1>1 DEF Inv
<1>5. /\ InRange(p.v)
      /\ \A f \in Feature : Cardinality({r \in Ranges(FTS_THRS[f]) : p.v[f] \in r.lo .. r.hi}) <= 1
  BY DEF Plain
<1> HIDE DEF p
<1>6. ASSUME NEW f \in Feature
      PROVE  p.ix[f] \in FullPick(FTS_THRS, f, p.v[f])
  <2>1. PICK k \in 1 .. Cardinality(Feature) : FeatureOrder[k] = f
    BY FeaturesInOrder
  <2>2. k + 2 < p.at
    BY <1>3, FeaturesInOrder DEF Final
  <2> QED
    BY <1>2, <2>1, <2>2 DEF Picked
<1>7. ASSUME NEW n \in DOMAIN tree, tree[n].ft >= 0,
             Bounds(tree[n].ft, FTS_THRS[tree[n].ft]),
             Holds(FTS_THRS[tree[n].ft], tree[n].thr)
      PROVE  p.v[tree[n].ft] * Scale <= tree[n].thr <=> ToLeft(tree, FTS_THRS, n, p.ix)
  <2> DEFINE f == tree[n].ft
             T == FTS_THRS[f]
  <2>1. f \in Feature /\ tree[n].thr \in Nat
    BY <1>4, <1>7, TreeTypes
  <2>2. Bounds(f, T) /\ Holds(T, tree[n].thr)
    BY <1>7
  <2>3. p.v[f] \in Nat /\ p.v[f] <= FTS_MAX[f]
    BY <1>3, <1>5, <2>1 DEF InRange
  <2>4. Cardinality({r \in Ranges(T) : p.v[f] \in r.lo .. r.hi}) <= 1
    BY <1>5, <2>1
  <2>5. p.ix[f] \in FullPick(FTS_THRS, f, p.v[f])
    BY <1>6, <2>1
  <2>6. p.ix[f] \in IF Picks(T, p.v[f]) = {} THEN {0} ELSE Picks(T, p.v[f])
    BY <2>5 DEF FullPick
  <2> HIDE DEF f, T
  <2>7. /\ Picks(T, p.v[f]) # {}
        /\ p.v[f] * Scale <= tree[n].thr <=>
             Min(Picks(T, p.v[f])) <= IndexOf(T, tree[n].thr)
    BY <2>1, <2>2, <2>3, FirstPickFacts
  <2>8. p.ix[f] = Min(Picks(T, p.v[f]))
    BY <2>1, <2>2, <2>3, <2>4, <2>6, <2>7, OnePick
  <2> QED
    BY <2>7, <2>8 DEF ToLeft, f, T
<1>8. Agree(tree, FTS_THRS, p.v, p.ix)
  BY <1>7 DEF Agree
<1> QED
  BY <1>8 DEF p

LEMMA InvVerdicts ==
  ASSUME DInv, Answered, Plain(packet.v), packet.began # "thresholds"
  PROVE  /\ packet.cg => TreeVerdict(packet.v)
         /\ packet.began = "nothing" => (packet.cg <=> TreeVerdict(packet.v))
<1>1. /\ Inv /\ Written
      /\ Looked(packet, FTS_THRS, Positive, Len(Script) - Len(actRules), Len(Script), done)
  BY DEF DInv, Answered
<1>2. packet \in Packets /\ packet.ix \in Space(FTS_THRS)
  BY <1>1 DEF Looked
<1>3. packet.at = Final + 1 /\ packet.v \in [Feature -> Nat] /\ packet.cg \in BOOLEAN
  <2>1. ~(packet.at <= Final) /\ Final \in Nat
    BY StageFacts DEF Answered, InFlight
  <2>2. packet.at \in 1 .. Final + 1 /\ packet.v \in Vectors /\ packet.cg \in BOOLEAN
    BY <1>2 DEF Packets
  <2> QED
    BY <2>1, <2>2, TreeAssumption
<1>4. Verdict(packet.ix) <=> TreeVerdict(packet.v)
  <2>1. phase # "collecting" /\ frames = <<>>
    BY <1>1 DEF Written
  <2> QED
    BY <1>1, <1>2, <1>3, <2>1, AnsweredAgree, MatchingFacts
<1>5. packet.ix \in Positive <=> Verdict(packet.ix)
  BY <1>2 DEF Positive
<1>6. /\ packet.cg => packet.ix \in Positive
      /\ packet.began = "nothing" /\ packet.ix \in Positive => packet.cg
  BY <1>1, <1>3 DEF Looked
<1> QED
  BY <1>3, <1>4, <1>5, <1>6

LEMMA InvUnfounded == DInv => NoUnfoundedVerdict
BY InvVerdicts DEF NoUnfoundedVerdict

LEMMA InvSettled == DInv => SettledFaithful
<1>1. "nothing" # "thresholds"
  OBVIOUS
<1> QED
  BY <1>1, InvVerdicts DEF SettledFaithful

--------------------------------------------------------------------------------
(* The insertions amount to Install *)

\* There is a rule as soon as the rules are written
LEMMA SomeEntry == Inv => (Written => Len(Script) \in Nat /\ Len(Script) > 0)
<1> SUFFICES ASSUME Inv, Written PROVE Len(Script) \in Nat /\ Len(Script) > 0
  OBVIOUS
<1> DEFINE zero == [f \in Feature |-> 0]
<1>1. zero \in Space(FTS_THRS)
  <2>1. ASSUME NEW f \in Feature PROVE 0 < IF FTS_THRS[f] = <<>> THEN 1 ELSE Len(FTS_THRS[f])
    BY CountFacts DEF IndexCount
  <2> QED
    BY <2>1 DEF Space
<1>2. \E k \in DOMAIN actRules : TRUE
  <2>1. phase # "collecting" /\ frames = <<>>
    BY DEF Written
  <2> HIDE DEF zero
  <2> QED
    BY <1>1, <2>1, MatchingFacts
<1>3. DOMAIN actRules = 1 .. Len(actRules)
  BY DEF Inv
<1>4. /\ Len(Script) \in Nat /\ Len(actRules) \in Nat
      /\ Len(Script) - Len(actRules) \in Nat
  BY ScriptTypes
<1> QED
  BY <1>2, <1>3, <1>4

LEMMA AllFound == DInv /\ AllInserted => ftRules = [f \in Feature |-> Ranges(FTS_THRS[f])]
<1> SUFFICES ASSUME DInv, AllInserted PROVE ftRules = [f \in Feature |-> Ranges(FTS_THRS[f])]
  OBVIOUS
<1>1. Inv /\ Written /\ done = Len(Script) /\ Loaded
  BY DEF DInv, AllInserted
<1>2. Len(Script) - Len(actRules) <= done
  BY <1>1, ScriptTypes
<1>3. \A f \in Feature : ftRules[f] = Ranges(FTS_THRS[f])
  BY <1>1, <1>2, FoundFirst
<1> QED
  BY <1>1, <1>3 DEF Loaded

\* INSTANCE gives DecisionRules' operators over again
LEMMA SameOperators ==
  /\ \A f, thrs : DR!Bounded(f, thrs) = Bounded(f, thrs)
  /\ \A thrs, thr : DR!IndexOf(thrs, thr) = IndexOf(thrs, thr)
  /\ \A inds, f, i : DR!With(inds, f, i) = With(inds, f, i)
  /\ \A inds, f : DR!Saved(inds, f) = Saved(inds, f)
  /\ \A inds, f, save : DR!Restored(inds, f, save) = Restored(inds, f, save)
  /\ \A thrs : DR!Ranges(thrs) = Ranges(thrs)
  /\ \A n : DR!Inner(n) <=> Inner(n)
  /\ DR!Top = Top
  /\ \A n, at, save : DR!Call(n, at, save) <=> Call(n, at, save)
<1>1. \A f, thrs : DR!Bounded(f, thrs) = Bounded(f, thrs)
  <2>1. \A S, T : DR!Bijection(S, T) = Bijection(S, T)
    BY DEF DR!Bijection, DR!Injection, DR!Surjection, DR!IsInjective,
           Bijection, Injection, Surjection, IsInjective
  <2> QED
    BY <2>1 DEF DR!Bounded, DR!Sorted, Bounded, Sorted
<1>2. \A thrs, thr : DR!IndexOf(thrs, thr) = IndexOf(thrs, thr)
  BY DEF DR!IndexOf, DR!Min, IndexOf, Min
<1>3. \A inds, f, i : DR!With(inds, f, i) = With(inds, f, i)
  BY DEF DR!With, With
<1>4. \A inds, f : DR!Saved(inds, f) = Saved(inds, f)
  BY DEF DR!Saved, Saved
<1>5. \A inds, f, save : DR!Restored(inds, f, save) = Restored(inds, f, save)
  BY <1>3 DEF DR!Restored, Restored
<1>6. \A thrs : DR!Ranges(thrs) = Ranges(thrs)
  BY DEF DR!Ranges, Ranges
<1>7. \A n : DR!Inner(n) <=> Inner(n)
  BY DEF DR!Inner, Inner
<1>8. DR!Top = Top
  BY DEF DR!Top, Top
<1>9. \A n, at, save : DR!Call(n, at, save) <=> Call(n, at, save)
  BY <1>8 DEF DR!Call, DR!Front, Call, Front
<1> QED
  BY <1>1, <1>2, <1>3, <1>4, <1>5, <1>6, <1>7, <1>8, <1>9

LEMMA DInitInstalls == DInit => DR!Init
<1> SUFFICES ASSUME DInit PROVE DR!Init
  OBVIOUS
<1>1. Init /\ ~AllInserted
  BY DEF DInit, Init, AllInserted, Written
<1> QED
  BY <1>1 DEF DR!Init, Init

\* A step of dum2Cond.py is one of DecisionRules while nothing is inserted
LEMMA WalkInstalls ==
  ASSUME Walk, ~AllInserted, ~AllInserted'
  PROVE  DR!Next
<1>1. /\ CollectNode \/ SortThresholds \/ WriteLeaf \/ GoLeft \/ GoRight \/ Climb
      /\ UNCHANGED <<done, packet>>
  BY DEF Walk
<1> DEFINE ph == IF AllInserted THEN "installed" ELSE phase
           ft == IF AllInserted THEN ftRules ELSE [f \in Feature |-> {}]
<1>2. ph = phase /\ ph' = phase' /\ ft' = ft
  OBVIOUS
<1> HIDE DEF ph, ft
<1>3. CASE CollectNode
  <2>1. DR!CollectNode
    BY <1>2, <1>3 DEF CollectNode, DR!CollectNode, ph, ft
  <2> QED
    BY <2>1 DEF DR!Next
<1>4. CASE SortThresholds
  <2>1. DR!SortThresholds
    BY <1>2, <1>4, SameOperators DEF SortThresholds, DR!SortThresholds, ph, ft
  <2> QED
    BY <2>1 DEF DR!Next
<1>5. CASE WriteLeaf
  <2>1. DR!WriteLeaf
    BY <1>2, <1>5, SameOperators DEF WriteLeaf, DR!WriteLeaf, DR!Front, Front, ph, ft
  <2> QED
    BY <2>1 DEF DR!Next
<1>6. CASE GoLeft
  <2>1. DR!GoLeft
    BY <1>2, <1>6, SameOperators DEF GoLeft, DR!GoLeft, ph, ft
  <2> QED
    BY <2>1 DEF DR!Next
<1>7. CASE GoRight
  <2>1. DR!GoRight
    BY <1>2, <1>7, SameOperators DEF GoRight, DR!GoRight, ph, ft
  <2> QED
    BY <2>1 DEF DR!Next
<1>8. CASE Climb
  <2>1. DR!Climb
    BY <1>2, <1>8, SameOperators DEF Climb, DR!Climb, DR!Front, Front, ph, ft
  <2> QED
    BY <2>1 DEF DR!Next
<1> QED
  BY <1>1, <1>3, <1>4, <1>5, <1>6, <1>7, <1>8

\* The last insertion installs, and nothing else is seen of the rest
LEMMA InsertInstalls ==
  ASSUME DInv, DInv', Insert
  PROVE  DR!Install \/ UNCHANGED DR!vars
<1>1. /\ Written /\ done < Len(Script) /\ done' = done + 1
      /\ UNCHANGED walkVars /\ packet' = packet
  BY DEF Insert
<1>2. UNCHANGED <<tree, phase, visit, FTS_THRS, frames, FTS_INDS, actRules>> /\ Written'
  BY <1>1, WalkKept
<1>3. ~AllInserted
  <2>1. Len(Script) \in Nat
    BY <1>1, SomeEntry DEF DInv
  <2> QED
    BY <1>1, <2>1 DEF AllInserted
<1>4. CASE AllInserted'
  <2>1. ftRules' = [f \in Feature |-> Ranges(FTS_THRS'[f])]
    <3>1. (DInv /\ AllInserted => ftRules = [f \in Feature |-> Ranges(FTS_THRS[f])])'
      BY AllFound, PTL
    <3> QED
      BY <1>4, <3>1
  <2>2. ftRules' = [f \in Feature |-> Ranges(FTS_THRS[f])]
    BY <1>2, <2>1
  <2>3. DR!Install
    BY <1>1, <1>2, <1>3, <1>4, <2>2, SameOperators DEF DR!Install, Written
  <2> QED
    BY <2>3
<1>5. CASE ~AllInserted'
  BY <1>2, <1>3, <1>5 DEF DR!vars
<1> QED
  BY <1>4, <1>5

LEMMA StepInstalls == DInv /\ DInv' /\ [DNext]_dvars => [DR!Next]_(DR!vars)
<1> SUFFICES ASSUME DInv, DInv', [DNext]_dvars PROVE DR!Next \/ UNCHANGED DR!vars
  OBVIOUS
<1>1. CASE Walk
  <2>1. ~Written /\ done' = done
    BY <1>1, WalkFacts
  <2>2. done = 0
    BY <2>1 DEF DInv
  <2>3. (Inv => (Written => Len(Script) \in Nat /\ Len(Script) > 0))'
    BY SomeEntry, PTL
  <2>4. ~AllInserted'
    BY <2>1, <2>2, <2>3 DEF AllInserted, DInv
  <2>5. ~AllInserted
    BY <2>1 DEF AllInserted
  <2> QED
    BY <1>1, <2>4, <2>5, WalkInstalls
<1>2. CASE Insert
  BY <1>2, InsertInstalls DEF DR!Next
<1>3. CASE UNCHANGED <<walkVars, ftRules, done>>
  <2>1. /\ UNCHANGED <<tree, phase, visit, FTS_THRS, frames, FTS_INDS, actRules>>
        /\ Written' = Written /\ Script' = Script
    BY <1>3, WalkKept
  <2>2. AllInserted' = AllInserted
    BY <1>3, <2>1 DEF AllInserted
  <2> QED
    BY <1>3, <2>1, <2>2 DEF DR!vars
<1>4. ASSUME NEW v \in Vectors, NEW down \in 0 .. DivisionRanges,
             NEW up \in 0 .. DivisionRanges, Arrive(v, down, up)
      PROVE  UNCHANGED <<walkVars, ftRules, done>>
  BY <1>4 DEF Arrive
<1>5. ASSUME LookUp PROVE UNCHANGED <<walkVars, ftRules, done>>
  BY <1>5 DEF LookUp, LookUpDivide1, LookUpDivide2, LookUpFeature, LookUpAction, Leave, Step
<1>6. UNCHANGED dvars => UNCHANGED <<walkVars, ftRules, done>>
  BY DEF dvars
<1> QED
  BY <1>1, <1>2, <1>3, <1>4, <1>5, <1>6 DEF DNext

--------------------------------------------------------------------------------
(* The theorems *)

\* DTypeOK: no more entries are inserted than the script has, none before the rules are
\* written, and every index a packet is given is one of its feature.
THEOREM DeploymentIsTyped == DSpec => []DTypeOK
<1> QED
  BY DSpecInv, DInvTypes, PTL

\* NoUnfoundedVerdict: whatever the division table, the features and the tree are, an
\* unfinished installation calls no flow CG that the tree does not, once the thresholds
\* are inserted.
THEOREM VerdictsAreFounded == DSpec => []NoUnfoundedVerdict
<1> QED
  BY DSpecInv, InvUnfounded, PTL

\* SettledFaithful: a packet whose look-ups began after the last insertion gets the
\* verdict of the tree, however many entries and stages there are.
THEOREM SettledDecide == DSpec => []SettledFaithful
<1> QED
  BY DSpecInv, InvSettled, PTL

\* InstallsAllRules: the entries that main.py inserts one by one are in the end those of
\* the single installation of DecisionRules, and no step of the switch changes them.
THEOREM DeploymentInstallsRules == DSpec => InstallsAllRules
<1> QED
  BY DSpecInv, DInitInstalls, StepInstalls, PTL DEF DSpec, InstallsAllRules

================================================================================
