-------------------------- MODULE DivisionTable_proofs --------------------------
(***************************************************************************)
(* The division table for every Ymax: no row exceeds the inverse it stands *)
(* for or misses an eighth of it, the ranges that are loaded give each     *)
(* count its own row, and the three shifts of the switch divide by it.     *)
(***************************************************************************)
EXTENDS DivisionTable, ModularArithmetic

LEMMA DoubleQuotient ==
  ASSUME NEW u \in Nat, NEW r \in Nat \ {0}, u % r = 0
  PROVE  (2 * u) \div r = 2 * (u \div r) /\ (2 * u) % r = 0
<1> DEFINE q == u \div r
<1>1. q \in Int /\ u = r * q
  BY DivMod
<1> HIDE DEF q
<1>2. 2 * u \in Int /\ 2 * q \in Int /\ 2 * u = r * (2 * q)
  BY <1>1
<1>3. (2 * u) \div r = 2 * q /\ (2 * u) % r = 0
  BY <1>2, DivUnique
<1> QED
  BY <1>3 DEF q

LEMMA OwnQuotient ==
  ASSUME NEW u \in Nat \ {0}
  PROVE  u \div u = 1 /\ u % u = 0
<1>1. u \in Int /\ 1 \in Int /\ u = u * 1
  OBVIOUS
<1> QED
  BY <1>1, DivUnique

--------------------------------------------------------------------------------

\* What the search knows about the row it is building: the sum of the chosen powers
\* is num / unit, it does not exceed 1 / elem, and 1 / elem is less than one unit
\* away
SearchInv ==
  /\ elem \in Nat \ {0} /\ num \in Nat \ {0} /\ unit \in Nat \ {0}
  /\ num * elem <= unit
  /\ unit < elem * (num + 1)

\* The powers chosen: each divides the unit, together they are the sum; k of them
\* make the sum at least 2^k - 1 units
PowersInv ==
  /\ Tab \in Seq(Nat \ {0})
  /\ Len(Tab) \in 1 .. 3
  /\ \A k \in 1 .. Len(Tab) : unit % Tab[k] = 0
  /\ num = RowSum(Tab, unit)
  /\ Len(Tab) = 2 => num >= 3
  /\ Len(Tab) = 3 => num >= 7

\* The last power chosen is the unit, unless the search goes on
LastPower == Tab[Len(Tab)] = unit \/ (Imprecise /\ Len(Tab) < 3)

RowsInv ==
  /\ csv \in Seq(Seq(Nat \ {0}))
  /\ \A n \in 1 .. Len(csv) : RowApproximates(n)

Generator == Pow2Gen \in Nat \ {0} /\ elem <= Pow2Gen /\ Pow2Gen < 2 * elem

TableInv ==
  /\ RowsInv
  /\ Ymax \in Nat
  /\ phase = "approximating" =>
       /\ SearchInv /\ PowersInv /\ LastPower /\ Generator
       /\ elem = Len(csv) + 1 /\ elem <= Ymax

LEMMA FreshRow ==
  ASSUME NEW n \in Nat \ {0}, NEW p \in Nat \ {0}, n <= p, p < 2 * n,
         elem' = n, Tab' = <<p>>, num' = 1, unit' = p
  PROVE  SearchInv' /\ PowersInv' /\ LastPower'
<1>1. p \div p = 1 /\ p % p = 0
  BY OwnQuotient
<1>2. Tab' \in Seq(Nat \ {0}) /\ Len(Tab') = 1 /\ Tab'[1] = p
  OBVIOUS
<1>3. RowSum(Tab', p) = 1
  BY <1>1, <1>2 DEF RowSum, Share
<1>4. PowersInv'
  BY <1>1, <1>2, <1>3 DEF PowersInv
<1>5. SearchInv'
  BY DEF SearchInv
<1>6. LastPower'
  BY <1>2 DEF LastPower
<1> QED
  BY <1>4, <1>5, <1>6

LEMMA TableInit == Init => TableInv
<1> SUFFICES ASSUME Init PROVE TableInv
  OBVIOUS
<1>1. 1 \div 1 = 1 /\ 1 % 1 = 0
  BY OwnQuotient
<1>2. Tab \in Seq(Nat \ {0}) /\ Len(Tab) = 1 /\ Tab[1] = 1 /\ num = 1 /\ unit = 1
  BY DEF Init
<1>3. RowSum(Tab, unit) = 1
  BY <1>1, <1>2 DEF RowSum, Share
<1>4. PowersInv
  BY <1>1, <1>2, <1>3 DEF PowersInv
<1>5. SearchInv /\ LastPower /\ Generator
  BY <1>2 DEF Init, SearchInv, LastPower, Generator
<1>6. csv = <<>> /\ elem = 1 /\ Ymax \in Nat \ {0}
  BY LimitAssumption DEF Init
<1>7. RowsInv /\ elem = Len(csv) + 1 /\ elem <= Ymax
  BY <1>6 DEF RowsInv
<1> QED
  BY <1>4, <1>5, <1>6, <1>7 DEF TableInv

LEMMA SharesDouble ==
  ASSUME SearchInv, PowersInv
  PROVE  /\ \A k \in 1 .. Len(Tab) : (2 * unit) % Tab[k] = 0
         /\ \A k \in 1 .. 3 : Share(Tab, unit, k) \in Int
         /\ \A k \in 1 .. 3 : Share(Tab, 2 * unit, k) = 2 * Share(Tab, unit, k)
<1>1. ASSUME NEW k \in 1 .. Len(Tab)
      PROVE  /\ (2 * unit) % Tab[k] = 0
             /\ (2 * unit) \div Tab[k] = 2 * (unit \div Tab[k])
             /\ unit \div Tab[k] \in Int
  <2>1. Tab[k] \in Nat \ {0} /\ unit \in Nat /\ unit \in Int /\ unit % Tab[k] = 0
    BY DEF SearchInv, PowersInv
  <2> QED
    BY <2>1, DoubleQuotient, DivMod
<1>2. ASSUME NEW k \in 1 .. 3
      PROVE  Share(Tab, unit, k) \in Int /\ Share(Tab, 2 * unit, k) = 2 * Share(Tab, unit, k)
  <2>1. Len(Tab) \in Nat
    BY DEF PowersInv
  <2> QED
    BY <1>1, <2>1 DEF Share
<1> QED
  BY <1>1, <1>2

LEMMA AddPowerStep ==
  ASSUME TableInv, AddPower
  PROVE  TableInv'
<1>1. /\ SearchInv /\ PowersInv /\ LastPower /\ Generator
      /\ elem = Len(csv) + 1 /\ elem <= Ymax /\ Len(Tab) \in 1 .. 2
  BY DEF TableInv, AddPower, Unfinished, MAXSUM, PowersInv
<1>2. /\ Tab' = Append(Tab, 2 * unit) /\ num' = 2 * num + 1 /\ unit' = 2 * unit
      /\ UNCHANGED <<phase, Ymax, elem, Pow2Gen, csv>>
  BY DEF AddPower
<1>3. 2 * unit \in Nat \ {0} /\ num \in Nat \ {0}
  BY <1>1 DEF SearchInv
<1>4. SearchInv'
  <2>1. (2 * num + 1) * elem <= 2 * unit
    BY DEF AddPower, Fits
  <2>2. 2 * unit < elem * ((2 * num + 1) + 1)
    BY <1>1 DEF SearchInv
  <2> QED
    BY <1>1, <1>2, <1>3, <2>1, <2>2 DEF SearchInv
<1>5. /\ Tab' \in Seq(Nat \ {0})
      /\ Len(Tab') = Len(Tab) + 1
      /\ \A k \in 1 .. Len(Tab) : Tab'[k] = Tab[k]
      /\ Tab'[Len(Tab) + 1] = 2 * unit
  BY <1>1, <1>2, <1>3 DEF PowersInv
<1>6. (2 * unit) \div (2 * unit) = 1 /\ (2 * unit) % (2 * unit) = 0
  BY <1>3, OwnQuotient
<1>7. ASSUME NEW k \in 1 .. Len(Tab')
      PROVE  unit' % Tab'[k] = 0
  <2>1. CASE k <= Len(Tab)
    BY <1>1, <1>2, <1>5, <2>1, SharesDouble
  <2>2. CASE k = Len(Tab) + 1
    BY <1>2, <1>5, <1>6, <2>2
  <2> QED
    BY <1>1, <1>5, <2>1, <2>2
<1>8. RowSum(Tab', unit') = 2 * num + 1
  <2>1. \A k \in 1 .. Len(Tab) : Share(Tab', 2 * unit, k) = Share(Tab, 2 * unit, k)
    BY <1>1, <1>5 DEF Share
  <2>2. Share(Tab', 2 * unit, Len(Tab) + 1) = 1
    BY <1>1, <1>5, <1>6 DEF Share
  <2>3. \A k \in 1 .. 3 : Share(Tab, unit, k) \in Int
                          /\ Share(Tab, 2 * unit, k) = 2 * Share(Tab, unit, k)
    BY <1>1, SharesDouble
  <2>4. num = Share(Tab, unit, 1) + Share(Tab, unit, 2) + Share(Tab, unit, 3)
    BY <1>1 DEF PowersInv, RowSum
  <2>5. CASE Len(Tab) = 1
    <3>1. Share(Tab, unit, 2) = 0 /\ Share(Tab, unit, 3) = 0 /\ Share(Tab', 2 * unit, 3) = 0
      BY <1>5, <2>5 DEF Share
    <3>2. Share(Tab', 2 * unit, 1) = 2 * Share(Tab, unit, 1) /\ Share(Tab', 2 * unit, 2) = 1
      BY <2>1, <2>2, <2>3, <2>5
    <3> QED
      BY <1>2, <2>3, <2>4, <3>1, <3>2 DEF RowSum
  <2>6. CASE Len(Tab) = 2
    <3>1. Share(Tab, unit, 3) = 0
      BY <2>6 DEF Share
    <3>2. /\ Share(Tab', 2 * unit, 1) = 2 * Share(Tab, unit, 1)
          /\ Share(Tab', 2 * unit, 2) = 2 * Share(Tab, unit, 2)
          /\ Share(Tab', 2 * unit, 3) = 1
      BY <2>1, <2>2, <2>3, <2>6
    <3> QED
      BY <1>2, <2>3, <2>4, <3>1, <3>2 DEF RowSum
  <2> QED
    BY <1>1, <2>5, <2>6
<1>9. Len(Tab') = 2 => num' >= 3
  BY <1>2, <1>3
<1>10. Len(Tab') = 3 => num' >= 7
  BY <1>1, <1>2, <1>3, <1>5 DEF PowersInv
<1>11. PowersInv'
  <2>1. Len(Tab') \in 1 .. 3
    <3>1. Len(Tab') = Len(Tab) + 1 /\ Len(Tab') \in Nat
      BY <1>5
    <3>2. \A l \in 1 .. 2 : l + 1 \in 1 .. 3
      OBVIOUS
    <3>3. Len(Tab) \in 1 .. 2
      BY <1>1
    <3>4. Len(Tab) + 1 \in 1 .. 3
      BY <3>2, <3>3
    <3> QED
      BY <3>1, <3>4, Zenon
  <2>2. num' = RowSum(Tab', unit')
    BY <1>2, <1>8
  <2> QED
    BY <1>5, <1>7, <1>9, <1>10, <2>1, <2>2 DEF PowersInv
<1>12. LastPower'
  BY <1>2, <1>5 DEF LastPower
<1>13. RowsInv' /\ Generator'
  BY <1>1, <1>2 DEF TableInv, RowsInv, RowApproximates, Generator
<1> QED
  BY <1>1, <1>2, <1>4, <1>11, <1>12, <1>13 DEF TableInv

LEMMA SkipPowerStep ==
  ASSUME TableInv, SkipPower
  PROVE  TableInv'
<1>1. /\ SearchInv /\ PowersInv /\ LastPower /\ Generator
      /\ elem = Len(csv) + 1 /\ elem <= Ymax /\ Len(Tab) < 3 /\ Imprecise
  BY DEF TableInv, SkipPower, Unfinished, MAXSUM
<1>2. /\ num' = 2 * num /\ unit' = 2 * unit
      /\ UNCHANGED <<phase, Ymax, elem, Pow2Gen, Tab, csv>>
  BY DEF SkipPower
<1>3. num \in Nat \ {0} /\ unit \in Nat \ {0} /\ elem \in Nat \ {0}
  BY <1>1 DEF SearchInv
<1>4. SearchInv'
  <2>1. 2 * unit < (2 * num + 1) * elem
    BY <1>3 DEF SkipPower, Fits
  <2>2. (2 * num) * elem <= 2 * unit
    BY <1>1, <1>3 DEF SearchInv
  <2> QED
    BY <1>2, <1>3, <2>1, <2>2 DEF SearchInv
<1>5. PowersInv'
  <2>1. RowSum(Tab, 2 * unit) = 2 * num
    BY <1>1, SharesDouble DEF PowersInv, RowSum
  <2>2. \A k \in 1 .. Len(Tab) : (2 * unit) % Tab[k] = 0
    BY <1>1, SharesDouble
  <2> QED
    BY <1>1, <1>2, <1>3, <2>1, <2>2 DEF PowersInv
<1>6. LastPower'
  <2>1. 20 * (2 * num) * elem < 19 * (2 * unit)
    BY <1>1, <1>3 DEF Imprecise
  <2> QED
    BY <1>1, <1>2, <2>1 DEF LastPower, Imprecise
<1>7. RowsInv' /\ Generator'
  BY <1>1, <1>2 DEF TableInv, RowsInv, RowApproximates, Generator
<1> QED
  BY <1>1, <1>2, <1>4, <1>5, <1>6, <1>7 DEF TableInv

LEMMA EndElementStep ==
  ASSUME TableInv, EndElement
  PROVE  TableInv'
<1>1. /\ SearchInv /\ PowersInv /\ LastPower /\ Generator
      /\ elem = Len(csv) + 1 /\ elem <= Ymax
      /\ Len(Tab) = 3 \/ ~Imprecise
  BY DEF TableInv, EndElement, Unfinished, MAXSUM, PowersInv
<1>2. num \in Nat \ {0} /\ unit \in Nat \ {0} /\ elem \in Nat \ {0}
  BY <1>1 DEF SearchInv
<1>3. Tab[Len(Tab)] = unit /\ num = RowSum(Tab, unit)
  <2>1. CASE Len(Tab) = 3
    BY <1>1, <2>1 DEF LastPower, PowersInv
  <2>2. CASE ~Imprecise
    BY <1>1, <2>2 DEF LastPower, PowersInv
  <2> QED
    BY <1>1, <2>1, <2>2
<1>4. elem * num <= unit /\ 8 * elem * num > 7 * unit
  <2> DEFINE a == elem * num
  <2>1. a \in Nat /\ a <= unit /\ unit < a + elem
    BY <1>1, <1>2 DEF SearchInv
  <2>2. CASE ~Imprecise
    <3>1. 20 * a >= 19 * unit
      BY <1>2, <2>2 DEF Imprecise
    <3>2. 8 * a > 7 * unit
      BY <1>2, <2>1, <3>1
    <3> QED
      BY <1>2, <2>1, <3>2
  <2>3. CASE Len(Tab) = 3
    <3>1. num >= 7
      BY <1>1, <2>3 DEF PowersInv
    <3>2. a >= 7 * elem
      BY <1>2, <3>1
    <3>3. 8 * a > 7 * unit
      BY <1>2, <2>1, <3>2
    <3> QED
      BY <1>2, <2>1, <3>3
  <2> QED
    BY <1>1, <2>2, <2>3
<1>5. csv' = Append(csv, Tab)
  BY DEF EndElement
<1>6. /\ csv \in Seq(Seq(Nat \ {0})) /\ Tab \in Seq(Nat \ {0})
      /\ csv' \in Seq(Seq(Nat \ {0}))
      /\ Len(csv') = elem /\ csv'[elem] = Tab
      /\ \A n \in 1 .. Len(csv) : csv'[n] = csv[n]
  BY <1>1, <1>5 DEF TableInv, RowsInv, PowersInv
<1>7. RowsInv'
  <2>1. ASSUME NEW n \in 1 .. Len(csv')
        PROVE  RowApproximates(n)'
    <3>1. CASE n \in 1 .. Len(csv)
      BY <1>6, <3>1 DEF TableInv, RowsInv, RowApproximates
    <3>2. CASE n = elem
      BY <1>3, <1>4, <1>6, <3>2 DEF RowApproximates, Last
    <3> QED
      BY <1>1, <1>6, <3>1, <3>2
  <2> QED
    BY <1>6, <2>1 DEF RowsInv
<1>8. CASE elem < Ymax
  <2> DEFINE p == FirstPower(elem + 1, Pow2Gen)
  <2>1. p \in Nat \ {0} /\ elem + 1 \in Nat \ {0} /\ elem + 1 <= p /\ p < 2 * (elem + 1)
    BY <1>1, <1>2 DEF Generator, FirstPower
  <2>2. /\ elem' = elem + 1 /\ Pow2Gen' = p /\ Tab' = <<p>> /\ num' = 1 /\ unit' = p
        /\ UNCHANGED <<phase, Ymax>>
    BY <1>8 DEF EndElement
  <2> HIDE DEF p
  <2>3. SearchInv' /\ PowersInv' /\ LastPower'
    BY <2>1, <2>2, FreshRow
  <2>4. Generator'
    BY <2>1, <2>2 DEF Generator
  <2>5. elem' = Len(csv') + 1 /\ elem' <= Ymax' /\ Ymax' \in Nat
    BY <1>2, <1>6, <1>8, <2>2 DEF TableInv
  <2> QED
    BY <1>7, <2>3, <2>4, <2>5 DEF TableInv
<1>9. CASE ~(elem < Ymax)
  BY <1>7, <1>9 DEF EndElement, TableInv
<1> QED
  BY <1>8, <1>9

LEMMA LoadStep ==
  ASSUME TableInv, ExtendRange \/ StartRange \/ EndLoad
  PROVE  TableInv'
<1>1. UNCHANGED <<Ymax, csv>> /\ phase' # "approximating"
  BY DEF ExtendRange, StartRange, EndLoad
<1> QED
  BY <1>1 DEF TableInv, RowsInv, RowApproximates

LEMMA TableStutter == TableInv /\ UNCHANGED vars => TableInv'
  BY DEF TableInv, RowsInv, RowApproximates, SearchInv, PowersInv, LastPower, Generator,
         Imprecise, vars, approx

\* For every Ymax, each row that expo.c writes is at most 1/n and more than 7/8 of
\* it: what the switch takes for a mean never exceeds the mean (Handle_Element).
THEOREM DivisionIsApproximate == Spec => []RowsApproximate
<1>1. TableInv /\ [Next]_vars => TableInv'
  BY AddPowerStep, SkipPowerStep, EndElementStep, LoadStep, TableStutter DEF Next
<1>2. TableInv => RowsApproximate
  BY DEF TableInv, RowsInv, RowsApproximate
<1> QED
  BY TableInit, <1>1, <1>2, PTL DEF Spec

--------------------------------------------------------------------------------
(* The loader *)

\* Entries E answer the counts up to m with their own rows, once each, and no others
Exact(E, rows, m) ==
  /\ \A e \in E : e.lo \in 1 .. e.hi /\ e.hi \in 1 .. m
  /\ \A n \in 1 .. m :
       LET hits == {e \in E : n \in e.lo .. e.hi}
       IN  \E e \in hits : hits = {e} /\ e.pow = Pad(rows[n])

\* The first row is that of 1, which is where the loader starts from
FirstRow ==
  /\ phase = "approximating" /\ elem = 1 => Tab = <<1>> /\ num = 1 /\ unit = 1
  /\ csv # <<>> => csv[1] = <<1>>

Untouched == line = 1 /\ Rng = <<1, 1>> /\ oldPow = Pad(<<1>>) /\ entries = {}

\* The rows before line are installed, or are those of the range at hand
LoadInv ==
  /\ FirstRow
  /\ Ymax \in Limits
  /\ phase = "approximating" => Untouched
  /\ phase # "approximating" => Len(csv) = Ymax
  /\ phase = "loading" =>
       \/ Untouched
       \/ /\ line \in 2 .. Ymax + 1
          /\ Rng \in Nat \X Nat /\ Rng[1] \in 1 .. line - 1 /\ Rng[2] = line - 1
          /\ \A n \in Rng[1] .. Rng[2] : Pad(csv[n]) = oldPow
          /\ Exact(entries, csv, Rng[1] - 1)
  /\ phase = "ready" => Exact(entries, csv, Ymax)

LEMMA RangeInstalled ==
  ASSUME NEW E, NEW rows, NEW pow, NEW lo \in Nat \ {0}, NEW hi \in Nat, lo <= hi,
         Exact(E, rows, lo - 1),
         \A n \in lo .. hi : Pad(rows[n]) = pow
  PROVE  Exact(E \cup {[lo |-> lo, hi |-> hi, pow |-> pow]}, rows, hi)
<1> DEFINE new == [lo |-> lo, hi |-> hi, pow |-> pow]
           F == E \cup {new}
           Hits(n) == {e \in E : n \in e.lo .. e.hi}
           HitsNew(n) == {e \in F : n \in e.lo .. e.hi}
<1>1. \A e \in E : e.lo \in 1 .. e.hi /\ e.hi \in 1 .. lo - 1
  BY DEF Exact
<1>2. \A e \in F : e.lo \in 1 .. e.hi /\ e.hi \in 1 .. hi
  BY <1>1
<1>3. ASSUME NEW n \in 1 .. hi
      PROVE  \E e \in HitsNew(n) : HitsNew(n) = {e} /\ e.pow = Pad(rows[n])
  <2>1. CASE n \in lo .. hi
    <3>1. Hits(n) = {}
      BY <1>1, <2>1
    <3>2. HitsNew(n) = {new}
      BY <2>1, <3>1
    <3>3. new.pow = Pad(rows[n])
      BY <2>1
    <3> HIDE DEF HitsNew, new
    <3> QED
      BY <3>2, <3>3
  <2>2. CASE n \in 1 .. lo - 1
    <3>1. PICK e \in Hits(n) : Hits(n) = {e} /\ e.pow = Pad(rows[n])
      BY <2>2 DEF Exact
    <3>2. HitsNew(n) = Hits(n)
      BY <2>2
    <3> QED
      BY <3>1, <3>2
  <2>3. n \in lo .. hi \/ n \in 1 .. lo - 1
    OBVIOUS
  <2> QED
    BY <2>1, <2>2, <2>3
<1> QED
  BY <1>2, <1>3 DEF Exact

LEMMA LoadInit == Init => LoadInv
BY DEF Init, LoadInv, FirstRow, Untouched

\* The search leaves the loader where it starts, and the first row is written at once
LEMMA SearchKeepsLoad ==
  ASSUME TableInv, LoadInv, AddPower \/ SkipPower \/ EndElement
  PROVE  LoadInv'
<1>1. phase = "approximating" /\ UNCHANGED <<Ymax, line, oldPow, Rng, entries>>
  BY DEF AddPower, SkipPower, EndElement, Unfinished, loader
<1>2. Untouched /\ Untouched' /\ Ymax' \in Limits
  BY <1>1 DEF LoadInv, Untouched
<1>3. elem \in Nat \ {0} /\ elem = Len(csv) + 1 /\ elem <= Ymax /\ csv \in Seq(Seq(Nat \ {0}))
  BY <1>1 DEF TableInv, SearchInv, RowsInv
<1>4. CASE AddPower \/ SkipPower
  <2>1. UNCHANGED <<phase, elem, csv>>
    BY <1>4 DEF AddPower, SkipPower
  <2>2. elem # 1
    <3>1. elem = 1 => ~Imprecise
      BY <1>1 DEF LoadInv, FirstRow, Imprecise
    <3>2. Imprecise
      BY <1>4 DEF AddPower, SkipPower, Unfinished
    <3> QED
      BY <3>1, <3>2
  <2> QED
    BY <1>1, <1>2, <2>1, <2>2 DEF LoadInv, FirstRow
<1>5. CASE EndElement
  <2>1. csv' = Append(csv, Tab)
    BY <1>5 DEF EndElement
  <2>2. csv' # <<>> => csv'[1] = <<1>>
    <3>1. CASE elem = 1
      <4>1. csv = <<>> /\ Tab = <<1>>
        BY <1>1, <1>3, <3>1 DEF LoadInv, FirstRow
      <4> QED
        BY <2>1, <4>1
    <3>2. CASE elem # 1
      <4>1. csv # <<>> /\ csv[1] = <<1>>
        BY <1>3, <3>2 DEF LoadInv, FirstRow
      <4> QED
        BY <1>3, <2>1, <4>1
    <3> QED
      BY <3>1, <3>2
  <2>3. Len(csv') = elem
    BY <1>3, <2>1
  <2>4. CASE elem < Ymax
    <3>1. phase' = phase /\ elem' = elem + 1
      BY <1>5, <2>4 DEF EndElement
    <3> QED
      BY <1>1, <1>2, <1>3, <2>2, <3>1 DEF LoadInv, FirstRow
  <2>5. CASE ~(elem < Ymax)
    <3>1. phase' = "loading" /\ elem = Ymax
      BY <1>3, <1>5, <1>2, <2>5, LimitAssumption DEF EndElement, TableInv
    <3> QED
      BY <1>1, <1>2, <2>2, <2>3, <3>1 DEF LoadInv, FirstRow
  <2> QED
    BY <2>4, <2>5
<1> QED
  BY <1>4, <1>5

LEMMA LoaderKeepsLoad ==
  ASSUME LoadInv, ExtendRange \/ StartRange \/ EndLoad
  PROVE  LoadInv'
<1>1. /\ phase = "loading" /\ UNCHANGED <<Ymax, csv, elem>>
      /\ Ymax \in Nat \ {0} /\ Ymax \in Limits /\ Len(csv) = Ymax /\ csv[1] = <<1>>
  BY LimitAssumption DEF LoadInv, FirstRow, ExtendRange, StartRange, EndLoad, approx
<1>2. FirstRow'
  BY <1>1 DEF LoadInv, FirstRow, ExtendRange, StartRange, EndLoad
<1>3. CASE Untouched
  <2>1. ExtendRange
    BY <1>1, <1>3 DEF Untouched, StartRange, EndLoad
  <2>2. /\ line' = 2 /\ Rng' = <<1, 1>> /\ oldPow' = oldPow /\ entries' = {}
        /\ phase' = "loading"
    BY <1>3, <2>1 DEF Untouched, ExtendRange
  <2>3. \A n \in 1 .. 1 : Pad(csv'[n]) = oldPow'
    BY <1>1, <1>3, <2>2 DEF Untouched
  <2>4. Exact(entries', csv', 0)
    BY <2>2 DEF Exact
  <2> QED
    BY <1>1, <1>2, <2>2, <2>3, <2>4 DEF LoadInv
<1>4. CASE ~Untouched
  <2>0. /\ line \in 2 .. Ymax + 1
        /\ Rng \in Nat \X Nat /\ Rng[1] \in 1 .. line - 1 /\ Rng[2] = line - 1
        /\ \A n \in Rng[1] .. Rng[2] : Pad(csv[n]) = oldPow
        /\ Exact(entries, csv, Rng[1] - 1)
    BY <1>1, <1>4 DEF LoadInv
  <2> PICK lo : lo = Rng[1]
    OBVIOUS
  <2> PICK hi : hi = Rng[2]
    OBVIOUS
  <2>1. /\ Rng[1] = lo /\ Rng[2] = hi /\ line = hi + 1 /\ line \in 2 .. Ymax + 1
        /\ lo \in Nat \ {0} /\ hi \in Nat /\ lo <= hi
        /\ \A n \in lo .. hi : Pad(csv[n]) = oldPow
        /\ Exact(entries, csv, lo - 1)
    BY <1>1, <2>0
  <2>3. CASE ExtendRange
    <3>1. /\ Rng'[1] = lo /\ Rng'[2] = line /\ Rng' \in Nat \X Nat
          /\ line' = line + 1 /\ line' \in 2 .. Ymax' + 1 /\ phase' = phase
          /\ oldPow' = oldPow /\ entries' = entries
          /\ Pad(csv[line]) = oldPow
      BY <1>1, <2>1, <2>3 DEF ExtendRange
    <3>2. \A n \in Rng'[1] .. Rng'[2] : Pad(csv'[n]) = oldPow'
      <4>1. \A n \in lo .. line : n \in lo .. hi \/ n = line
        BY <2>1
      <4> QED
        BY <1>1, <2>1, <3>1, <4>1
    <3>3. Exact(entries', csv', Rng'[1] - 1)
      BY <1>1, <2>1, <3>1
    <3> QED
      BY <1>1, <1>2, <2>1, <3>1, <3>2, <3>3 DEF LoadInv
  <2>4. CASE StartRange
    <3>1. /\ Rng'[1] = line /\ Rng'[2] = line /\ Rng' \in Nat \X Nat
          /\ line' = line + 1 /\ line' \in 2 .. Ymax' + 1 /\ phase' = phase
          /\ oldPow' = Pad(csv[line])
          /\ entries' = entries \cup {[lo |-> lo, hi |-> hi, pow |-> oldPow]}
      BY <1>1, <2>1, <2>4 DEF StartRange, Installed
    <3>2. Exact(entries', csv', hi)
      BY <1>1, <2>1, <3>1, RangeInstalled
    <3>3. Exact(entries', csv', Rng'[1] - 1)
      BY <1>1, <2>1, <3>1, <3>2
    <3> QED
      BY <1>1, <1>2, <2>1, <3>1, <3>3 DEF LoadInv
  <2>5. CASE EndLoad
    <3>1. /\ line = Ymax + 1 /\ phase' = "ready"
          /\ entries' = entries \cup {[lo |-> lo, hi |-> hi, pow |-> oldPow]}
      BY <1>1, <2>1, <2>5 DEF EndLoad, Installed
    <3>2. Exact(entries', csv', hi)
      BY <1>1, <2>1, <3>1, RangeInstalled
    <3>3. Exact(entries', csv', Ymax')
      BY <1>1, <2>1, <3>1, <3>2
    <3> QED
      BY <1>1, <1>2, <3>1, <3>3 DEF LoadInv
  <2> QED
    BY <2>3, <2>4, <2>5
<1> QED
  BY <1>3, <1>4

LEMMA LoadStutter == LoadInv /\ UNCHANGED vars => LoadInv'
BY DEF LoadInv, FirstRow, Untouched, vars, approx, loader

LEMMA TablesNext ==
  /\ Init => TableInv /\ LoadInv
  /\ TableInv /\ LoadInv /\ [Next]_vars => TableInv' /\ LoadInv'
<1>1. Init => TableInv /\ LoadInv
  BY TableInit, LoadInit
<1>2. TableInv /\ LoadInv /\ Next => TableInv' /\ LoadInv'
  BY AddPowerStep, SkipPowerStep, EndElementStep, LoadStep, SearchKeepsLoad, LoaderKeepsLoad DEF Next
<1> QED
  BY <1>1, <1>2, TableStutter, LoadStutter

\* For every Ymax, the ranges that main.py makes of equal rows answer each count from 1
\* to Ymax with its own row and only once, wherever one range ends and the next begins
\* (write_appr_rule).
THEOREM RangesAreExact == Spec => []TableExact
<1>1. LoadInv => TableExact
  BY DEF LoadInv, Exact, TableExact
<1> QED
  BY <1>1, TablesNext, PTL DEF Spec

\* Types, for every Ymax: the search never exceeds three powers, and every range that is
\* loaded lies within 1 .. Ymax.
THEOREM TableTypes == Spec => []TypeOK
<1>1. Init => TypeOK
  BY LimitAssumption DEF Init, TypeOK, MAXSUM
<1>2. ASSUME TypeOK, TableInv, LoadInv, TableInv', LoadInv', Next
      PROVE  TypeOK'
  <2>1. Ymax' \in Limits /\ Ymax' \in Nat \ {0}
    BY <1>2, LimitAssumption DEF LoadInv
  <2>2. phase' \in {"approximating", "loading", "ready"}
    BY <1>2 DEF TypeOK, Next, AddPower, SkipPower, EndElement, ExtendRange, StartRange, EndLoad
  <2>3. csv' \in Seq(Seq(Nat \ {0})) /\ Len(csv') \in 0 .. Ymax'
    <3>1. csv' \in Seq(Seq(Nat \ {0})) /\ Len(csv') \in Nat
      BY <1>2 DEF TableInv, RowsInv
    <3>2. Len(csv') <= Ymax'
      BY <1>2, <2>1, <3>1 DEF TableInv, LoadInv, SearchInv
    <3> QED
      BY <2>1, <3>1, <3>2
  <2>4. /\ elem' \in 1 .. Ymax' /\ Pow2Gen' \in Nat /\ num' \in Nat /\ unit' \in Nat
        /\ Len(Tab') \in 1 .. MAXSUM
    <3>1. CASE phase' = "approximating"
      BY <1>2, <2>1, <3>1 DEF TableInv, SearchInv, PowersInv, Generator, MAXSUM
    <3>2. CASE phase' # "approximating"
      <4>1. UNCHANGED <<approx, Ymax>>
        BY <1>2, <3>2 DEF Next, AddPower, SkipPower, EndElement, ExtendRange, StartRange, EndLoad, Unfinished
      <4> QED
        BY <1>2, <4>1 DEF TypeOK, approx
    <3> QED
      BY <3>1, <3>2
  <2>5. /\ line' \in 1 .. Ymax' + 1 /\ Rng' \in Nat \X Nat
        /\ \A e \in entries' : e.lo \in 1 .. e.hi /\ e.hi \in 1 .. Ymax'
    <3>1. CASE phase' # "ready"
      <4>1. CASE Untouched'
        <5>1. line' = 1 /\ Rng' = <<1, 1>> /\ entries' = {}
          BY <4>1 DEF Untouched
        <5>2. \A y \in Nat : 1 \in 1 .. y + 1
          OBVIOUS
        <5> QED
          BY <2>1, <5>1, <5>2
      <4>2. CASE ~Untouched'
        <5>1. phase' = "loading"
          BY <1>2, <2>2, <3>1, <4>2 DEF LoadInv
        <5>2. /\ line' \in 2 .. Ymax' + 1 /\ Rng' \in Nat \X Nat /\ Rng'[1] \in 1 .. line' - 1
              /\ Exact(entries', csv', Rng'[1] - 1)
          BY <1>2, <4>2, <5>1 DEF LoadInv
        <5>3. \A y \in Nat, l, r \in Int : l \in 2 .. y + 1 /\ r \in 1 .. l - 1 =>
                l \in 1 .. y + 1 /\ r - 1 \in 0 .. y
          OBVIOUS
        <5>4. line' \in Int /\ Rng'[1] \in Int /\ Ymax' \in Nat
          BY <2>1, <5>2
        <5>5. line' \in 1 .. Ymax' + 1 /\ Rng'[1] - 1 \in 0 .. Ymax'
          BY <5>2, <5>3, <5>4
        <5>6. \A e \in entries' : e.lo \in 1 .. e.hi /\ e.hi \in 1 .. Ymax'
          BY <5>2, <5>4, <5>5 DEF Exact
        <5> QED
          BY <5>2, <5>5, <5>6
      <4> QED
        BY <4>1, <4>2
    <3>2. CASE phase' = "ready"
      <4>1. UNCHANGED <<line, Rng, Ymax>>
        BY <1>2, <3>2 DEF Next, AddPower, SkipPower, EndElement, ExtendRange, StartRange, EndLoad, Unfinished
      <4>2. Exact(entries', csv', Ymax')
        BY <1>2, <3>2 DEF LoadInv
      <4> QED
        BY <1>2, <4>1, <4>2 DEF Exact, TypeOK
    <3> QED
      BY <3>1, <3>2
  <2> QED
    BY <2>1, <2>2, <2>3, <2>4, <2>5 DEF TypeOK
<1>3. TypeOK /\ UNCHANGED vars => TypeOK'
  BY DEF TypeOK, vars, approx, loader
<1> QED
  BY <1>1, <1>2, <1>3, TablesNext, PTL DEF Spec

--------------------------------------------------------------------------------
(* What the switch makes of the entries it has *)

\* Every power of a finished row divides the last one
RowDivides(row) ==
  /\ row \in Seq(Nat \ {0})
  /\ Len(row) \in 1 .. 3
  /\ \A k \in 1 .. Len(row) : Last(row) % row[k] = 0

RowsDivide == \A n \in 1 .. Len(csv) : RowDivides(csv[n])

LEMMA RowsDivideInit == Init => RowsDivide
BY DEF Init, RowsDivide

LEMMA RowsDivideStep == TableInv /\ RowsDivide /\ [Next]_vars => RowsDivide'
<1> SUFFICES ASSUME TableInv, RowsDivide, [Next]_vars PROVE RowsDivide'
  OBVIOUS
<1>1. CASE csv' = csv
  BY <1>1 DEF RowsDivide
<1>2. CASE EndElement
  <2>1. /\ csv \in Seq(Seq(Nat \ {0})) /\ Tab \in Seq(Nat \ {0}) /\ Len(Tab) \in 1 .. 3
        /\ \A k \in 1 .. Len(Tab) : unit % Tab[k] = 0
    BY <1>2 DEF EndElement, TableInv, RowsInv, PowersInv
  <2>2. Last(Tab) = unit
    <3>1. LastPower /\ ~Unfinished /\ phase = "approximating"
      BY <1>2 DEF EndElement, TableInv
    <3>2. Len(Tab) < MAXSUM \/ Tab[Len(Tab)] = unit
      BY <3>1 DEF LastPower, MAXSUM
    <3> QED
      BY <3>1, <3>2 DEF LastPower, Unfinished, Last
  <2>3. RowDivides(Tab)
    BY <2>1, <2>2 DEF RowDivides
  <2>4. csv' = Append(csv, Tab)
    BY <1>2 DEF EndElement
  <2>5. /\ Len(csv') = Len(csv) + 1 /\ Len(csv) \in Nat /\ csv'[Len(csv) + 1] = Tab
        /\ \A n \in 1 .. Len(csv) : csv'[n] = csv[n]
    BY <2>1, <2>4
  <2>6. ASSUME NEW n \in 1 .. Len(csv') PROVE RowDivides(csv'[n])
    <3>1. n \in 1 .. Len(csv) \/ n = Len(csv) + 1
      BY <2>5
    <3> QED
      BY <2>3, <2>5, <3>1 DEF RowsDivide
  <2> QED
    BY <2>6 DEF RowsDivide
<1>3. CASE csv' # csv /\ ~EndElement
  BY <1>3 DEF Next, AddPower, SkipPower, ExtendRange, StartRange, EndLoad, vars
<1> QED
  BY <1>1, <1>2, <1>3

\* A shift in units of the last power: q shares, or none
LEMMA ShiftBounds ==
  ASSUME NEW u \in Nat \ {0}, NEW r \in Nat \ {0}, NEW x \in Nat, NEW s,
         \/ u % r = 0 /\ s = u \div r
         \/ x < r /\ s = 0
  PROVE  /\ x \div r \in Nat /\ s \in Nat
         /\ u * (x \div r) <= x * s
         /\ x * s < u * (x \div r) + u
<1> DEFINE q == x \div r
<1>1. q \in Int /\ x % r \in 0 .. r - 1 /\ x = r * q + (x % r)
  BY DivMod
<1>2. q \in Nat
  <2>1. CASE q < 0
    <3>1. r * q <= -r
      BY <1>1, <2>1, ProductBeyond
    <3> QED
      BY <1>1, <3>1
  <2> QED
    BY <1>1, <2>1
<1>3. r * q <= x /\ x < r * q + r
  BY <1>1
<1>4. CASE x < r /\ s = 0
  <2>1. q = 0
    <3>1. CASE q # 0
      <4>1. r * q >= r \/ r * q <= -r
        BY <1>1, <3>1, ProductBeyond
      <4> QED
        BY <1>3, <1>4, <4>1
    <3> QED
      BY <3>1
  <2> HIDE DEF q
  <2> QED
    BY <1>4, <2>1 DEF q
<1>5. CASE u % r = 0 /\ s = u \div r
  <2>1. s \in Int /\ u = r * s
    BY <1>5, DivMod
  <2>2. s >= 1
    <3>1. CASE s = 0
      BY <2>1, <3>1
    <3>2. CASE s < 0
      <4>1. r * s <= -r \/ r * s >= r
        BY <2>1, <3>2, ProductBeyond
      <4>2. r * s < 0
        BY <2>1, <3>2
      <4> QED
        BY <2>1, <4>2
    <3> QED
      BY <2>1, <3>1, <3>2
  <2> HIDE DEF q
  <2>3. (r * q) * s <= x * s /\ x * s < (r * q + r) * s
    BY <1>2, <1>3, <2>1, <2>2
  <2>4. (r * q) * s = u * q /\ (r * q + r) * s = u * q + u
    BY <1>2, <2>1
  <2> QED
    BY <1>2, <2>1, <2>2, <2>3, <2>4 DEF q
<1> QED
  BY <1>4, <1>5

LEMMA Cancel ==
  ASSUME NEW u \in Nat \ {0}, NEW a \in Int, NEW b \in Int
  PROVE  /\ u * a <= u * b => a <= b
         /\ u * a < u * b => a < b
<1>1. ASSUME a > b PROVE u * a > u * b
  <2>1. a - b >= 1
    BY <1>1
  <2>2. u * (a - b) >= u
    BY <2>1
  <2>3. u * (a - b) = u * a - u * b
    OBVIOUS
  <2> QED
    BY <2>2, <2>3
<1>2. a = b => u * a = u * b
  OBVIOUS
<1> QED
  BY <1>1, <1>2

\* Q shares of a unit u that S of them approximate
LEMMA QuotientBounds ==
  ASSUME NEW n \in Nat \ {0}, NEW u \in Nat \ {0}, NEW x \in Nat, NEW S \in Nat, NEW Q \in Nat,
         u * Q <= x * S, x * S < u * (Q + 3),
         n * S <= u, 8 * n * S > 7 * u
  PROVE  n * Q <= x /\ 8 * n * (Q + 3) > 7 * x
<1> DEFINE m == n * S
           y == x * S
           R == Q + 3
<1>1. m \in Nat /\ y \in Nat /\ R \in Nat
  OBVIOUS
<1>2. u * (n * Q) <= u * x
  <2>1. n * (u * Q) <= n * y
    BY <1>1
  <2>2. n * y = x * m /\ n * (u * Q) = u * (n * Q)
    OBVIOUS
  <2>3. x * m <= x * u
    BY <1>1
  <2>4. x * u = u * x
    OBVIOUS
  <2> QED
    BY <2>1, <2>2, <2>3, <2>4
<1>3. u * (7 * x) < u * (8 * n * R)
  <2>1. n * y < n * (u * R)
    <3>1. y < u * R /\ u * R \in Nat
      BY <1>1
    <3> HIDE DEF y, R
    <3> QED
      BY <1>1, <3>1
  <2>2. 8 * (n * y) < 8 * (n * (u * R))
    BY <1>1, <2>1
  <2>3. 8 * (n * (u * R)) = u * (8 * n * R)
    OBVIOUS
  <2>4. 8 * (n * y) = (8 * m) * x
    OBVIOUS
  <2>5. (7 * u) * x <= (8 * m) * x
    <3>1. 8 * m > 7 * u
      OBVIOUS
    <3> HIDE DEF m
    <3> QED
      BY <1>1, <3>1
  <2>6. (7 * u) * x = u * (7 * x)
    OBVIOUS
  <2> QED
    BY <2>2, <2>3, <2>4, <2>5, <2>6, <1>1
<1>4. n * Q \in Int /\ 7 * x \in Int /\ 8 * n * R \in Int
  BY <1>1
<1> QED
  BY <1>2, <1>3, <1>4, Cancel

\* What Pow makes of the sum x with the three shifts of an entry
Quotient(x, pow) == (x \div pow[1]) + (x \div pow[2]) + (x \div pow[3])

\* The entry that a count n finds divides by n: never more, and less than three units
\* and an eighth short of it.
QuotientsClose ==
  phase = "ready" =>
    \A n \in 1 .. Ymax, e \in entries, x \in 0 .. Never - 1 :
      n \in e.lo .. e.hi =>
        /\ n * Quotient(x, e.pow) <= x
        /\ 8 * n * (Quotient(x, e.pow) + 3) > 7 * x

LEMMA RowQuotient ==
  ASSUME NEW row, RowDivides(row), NEW n \in Nat \ {0}, NEW x \in 0 .. Never - 1,
         n * RowSum(row, Last(row)) <= Last(row),
         8 * n * RowSum(row, Last(row)) > 7 * Last(row)
  PROVE  /\ n * Quotient(x, Pad(row)) <= x
         /\ 8 * n * (Quotient(x, Pad(row)) + 3) > 7 * x
<1> DEFINE u == Last(row)
           pow == Pad(row)
           q(k) == x \div pow[k]
           s(k) == Share(row, u, k)
<1>1. /\ row \in Seq(Nat \ {0}) /\ Len(row) \in 1 .. 3
      /\ \A k \in 1 .. Len(row) : u % row[k] = 0
  BY DEF RowDivides
<1>2. u \in Nat \ {0}
  BY <1>1 DEF Last
<1>3. Never \in Nat \ {0} /\ x \in Nat /\ x < Never
  BY NeverAssumption
<1>4. \A k \in 1 .. 3 : pow[k] = IF k <= Len(row) THEN row[k] ELSE Never
  <2> DEFINE m == MAXSUM - Len(row)
             pads == [k \in 1 .. m |-> Never]
  <2>0. m \in Nat /\ m = 3 - Len(row)
    BY <1>1 DEF MAXSUM
  <2> HIDE DEF m
  <2>1. pads \in Seq(Nat \ {0}) /\ Len(pads) = m /\ \A k \in 1 .. m : pads[k] = Never
    BY <1>3, <2>0
  <2>2. pow = row \o pads
    BY DEF Pad, m
  <2> DEFINE l == Len(row)
  <2>3. l \in 1 .. 3 /\ m = 3 - l /\ row \in Seq(Nat \ {0})
    BY <1>1, <2>0
  <2> HIDE DEF pads, pow
  <2>4. /\ \A k \in 1 .. l : (row \o pads)[k] = row[k]
        /\ \A k \in l + 1 .. l + m : (row \o pads)[k] = pads[k - l]
    BY <1>1, <2>0, <2>1
  <2> HIDE DEF l
  <2>5. ASSUME NEW k \in 1 .. 3 PROVE pow[k] = IF k <= l THEN row[k] ELSE Never
    <3>1. CASE k <= l
      <4>1. k \in 1 .. l
        BY <2>3, <3>1
      <4> QED
        BY <2>2, <2>4, <3>1, <4>1
    <3>2. CASE ~(k <= l)
      <4>1. k \in l + 1 .. l + m /\ k - l \in 1 .. m
        BY <2>3, <3>2
      <4> QED
        BY <2>1, <2>2, <2>4, <3>2, <4>1
    <3> QED
      BY <3>1, <3>2
  <2> QED
    BY <2>5 DEF l
<1> HIDE DEF u, pow
<1>5. ASSUME NEW k \in 1 .. 3
      PROVE  /\ q(k) \in Nat /\ s(k) \in Nat
             /\ u * q(k) <= x * s(k)
             /\ x * s(k) < u * q(k) + u
  <2>1. CASE k <= Len(row)
    <3>1. row[k] \in Nat \ {0} /\ u % row[k] = 0 /\ s(k) = u \div row[k] /\ pow[k] = row[k]
      BY <1>1, <1>4, <2>1 DEF Share
    <3> QED
      BY <1>2, <1>3, <3>1, ShiftBounds
  <2>2. CASE ~(k <= Len(row))
    <3>1. s(k) = 0 /\ pow[k] = Never
      BY <1>4, <2>2 DEF Share
    <3> QED
      BY <1>2, <1>3, <3>1, ShiftBounds
  <2> QED
    BY <2>1, <2>2
<1>6. Quotient(x, pow) = q(1) + q(2) + q(3) /\ RowSum(row, u) = s(1) + s(2) + s(3)
  BY DEF Quotient, RowSum
<1>7. n * RowSum(row, u) <= u /\ 8 * n * RowSum(row, u) > 7 * u
  BY DEF u
<1> DEFINE Q == q(1) + q(2) + q(3)
           S == s(1) + s(2) + s(3)
<1>8. /\ q(1) \in Nat /\ q(2) \in Nat /\ q(3) \in Nat
      /\ s(1) \in Nat /\ s(2) \in Nat /\ s(3) \in Nat
      /\ u * q(1) <= x * s(1) /\ u * q(2) <= x * s(2) /\ u * q(3) <= x * s(3)
      /\ x * s(1) < u * q(1) + u /\ x * s(2) < u * q(2) + u /\ x * s(3) < u * q(3) + u
  BY <1>5
<1> HIDE DEF q, s
<1>9. u * Q = u * q(1) + u * q(2) + u * q(3) /\ x * S = x * s(1) + x * s(2) + x * s(3)
      /\ u * (Q + 3) = u * q(1) + u * q(2) + u * q(3) + 3 * u
  BY <1>2, <1>3, <1>8
<1>10. Q \in Nat /\ S \in Nat /\ u * Q <= x * S /\ x * S < u * (Q + 3)
  <2>1. Q \in Nat /\ S \in Nat
    BY <1>8
  <2>2. /\ u * q(1) \in Int /\ u * q(2) \in Int /\ u * q(3) \in Int
        /\ x * s(1) \in Int /\ x * s(2) \in Int /\ x * s(3) \in Int
    BY <1>2, <1>3, <1>8
  <2> HIDE DEF Q, S
  <2> QED
    BY <2>1, <2>2, <1>2, <1>8, <1>9
<1>11. n * S <= u /\ 8 * n * S > 7 * u
  BY <1>6, <1>7
<1> HIDE DEF Q, S
<1>12. n * Q <= x /\ 8 * n * (Q + 3) > 7 * x
  BY <1>2, <1>3, <1>10, <1>11, QuotientBounds
<1> QED
  BY <1>6, <1>12 DEF Q, pow

\* The loaded table divides, for every Ymax and every sum the registers hold: a count from
\* 1 to Ymax finds an entry, and the three shifts of any entry it finds give at most the
\* true mean, and more than 7/8 of it less 3 (Pow).
THEOREM LoadedTableDivides == Spec => []QuotientsClose
<1>1. TableInv /\ LoadInv /\ RowsDivide => QuotientsClose
  <2> SUFFICES ASSUME TableInv, LoadInv, RowsDivide, phase = "ready",
                      NEW n \in 1 .. Ymax, NEW e \in entries, n \in e.lo .. e.hi,
                      NEW x \in 0 .. Never - 1
               PROVE  /\ n * Quotient(x, e.pow) <= x
                      /\ 8 * n * (Quotient(x, e.pow) + 3) > 7 * x
    BY DEF QuotientsClose
  <2>1. e.pow = Pad(csv[n]) /\ n \in 1 .. Len(csv)
    BY DEF LoadInv, Exact
  <2>2. RowDivides(csv[n]) /\ RowApproximates(n) /\ n \in Nat \ {0}
    BY <2>1 DEF RowsDivide, TableInv, RowsInv
  <2> QED
    BY <2>1, <2>2, RowQuotient DEF RowApproximates
<1> QED
  BY <1>1, TablesNext, RowsDivideInit, RowsDivideStep, PTL DEF Spec

================================================================================
