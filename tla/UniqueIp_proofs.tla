----------------------------- MODULE UniqueIp_proofs -----------------------------
(***************************************************************************)
(* Edits keep the checksum, for every width, every packet, every number of *)
(* passes and both ways of editing: the sum of the two addresses changes   *)
(* by nothing or by AddrMod - 1 either way, a multiple of Word - 1.  And   *)
(* edits are fresh: no two passes send the same pair of addresses.         *)
(***************************************************************************)
EXTENDS UniqueIp, ModularArithmetic

LEMMA Widths ==
  /\ AddrMod \in Nat \ {0}
  /\ Word - 1 \in Nat \ {0}
  /\ AddrMod - 1 = (Word - 1) * (Word + 1)
<1>1. Word \in Nat /\ Word > 1
  BY WidthAssumption
<1>2. Word * Word >= Word
  BY <1>1
<1> QED
  BY <1>1, <1>2 DEF AddrMod

\* What (a - n) % m and (b + n) % m are, by whether they wrap
LEMMA Wraps ==
  ASSUME NEW m \in Nat \ {0}, NEW a \in 0 .. m - 1, NEW n \in Int
  PROVE  /\ (a - n) % m = IF a >= n % m THEN a - (n % m) ELSE a - (n % m) + m
         /\ (a + n) % m = IF a + (n % m) < m THEN a + (n % m) ELSE a + (n % m) - m
<1> DEFINE q == n \div m
           r == n % m
<1>1. q \in Int /\ r \in 0 .. m - 1 /\ n = m * q + r
  BY DivMod
<1> HIDE DEF q, r
<1>2. a >= r => (a - n) % m = a - r
  <2>1. a - n = m * (-q) + (a - r) /\ -q \in Int /\ a - n \in Int
    BY <1>1
  <2>2. a >= r => a - r \in 0 .. m - 1
    BY <1>1
  <2> QED
    BY <2>1, <2>2, ModUnique
<1>3. a < r => (a - n) % m = a - r + m
  <2>1. a - n = m * (-q - 1) + (a - r + m) /\ -q - 1 \in Int /\ a - n \in Int
    BY <1>1
  <2>2. a < r => a - r + m \in 0 .. m - 1
    BY <1>1
  <2> QED
    BY <2>1, <2>2, ModUnique
<1>4. a + r < m => (a + n) % m = a + r
  <2>1. a + n = m * q + (a + r) /\ a + n \in Int
    BY <1>1
  <2>2. a + r < m => a + r \in 0 .. m - 1
    BY <1>1
  <2> QED
    BY <1>1, <2>1, <2>2, ModUnique
<1>5. a + r >= m => (a + n) % m = a + r - m
  <2>1. a + n = m * (q + 1) + (a + r - m) /\ q + 1 \in Int /\ a + n \in Int
    BY <1>1
  <2>2. a + r >= m => a + r - m \in 0 .. m - 1
    BY <1>1
  <2> QED
    BY <2>1, <2>2, ModUnique
<1>6. /\ (a - n) % m = IF a >= r THEN a - r ELSE a - r + m
      /\ (a + n) % m = IF a + r < m THEN a + r ELSE a + r - m
  BY <1>1, <1>2, <1>3, <1>4, <1>5
<1> QED
  BY <1>6 DEF r

\* The sum changes only by what the wrap of one address leaves after its compensation
LEMMA MoveSum ==
  ASSUME NEW a \in 0 .. AddrMod - 1, NEW b \in 0 .. AddrMod - 1, NEW n \in Int
  PROVE  /\ Move(a, b, n).giver \in 0 .. AddrMod - 1
         /\ Move(a, b, n).taker \in 0 .. AddrMod - 1
         /\ \E k \in -1 .. 1 :
              Move(a, b, n).giver + Move(a, b, n).taker = a + b + k * (AddrMod - 1)
<1> DEFINE A == AddrMod
           r == n % A
           x == (a - n) % A
           y == (b + n) % A
           g == IF x > a /\ y > b THEN x - 1 ELSE x
           t == IF x < a /\ y < b THEN y + 1 ELSE y
<1>1. A \in Nat \ {0} /\ r \in 0 .. A - 1
  BY Widths, DivMod
<1>2. x = IF a >= r THEN a - r ELSE a - r + A
  BY <1>1, Wraps
<1>3. y = IF b + r < A THEN b + r ELSE b + r - A
  BY <1>1, Wraps
<1>4. Move(a, b, n).giver = g /\ Move(a, b, n).taker = t
  BY DEF Move
<1> HIDE DEF A, r, x, y
<1>5. a \in 0 .. A - 1 /\ b \in 0 .. A - 1
  BY DEF A
<1>6. g \in 0 .. A - 1 /\ t \in 0 .. A - 1
  BY <1>1, <1>2, <1>3, <1>5
<1>7. g + t = a + b \/ g + t = a + b + (A - 1) \/ g + t = a + b - (A - 1)
  BY <1>1, <1>2, <1>3, <1>5
<1>8. \E k \in -1 .. 1 : g + t = a + b + k * (A - 1)
  <2>1. CASE g + t = a + b
    BY <2>1, <1>1, <1>5, 0 \in -1 .. 1
  <2>2. CASE g + t = a + b + (A - 1)
    BY <2>2, <1>1, <1>5, 1 \in -1 .. 1
  <2>3. CASE g + t = a + b - (A - 1)
    BY <2>3, <1>1, <1>5, -1 \in -1 .. 1
  <2> QED
    BY <1>7, <2>1, <2>2, <2>3
<1> QED
  BY <1>4, <1>6, <1>8 DEF A

\* A change of the sum by a multiple of AddrMod - 1 is none to the checksum
LEMMA SumKept ==
  ASSUME NEW s \in Int, NEW k \in Int
  PROVE  (s + k * (AddrMod - 1)) % (Word - 1) = s % (Word - 1)
<1> DEFINE m == Word - 1
           j == k * (Word + 1)
<1>1. m \in Nat \ {0} /\ Word \in Nat
  BY Widths, WidthAssumption
<1>2. j \in Int
  BY <1>1
<1>3. k * (AddrMod - 1) = m * j
  <2>1. AddrMod - 1 = m * (Word + 1)
    BY Widths
  <2> QED
    BY <1>1, <2>1
<1>4. (s + m * j) % m = s % m
  BY <1>1, <1>2, ModShift
<1> QED
  BY <1>3, <1>4

LEMMA EditedSum ==
  ASSUME NEW p \in Packet, NEW i \in Nat, NEW inPlace \in BOOLEAN
  PROVE  Edited(p, i, inPlace) \in Packet /\ SameSum(Edited(p, i, inPlace), p)
<1> DEFINE n == IF inPlace THEN 1 ELSE i
           e == Edited(p, i, inPlace)
           u == Move(p.src, p.dst, n)
           v == Move(p.dst, p.src, n)
<1>1. p.src \in 0 .. AddrMod - 1 /\ p.dst \in 0 .. AddrMod - 1 /\ n \in Int
  BY DEF Packet
<1>2. p.src + p.dst \in Int
  BY <1>1, Widths
<1>3. \/ e = [src |-> u.giver, dst |-> u.taker]
      \/ e = [src |-> v.taker, dst |-> v.giver]
  BY DEF Edited
<1>4. CASE e = [src |-> u.giver, dst |-> u.taker]
  <2>1. u.giver \in 0 .. AddrMod - 1 /\ u.taker \in 0 .. AddrMod - 1
    BY <1>1, MoveSum
  <2>2. PICK k \in -1 .. 1 : u.giver + u.taker = p.src + p.dst + k * (AddrMod - 1)
    BY <1>1, MoveSum
  <2>3. (p.src + p.dst + k * (AddrMod - 1)) % (Word - 1) = (p.src + p.dst) % (Word - 1)
    BY <1>2, SumKept
  <2>4. e.src + e.dst = p.src + p.dst + k * (AddrMod - 1)
    BY <1>4, <2>2
  <2>5. e \in Packet
    BY <1>4, <2>1 DEF Packet
  <2> QED
    BY <2>3, <2>4, <2>5 DEF SameSum
<1>5. CASE e = [src |-> v.taker, dst |-> v.giver]
  <2>1. v.giver \in 0 .. AddrMod - 1 /\ v.taker \in 0 .. AddrMod - 1
    BY <1>1, MoveSum
  <2>2. PICK k \in -1 .. 1 : v.giver + v.taker = p.dst + p.src + k * (AddrMod - 1)
    BY <1>1, MoveSum
  <2>3. (p.src + p.dst + k * (AddrMod - 1)) % (Word - 1) = (p.src + p.dst) % (Word - 1)
    BY <1>2, SumKept
  <2>4. e.src + e.dst = p.src + p.dst + k * (AddrMod - 1)
    BY <1>1, <1>5, <2>1, <2>2, Widths
  <2>5. e \in Packet
    BY <1>5, <2>1 DEF Packet
  <2> QED
    BY <2>3, <2>4, <2>5 DEF SameSum
<1> QED
  BY <1>3, <1>4, <1>5

\* The cache has the checksum of the capture as well: later edits start from it.  Editing
\* takes one from unique, which is 0 only as long as nothing is edited
EditInv == TypeOK /\ SameSum(mem, orig) /\ ChecksumKept

LEMMA NextUniqueType ==
  ASSUME TypeOK
  PROVE  NextUnique(iteration + 1) \in Nat
<1> DEFINE x == (iteration + 1) * 1000
           m == loops * 1000
<1>1. x \in Nat /\ m \in Nat \ {0}
  BY WidthAssumption DEF TypeOK
<1> HIDE DEF x, m
<1>2. x \div m \in Nat
  BY <1>1
<1> QED
  BY <1>2 DEF NextUnique, x, m

LEMMA InitInv == Init => EditInv
<1> SUFFICES ASSUME Init PROVE EditInv
  OBVIOUS
<1>1. orig \in Packet
  BY WidthAssumption DEF Init, Packet
<1>2. TypeOK
  BY <1>1 DEF Init, TypeOK
<1>3. SameSum(mem, orig) /\ ChecksumKept
  BY DEF Init, SameSum, ChecksumKept
<1> QED
  BY <1>2, <1>3 DEF EditInv

LEMMA PassInv ==
  ASSUME EditInv, Pass
  PROVE  EditInv'
<1> DEFINE p == IF Editing THEN Edited(mem, unique - 1, cached) ELSE mem
<1>1. TypeOK /\ SameSum(mem, orig) /\ ChecksumKept
  BY DEF EditInv
<1>2. p \in Packet /\ SameSum(p, mem)
  <2>1. CASE Editing
    <3>1. unique - 1 \in Nat
      BY <1>1, <2>1 DEF TypeOK, Editing
    <3> QED
      BY <1>1, <2>1, <3>1, EditedSum DEF TypeOK
  <2>2. CASE ~Editing
    BY <1>1, <2>2 DEF TypeOK, SameSum
  <2> QED
    BY <2>1, <2>2
<1>3. SameSum(p, orig)
  BY <1>1, <1>2 DEF SameSum
<1>4. /\ wire' = Append(wire, p)
      /\ mem' = IF cached THEN p ELSE mem
      /\ last' = unique
      /\ iteration' = iteration + 1
      /\ unique' = NextUnique(iteration + 1)
      /\ cached' = cached /\ loops' = loops /\ orig' = orig
  BY DEF Pass
<1> HIDE DEF p
<1>5. TypeOK'
  <2>1. unique' \in Nat
    BY <1>1, <1>4, NextUniqueType
  <2>2. wire' \in Seq(Packet)
    BY <1>1, <1>2, <1>4 DEF TypeOK
  <2> QED
    BY <1>1, <1>2, <1>4, <2>1, <2>2 DEF TypeOK
<1>6. SameSum(mem, orig)'
  BY <1>1, <1>3, <1>4 DEF SameSum
<1>7. ChecksumKept'
  <2> SUFFICES ASSUME NEW k \in DOMAIN wire' PROVE SameSum(wire'[k], orig')
    BY DEF ChecksumKept, SameSum
  <2>1. wire \in Seq(Packet)
    BY <1>1 DEF TypeOK
  <2>2. CASE k \in DOMAIN wire
    <3>1. wire'[k] = wire[k]
      BY <1>4, <2>1, <2>2
    <3> QED
      BY <1>1, <1>4, <2>2, <3>1 DEF ChecksumKept
  <2>3. CASE k \notin DOMAIN wire
    <3>1. wire'[k] = p
      BY <1>2, <1>4, <2>1, <2>3
    <3> QED
      BY <1>3, <1>4, <3>1
  <2> QED
    BY <2>2, <2>3
<1> QED
  BY <1>5, <1>6, <1>7 DEF EditInv

\* Types, for every width, packet and number of passes: edits stay within an address.
THEOREM UniqueIpTypes == Spec => []TypeOK
<1>1. EditInv /\ UNCHANGED vars => EditInv'
  BY DEF EditInv, TypeOK, SameSum, ChecksumKept, vars
<1>2. EditInv /\ [Next]_vars => EditInv'
  BY <1>1, PassInv DEF Next
<1>3. EditInv => TypeOK
  BY DEF EditInv
<1> QED
  BY InitInv, <1>2, <1>3, PTL DEF Spec

\* What tcpreplay sends with --unique-ip has the checksum of the capture's packet, for
\* every width and packet, after any number of edits, in place or not.
THEOREM ChecksumIsKept == Spec => []ChecksumKept
<1>1. EditInv /\ UNCHANGED vars => EditInv'
  BY DEF EditInv, TypeOK, SameSum, ChecksumKept, vars
<1>2. EditInv /\ [Next]_vars => EditInv'
  BY <1>1, PassInv DEF Next
<1>3. EditInv => ChecksumKept
  BY DEF EditInv
<1> QED
  BY InitInv, <1>2, <1>3, PTL DEF Spec

--------------------------------------------------------------------------------
(* Fresh addresses in every pass *)

\* Which address of a packet gives, and which takes, when o is the packet of the capture
Giver(o, p) == IF o.dst >= o.src THEN p.src ELSE p.dst
Taker(o, p) == IF o.dst >= o.src THEN p.dst ELSE p.src

\* An address that has taken: it skips 0 when it wraps
Turned(n) == IF n < AddrMod THEN n ELSE n - AddrMod + 1

\* An address has moved one way and the other the other way, whatever wraps
Counters ==
  /\ iteration = Len(wire)
  /\ loops = 1 => /\ unique = IF iteration = 0 THEN 0 ELSE iteration + 1
                  /\ last = IF iteration < 2 THEN 0 ELSE iteration

FromFile ==
  loops = 1 /\ ~cached =>
    /\ mem = orig
    /\ \A k \in DOMAIN wire : wire[k] = Edited(orig, k - 1, FALSE)

InCache ==
  loops = 1 /\ cached /\ Steady(Len(wire)) =>
    LET e == IF iteration = 0 THEN 0 ELSE iteration - 1 IN
    /\ Giver(orig, mem) = Giver(orig, orig) - e
    /\ Taker(orig, mem) = Turned(Taker(orig, orig) + e)
    /\ \A k \in DOMAIN wire : Giver(orig, wire[k]) = Giver(orig, orig) - (k - 1)

FreshInv == Counters /\ FromFile /\ InCache

LEMMA ModBelow ==
  ASSUME NEW m \in Nat \ {0}, NEW x \in Int, -m <= x, x < m
  PROVE  x % m = IF x >= 0 THEN x ELSE x + m
<1>1. CASE x >= 0
  BY <1>1, ModSmall
<1>2. CASE x < 0
  <2>1. x = m * (-1) + (x + m) /\ -1 \in Int /\ x + m \in 0 .. m - 1
    BY <1>2
  <2>2. x % m = x + m
    BY <2>1, ModUnique
  <2> QED
    BY <1>2, <2>2
<1> QED
  BY <1>1, <1>2

\* The address that gives is above 2 * i, so it does not wrap; the one that takes may
LEMMA MoveInPlace ==
  ASSUME NEW g \in 1 .. AddrMod - 1, NEW b \in 0 .. AddrMod - 1, NEW i \in Nat, 1 <= i, i < AddrMod,
         NEW t, t = Turned(b + (i - 1)), b >= 1
  PROVE  /\ t \in 1 .. AddrMod - 1
         /\ t = b + (i - 1) \/ t < i
         /\ Move(g, t, 1) = [giver |-> g - 1, taker |-> Turned(b + i)]
<1> DEFINE M == AddrMod
           x == (g - 1) % M
           y == (t + 1) % M
<1>1. M \in Nat \ {0}
  BY Widths
<1> HIDE DEF M
<1>2. g \in 1 .. M - 1 /\ b \in 1 .. M - 1 /\ i < M
  BY <1>1 DEF M
<1>3. t = IF b + (i - 1) < M THEN b + (i - 1) ELSE b + (i - 1) - M + 1
  BY <1>1 DEF Turned, M
<1>4. t \in 1 .. M - 1 /\ (t = b + (i - 1) \/ t < i)
  BY <1>1, <1>2, <1>3
<1>5. x = g - 1
  <2>1. g - 1 \in 0 .. M - 1
    BY <1>1, <1>2
  <2> QED
    BY <1>1, <2>1, ModSmall
<1>6. y = IF t + 1 < M THEN t + 1 ELSE 0
  <2>1. CASE t + 1 < M
    <3>1. t + 1 \in 0 .. M - 1
      BY <1>1, <1>4, <2>1
    <3> QED
      BY <1>1, <2>1, <3>1, ModSmall
  <2>2. CASE t + 1 = M
    <3>1. t + 1 \in Int /\ 1 \in Int /\ t + 1 = M * 1
      BY <1>1, <1>4, <2>2
    <3>2. (t + 1) % M = 0
      BY <1>1, <3>1, DivUnique
    <3> QED
      BY <1>1, <1>4, <2>2, <3>2
  <2> QED
    BY <1>1, <1>4, <2>1, <2>2
<1> HIDE DEF x, y
<1>7. ~(x > g) /\ x < g
  BY <1>1, <1>2, <1>5
<1>8. Turned(b + i) = IF b + i < M THEN b + i ELSE b + i - M + 1
  BY <1>1 DEF Turned, M
<1>9. (IF x < g /\ y < t THEN y + 1 ELSE y) = Turned(b + i)
  <2>1. CASE t + 1 < M
    BY <1>1, <1>2, <1>3, <1>4, <1>6, <1>7, <1>8, <2>1
  <2>2. CASE t + 1 = M
    BY <1>1, <1>2, <1>3, <1>4, <1>6, <1>7, <1>8, <2>2
  <2> QED
    BY <1>1, <1>4, <2>1, <2>2
<1>10. Move(g, t, 1) = [giver |-> IF x > g /\ y > t THEN x - 1 ELSE x,
                        taker |-> IF x < g /\ y < t THEN y + 1 ELSE y]
  BY DEF Move, x, y, M
<1>11. Move(g, t, 1) = [giver |-> g - 1, taker |-> Turned(b + i)]
  BY <1>5, <1>7, <1>9, <1>10
<1> QED
  BY <1>4, <1>11 DEF M

\* The test of which address gives, after i - 1 edits and less another i, is the test of
\* the packet of the capture
LEMMA SenseKept ==
  ASSUME NEW a \in 0 .. AddrMod - 1, NEW b \in 0 .. AddrMod - 1, NEW i \in Nat, 1 <= i,
         2 * (i + 1) < a, 2 * (i + 1) < b,
         NEW g, NEW t, g = a - (i - 1), t \in 1 .. AddrMod - 1, t = b + (i - 1) \/ t < i
  PROVE  /\ b >= a => (t - i) % CountMod > (((g - 1) % AddrMod) - i) % CountMod
         /\ b > a => ~((g - i) % CountMod > (((t - 1) % AddrMod) - i) % CountMod)
<1> DEFINE M == AddrMod
           C == CountMod
<1>1. M \in Nat \ {0} /\ C \in Nat \ {0} /\ M <= C
  BY Widths, WidthAssumption
<1> HIDE DEF M, C
<1>2. a \in 0 .. M - 1 /\ b \in 0 .. M - 1 /\ t \in 1 .. M - 1 /\ g \in Int
  BY <1>1 DEF M
<1>3. g - 1 \in 0 .. M - 1 /\ t - 1 \in 0 .. M - 1
  BY <1>1, <1>2
<1>4. (g - 1) % M = g - 1 /\ (t - 1) % M = t - 1
  BY <1>1, <1>3, ModSmall
<1>5. g - 1 - i \in 0 .. C - 1 /\ g - i \in 0 .. C - 1
  BY <1>1, <1>2
<1>6. (g - 1 - i) % C = g - 1 - i /\ (g - i) % C = g - i
  BY <1>1, <1>5, ModSmall
<1>7. (t - i) % C = IF t - i >= 0 THEN t - i ELSE t - i + C
  <2>1. t - i \in Int /\ -C <= t - i /\ t - i < C
    BY <1>1, <1>2
  <2> QED
    BY <1>1, <2>1, ModBelow
<1>8. (t - 1 - i) % C = IF t - 1 - i >= 0 THEN t - 1 - i ELSE t - 1 - i + C
  <2>1. t - 1 - i \in Int /\ -C <= t - 1 - i /\ t - 1 - i < C
    BY <1>1, <1>2
  <2> QED
    BY <1>1, <2>1, ModBelow
<1>9. b >= a => (t - i) % C > (((g - 1) % M) - i) % C
  BY <1>1, <1>2, <1>4, <1>6, <1>7
<1>10. b > a => ~((g - i) % C > (((t - 1) % M) - i) % C)
  BY <1>1, <1>2, <1>4, <1>6, <1>8
<1> QED
  BY <1>9, <1>10 DEF M, C

\* One more edit in place, as long as the addresses are above twice the passes
LEMMA EditInPlace ==
  ASSUME NEW o \in Packet, NEW p \in Packet, NEW i \in Nat, 1 <= i,
         2 * (i + 1) < o.src, 2 * (i + 1) < o.dst,
         Giver(o, p) = Giver(o, o) - (i - 1),
         Taker(o, p) = Turned(Taker(o, o) + (i - 1))
  PROVE  /\ Giver(o, Edited(p, i, TRUE)) = Giver(o, o) - i
         /\ Taker(o, Edited(p, i, TRUE)) = Turned(Taker(o, o) + i)
<1> DEFINE a == Giver(o, o)
           b == Taker(o, o)
           g == Giver(o, p)
           t == Taker(o, p)
           e == Edited(p, i, TRUE)
<1> HIDE DEF e
<1>1. /\ AddrMod \in Nat \ {0} /\ a \in 0 .. AddrMod - 1 /\ b \in 0 .. AddrMod - 1
      /\ 2 * (i + 1) < a /\ 2 * (i + 1) < b /\ b >= a
      /\ g = a - (i - 1) /\ t = Turned(b + (i - 1))
      /\ o.src \in Int /\ o.dst \in Int
  BY Widths DEF Packet, Giver, Taker
<1>2. g \in 1 .. AddrMod - 1 /\ i < AddrMod /\ b >= 1 /\ g - (i - 1) >= 1 /\ g = a - i + 1
  BY <1>1
<1>3. /\ t \in 1 .. AddrMod - 1 /\ (t = b + (i - 1) \/ t < i)
      /\ Move(g, t, 1) = [giver |-> g - 1, taker |-> Turned(b + i)]
  BY <1>1, <1>2, MoveInPlace
<1>4. g - 1 = a - i
  BY <1>1, <1>2
<1>5. CASE o.dst >= o.src
  <2>1. p.src = g /\ p.dst = t
    BY <1>5 DEF Giver, Taker
  <2>2. SourceGives(p, i, TRUE)
    BY <1>1, <1>3, <2>1, SenseKept DEF SourceGives
  <2>3. e = [src |-> a - i, dst |-> Turned(b + i)]
    BY <1>3, <1>4, <2>1, <2>2 DEF Edited, e
  <2>4. e.src = a - i /\ e.dst = Turned(b + i)
    BY <2>3
  <2>5. Giver(o, e) = e.src /\ Taker(o, e) = e.dst
    BY <1>5 DEF Giver, Taker
  <2> QED
    BY <2>4, <2>5 DEF e
<1>6. CASE ~(o.dst >= o.src)
  <2>1. p.dst = g /\ p.src = t
    BY <1>6 DEF Giver, Taker
  <2>2. b > a
    BY <1>6 DEF Giver, Taker, Packet
  <2>3. ~SourceGives(p, i, TRUE)
    BY <1>1, <1>3, <2>1, <2>2, SenseKept DEF SourceGives
  <2>4. e = [src |-> Turned(b + i), dst |-> a - i]
    BY <1>3, <1>4, <2>1, <2>3 DEF Edited, e
  <2>5. e.dst = a - i /\ e.src = Turned(b + i)
    BY <2>4
  <2>6. Giver(o, e) = e.dst /\ Taker(o, e) = e.src
    BY <1>6 DEF Giver, Taker
  <2> QED
    BY <2>5, <2>6 DEF e
<1> QED
  BY <1>5, <1>6

\* What a move of less than a whole turn makes of two addresses, wrap by wrap
LEMMA MoveByCase ==
  ASSUME NEW a \in 0 .. AddrMod - 1, NEW b \in 0 .. AddrMod - 1, NEW n \in 0 .. AddrMod - 1
  PROVE  /\ Move(a, b, n).giver = IF n <= a THEN a - n
                                  ELSE IF b + n < AddrMod THEN a - n + AddrMod - 1
                                  ELSE a - n + AddrMod
         /\ Move(a, b, n).taker = IF b + n < AddrMod THEN b + n
                                  ELSE IF n <= a THEN b + n - AddrMod + 1
                                  ELSE b + n - AddrMod
<1> DEFINE M == AddrMod
           x == (a - n) % M
           y == (b + n) % M
<1>1. M \in Nat \ {0} /\ n % M = n /\ n \in Int
  BY Widths, ModSmall
<1>2. x = IF a >= n THEN a - n ELSE a - n + M
  <2>1. x = IF a >= n % M THEN a - (n % M) ELSE a - (n % M) + M
    BY <1>1, Wraps
  <2> QED
    BY <1>1, <2>1
<1>3. y = IF b + n < M THEN b + n ELSE b + n - M
  <2>1. y = IF b + (n % M) < M THEN b + (n % M) ELSE b + (n % M) - M
    BY <1>1, Wraps
  <2> QED
    BY <1>1, <2>1
<1>4. /\ Move(a, b, n).giver = IF x > a /\ y > b THEN x - 1 ELSE x
      /\ Move(a, b, n).taker = IF x < a /\ y < b THEN y + 1 ELSE y
  BY DEF Move
<1> HIDE DEF M, x, y
<1>5. a \in 0 .. M - 1 /\ b \in 0 .. M - 1 /\ n \in 0 .. M - 1
  BY DEF M
<1>6. (IF x > a /\ y > b THEN x - 1 ELSE x) =
        IF n <= a THEN a - n ELSE IF b + n < M THEN a - n + M - 1 ELSE a - n + M
  BY <1>1, <1>2, <1>3, <1>5
<1>7. (IF x < a /\ y < b THEN y + 1 ELSE y) =
        IF b + n < M THEN b + n ELSE IF n <= a THEN b + n - M + 1 ELSE b + n - M
  BY <1>1, <1>2, <1>3, <1>5
<1> QED
  BY <1>4, <1>6, <1>7 DEF M

\* Different moves of the same addresses make different addresses, wraps and their
\* compensation included
LEMMA MovesApart ==
  ASSUME NEW a \in 0 .. AddrMod - 1, NEW b \in 0 .. AddrMod - 1, a <= b,
         NEW n \in 0 .. AddrMod - 1, NEW k \in 0 .. AddrMod - 1,
         Move(a, b, n).giver = Move(a, b, k).giver,
         Move(a, b, n).taker = Move(a, b, k).taker
  PROVE  n = k
<1> DEFINE M == AddrMod
<1>1. M \in Nat \ {0} /\ M >= 2
  <2>1. Word >= 2 /\ Word \in Nat
    BY WidthAssumption
  <2>2. Word * Word >= Word
    BY <2>1
  <2> QED
    BY <2>1, <2>2, Widths DEF AddrMod
<1>2. (IF n <= a THEN a - n ELSE IF b + n < M THEN a - n + M - 1 ELSE a - n + M) =
        IF k <= a THEN a - k ELSE IF b + k < M THEN a - k + M - 1 ELSE a - k + M
  BY MoveByCase
<1>3. (IF b + n < M THEN b + n ELSE IF n <= a THEN b + n - M + 1 ELSE b + n - M) =
        IF b + k < M THEN b + k ELSE IF k <= a THEN b + k - M + 1 ELSE b + k - M
  BY MoveByCase
<1> HIDE DEF M
<1>4. a \in 0 .. M - 1 /\ b \in 0 .. M - 1 /\ n \in 0 .. M - 1 /\ k \in 0 .. M - 1
  BY DEF M
<1>5. CASE n <= a /\ k <= a
  BY <1>1, <1>2, <1>3, <1>4, <1>5
<1>6. CASE n > a /\ k > a
  BY <1>1, <1>2, <1>3, <1>4, <1>6
<1>7. CASE n <= a /\ k > a
  BY <1>1, <1>2, <1>3, <1>4, <1>7
<1>8. CASE n > a /\ k <= a
  BY <1>1, <1>2, <1>3, <1>4, <1>8
<1> QED
  BY <1>1, <1>4, <1>5, <1>6, <1>7, <1>8

LEMMA SameFields ==
  ASSUME NEW a, NEW b, NEW c, NEW d, [src |-> a, dst |-> b] = [src |-> c, dst |-> d]
  PROVE  a = c /\ b = d
<1>1. [src |-> a, dst |-> b].src = [src |-> c, dst |-> d].src
  BY Zenon
<1>2. [src |-> a, dst |-> b].dst = [src |-> c, dst |-> d].dst
  BY Zenon
<1> QED
  BY <1>1, <1>2

LEMMA EditsApart ==
  ASSUME NEW o \in Packet, NEW n \in 0 .. AddrMod - 1, NEW k \in 0 .. AddrMod - 1,
         Edited(o, n, FALSE) = Edited(o, k, FALSE)
  PROVE  n = k
<1>1. o.src \in 0 .. AddrMod - 1 /\ o.dst \in 0 .. AddrMod - 1 /\ o.src \in Int /\ o.dst \in Int
  BY Widths DEF Packet
<1>2. CASE o.dst > o.src
  <2>1. /\ Edited(o, n, FALSE) = [src |-> Move(o.src, o.dst, n).giver, dst |-> Move(o.src, o.dst, n).taker]
        /\ Edited(o, k, FALSE) = [src |-> Move(o.src, o.dst, k).giver, dst |-> Move(o.src, o.dst, k).taker]
    BY <1>2 DEF Edited, SourceGives
  <2>2. /\ Move(o.src, o.dst, n).giver = Move(o.src, o.dst, k).giver
        /\ Move(o.src, o.dst, n).taker = Move(o.src, o.dst, k).taker
    <3>1. [src |-> Move(o.src, o.dst, n).giver, dst |-> Move(o.src, o.dst, n).taker] =
          [src |-> Move(o.src, o.dst, k).giver, dst |-> Move(o.src, o.dst, k).taker]
      BY <2>1
    <3> QED
      BY ONLY <3>1, SameFields, Zenon
  <2> QED
    BY <1>1, <1>2, <2>2, MovesApart
<1>3. CASE ~(o.dst > o.src)
  <2>1. /\ Edited(o, n, FALSE) = [src |-> Move(o.dst, o.src, n).taker, dst |-> Move(o.dst, o.src, n).giver]
        /\ Edited(o, k, FALSE) = [src |-> Move(o.dst, o.src, k).taker, dst |-> Move(o.dst, o.src, k).giver]
    BY <1>3 DEF Edited, SourceGives
  <2>2. /\ Move(o.dst, o.src, n).giver = Move(o.dst, o.src, k).giver
        /\ Move(o.dst, o.src, n).taker = Move(o.dst, o.src, k).taker
    <3>1. [src |-> Move(o.dst, o.src, n).taker, dst |-> Move(o.dst, o.src, n).giver] =
          [src |-> Move(o.dst, o.src, k).taker, dst |-> Move(o.dst, o.src, k).giver]
      BY <2>1
    <3> QED
      BY ONLY <3>1, SameFields, Zenon
  <2>3. o.dst <= o.src
    BY <1>1, <1>3
  <2> QED
    BY <1>1, <2>2, <2>3, MovesApart
<1> QED
  BY <1>2, <1>3

\* The first pass is the edit by nothing
LEMMA NoEdit ==
  ASSUME NEW o \in Packet
  PROVE  Edited(o, 0, FALSE) = o
<1>1. o.src \in 0 .. AddrMod - 1 /\ o.dst \in 0 .. AddrMod - 1 /\ AddrMod \in Nat \ {0}
  BY Widths DEF Packet
<1>2. o = [src |-> o.src, dst |-> o.dst]
  BY DEF Packet
<1>3. ASSUME NEW a \in 0 .. AddrMod - 1, NEW b \in 0 .. AddrMod - 1
      PROVE  Move(a, b, 0).giver = a /\ Move(a, b, 0).taker = b
  <2>1. 0 \in 0 .. AddrMod - 1
    BY <1>1
  <2>2. /\ Move(a, b, 0).giver = IF 0 <= a THEN a - 0
                                  ELSE IF b + 0 < AddrMod THEN a - 0 + AddrMod - 1
                                  ELSE a - 0 + AddrMod
        /\ Move(a, b, 0).taker = IF b + 0 < AddrMod THEN b + 0
                                  ELSE IF 0 <= a THEN b + 0 - AddrMod + 1
                                  ELSE b + 0 - AddrMod
    BY <2>1, MoveByCase
  <2> QED
    BY <1>1, <2>2
<1>4. \/ Edited(o, 0, FALSE) = [src |-> Move(o.src, o.dst, 0).giver, dst |-> Move(o.src, o.dst, 0).taker]
      \/ Edited(o, 0, FALSE) = [src |-> Move(o.dst, o.src, 0).taker, dst |-> Move(o.dst, o.src, 0).giver]
  BY DEF Edited
<1> QED
  BY <1>1, <1>2, <1>3, <1>4

LEMMA FreshInit == Init => FreshInv
<1> SUFFICES ASSUME Init PROVE FreshInv
  OBVIOUS
<1>1. wire = <<>> /\ iteration = 0 /\ unique = 0 /\ last = 0 /\ mem = orig /\ orig \in Packet
  BY WidthAssumption DEF Init, Packet
<1>2. Counters /\ FromFile
  BY <1>1 DEF Counters, FromFile
<1>3. Giver(orig, mem) = Giver(orig, orig) - 0 /\ Taker(orig, mem) = Turned(Taker(orig, orig) + 0)
  BY <1>1, Widths DEF Giver, Taker, Turned, Packet
<1> QED
  BY <1>1, <1>2, <1>3 DEF FreshInv, InCache

\* With --unique-ip-loops=1 the edit of a pass is its number
LEMMA EachPassIsNew ==
  ASSUME TypeOK, loops = 1
  PROVE  NextUnique(iteration + 1) = iteration + 2
<1> DEFINE n == iteration + 1
<1>1. n \in Nat
  BY DEF TypeOK
<1> HIDE DEF n
<1>2. (n * 1000) \div 1000 = n
  <2>1. n * 1000 \in Int /\ 1000 \in Nat \ {0} /\ n \in Int /\ n * 1000 = 1000 * n
    BY <1>1
  <2> QED
    BY <2>1, DivUnique
<1>3. NextUnique(n) = n + 1
  BY <1>2 DEF NextUnique
<1>4. n + 1 = iteration + 2
  BY DEF n, TypeOK
<1> QED
  BY <1>3, <1>4 DEF n

LEMMA PassIsFresh ==
  ASSUME TypeOK, FreshInv, Pass
  PROVE  FreshInv'
<1> DEFINE p == IF Editing THEN Edited(mem, unique - 1, cached) ELSE mem
           N == Len(wire)
<1>1. /\ wire' = Append(wire, p)
      /\ mem' = IF cached THEN p ELSE mem
      /\ last' = unique
      /\ iteration' = iteration + 1
      /\ unique' = NextUnique(iteration + 1)
      /\ cached' = cached /\ loops' = loops /\ orig' = orig
  BY DEF Pass
<1>2. /\ wire \in Seq(Packet) /\ iteration = N /\ N \in Nat
      /\ orig \in Packet /\ mem \in Packet /\ cached \in BOOLEAN
  BY DEF FreshInv, Counters, TypeOK
<1>3. loops = 1 => IF N = 0 THEN ~Editing ELSE Editing /\ unique = N + 1
  BY <1>2 DEF FreshInv, Counters, Editing
<1>4. loops = 1 => p = IF N = 0 THEN mem ELSE Edited(mem, N, cached)
  BY <1>2, <1>3
<1> HIDE DEF p, N
<1>5. /\ Len(wire') = N + 1 /\ wire'[N + 1] = p /\ DOMAIN wire' = 1 .. N + 1
      /\ \A k \in DOMAIN wire : wire'[k] = wire[k]
      /\ DOMAIN wire = 1 .. N
  BY <1>1, <1>2 DEF N
<1>6. Counters'
  <2>1. loops = 1 => unique' = iteration + 2
    BY <1>1, EachPassIsNew
  <2>2. loops = 1 => last' = IF N = 0 THEN 0 ELSE N + 1
    BY <1>1, <1>2 DEF FreshInv, Counters
  <2> QED
    BY <1>1, <1>2, <1>5, <2>1, <2>2 DEF Counters
<1>7. FromFile'
  <2> SUFFICES ASSUME loops = 1, ~cached
               PROVE  mem' = orig /\ \A k \in DOMAIN wire' : wire'[k] = Edited(orig, k - 1, FALSE)
    BY <1>1 DEF FromFile
  <2>1. mem = orig /\ \A k \in DOMAIN wire : wire[k] = Edited(orig, k - 1, FALSE)
    BY DEF FreshInv, FromFile
  <2>2. p = Edited(orig, N, FALSE)
    BY <1>2, <1>4, <2>1, NoEdit
  <2>3. \A k \in 1 .. N + 1 : k \in 1 .. N \/ k = N + 1
    BY <1>2
  <2>4. (N + 1) - 1 = N
    BY <1>2
  <2> QED
    BY <1>1, <1>5, <2>1, <2>2, <2>3, <2>4
<1>8. InCache'
  <2> DEFINE G == Giver(orig, orig)
             T == Taker(orig, orig)
  <2> SUFFICES ASSUME loops = 1, cached, 2 * (N + 1) < orig.src, 2 * (N + 1) < orig.dst
               PROVE  /\ Giver(orig, p) = G - N
                      /\ Taker(orig, p) = Turned(T + N)
                      /\ \A k \in DOMAIN wire' : Giver(orig, wire'[k]) = G - (k - 1)
    <3>1. iteration' = N + 1 /\ (IF iteration' = 0 THEN 0 ELSE iteration' - 1) = N
      BY <1>1, <1>2
    <3> QED
      BY <1>1, <1>5, <3>1 DEF InCache, Steady
  <2>1. 2 * N < orig.src /\ 2 * N < orig.dst
    BY <1>2, Widths DEF Packet
  <2>2. /\ Giver(orig, mem) = G - (IF N = 0 THEN 0 ELSE N - 1)
        /\ Taker(orig, mem) = Turned(T + (IF N = 0 THEN 0 ELSE N - 1))
        /\ \A k \in DOMAIN wire : Giver(orig, wire[k]) = G - (k - 1)
    BY <1>2, <2>1 DEF FreshInv, InCache, Steady, N
  <2>3. Giver(orig, p) = G - N /\ Taker(orig, p) = Turned(T + N)
    <3>1. CASE N = 0
      BY <1>4, <2>2, <3>1
    <3>2. CASE N # 0
      <4>1. 1 <= N /\ p = Edited(mem, N, TRUE)
        BY <1>2, <1>4, <3>2
      <4>2. Giver(orig, mem) = G - (N - 1) /\ Taker(orig, mem) = Turned(T + (N - 1))
        BY <2>2, <3>2
      <4> QED
        BY <1>2, <4>1, <4>2, EditInPlace
    <3> QED
      BY <3>1, <3>2
  <2>4. \A k \in 1 .. N + 1 : k \in 1 .. N \/ k = N + 1
    BY <1>2
  <2>5. (N + 1) - 1 = N
    BY <1>2
  <2> QED
    BY <1>5, <2>2, <2>3, <2>4, <2>5
<1> QED
  BY <1>6, <1>7, <1>8 DEF FreshInv

LEMMA FreshNext == EditInv /\ FreshInv /\ [Next]_vars => EditInv' /\ FreshInv'
<1>1. EditInv /\ UNCHANGED vars => EditInv'
  BY DEF EditInv, TypeOK, SameSum, ChecksumKept, vars
<1>2. FreshInv /\ UNCHANGED vars => FreshInv'
  <2> SUFFICES ASSUME FreshInv, UNCHANGED vars PROVE FreshInv'
    OBVIOUS
  <2>1. UNCHANGED <<cached, loops, orig, mem, iteration, unique, last, wire>>
    BY DEF vars
  <2>2. Counters' /\ FromFile'
    BY <2>1 DEF FreshInv, Counters, FromFile
  <2>3. InCache'
    BY <2>1 DEF FreshInv, InCache, Steady
  <2> QED
    BY <2>2, <2>3 DEF FreshInv
<1>3. EditInv /\ FreshInv /\ Pass => EditInv' /\ FreshInv'
  BY PassInv, PassIsFresh DEF EditInv
<1> QED
  BY <1>1, <1>2, <1>3 DEF Next

\* With --unique-ip-loops=1 no two passes send the same pair of addresses, for every width
\* and packet: from the file as long as there are not more passes than addresses, wraps and
\* their compensation included, and in the cache as long as the addresses are larger than
\* twice the passes (fast_edit_packet).
THEOREM PassesAreUnique == Spec => []UniqueEachPass
<1>1. TypeOK /\ FreshInv => UniqueEachPass
  <2> SUFFICES ASSUME TypeOK, FreshInv, loops = 1,
                      IF cached THEN Steady(Len(wire)) ELSE Len(wire) <= AddrMod,
                      NEW k \in DOMAIN wire, NEW l \in DOMAIN wire, wire[k] = wire[l]
               PROVE  k = l
    BY DEF UniqueEachPass
  <2>1. orig \in Packet /\ k \in 1 .. Len(wire) /\ l \in 1 .. Len(wire) /\ Len(wire) \in Nat
    BY DEF TypeOK
  <2>2. CASE cached
    <3>1. Giver(orig, wire[k]) = Giver(orig, orig) - (k - 1)
          /\ Giver(orig, wire[l]) = Giver(orig, orig) - (l - 1)
      BY <2>2 DEF FreshInv, InCache
    <3>2. Giver(orig, orig) \in Int
      BY <2>1, Widths DEF Giver, Packet
    <3>3. Giver(orig, orig) - (k - 1) = Giver(orig, orig) - (l - 1)
      BY <3>1
    <3> QED
      BY <2>1, <3>2, <3>3
  <2>3. CASE ~cached
    <3>1. Edited(orig, k - 1, FALSE) = Edited(orig, l - 1, FALSE)
      BY <2>3 DEF FreshInv, FromFile
    <3>2. AddrMod \in Nat /\ Len(wire) <= AddrMod
      BY <2>3, Widths
    <3>3. k - 1 \in 0 .. AddrMod - 1 /\ l - 1 \in 0 .. AddrMod - 1
      BY <2>1, <3>2
    <3>4. k - 1 = l - 1
      BY <2>1, <3>1, <3>3, EditsApart
    <3> QED
      BY <2>1, <3>4
  <2> QED
    BY <2>2, <2>3
<1>2. EditInv => TypeOK
  BY DEF EditInv
<1> QED
  BY <1>1, <1>2, InitInv, FreshInit, FreshNext, PTL DEF Spec
================================================================================
