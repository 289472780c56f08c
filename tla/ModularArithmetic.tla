--------------------------- MODULE ModularArithmetic ----------------------------
(***************************************************************************)
(* Facts about % that the proofs need: registers compute modulo their      *)
(* width, and keeping a sum modulo m is keeping the sum, modulo m.         *)
(***************************************************************************)
EXTENDS Integers, TLAPS

LEMMA DivMod ==
  ASSUME NEW x \in Int, NEW m \in Nat \ {0}
  PROVE  /\ x \div m \in Int
         /\ x % m \in 0 .. m - 1
         /\ x = m * (x \div m) + (x % m)
<1>1. x \div m \in Int
  OBVIOUS
<1>2. x % m \in 0 .. m - 1
  OBVIOUS
<1>3. x = m * (x \div m) + (x % m)
  BY <1>1, <1>2
<1> QED
  BY <1>1, <1>2, <1>3

LEMMA ProductBeyond ==
  ASSUME NEW m \in Nat \ {0}, NEW e \in Int, e # 0
  PROVE  m * e >= m \/ m * e <= -m
<1>1. CASE e >= 1
  <2>1. m * (e - 1) >= 0
    BY <1>1
  <2> QED
    BY <2>1
<1>2. CASE e <= -1
  <2>1. m * (-1 - e) >= 0
    BY <1>2
  <2> QED
    BY <2>1
<1> QED
  BY <1>1, <1>2

\* A remainder is unique
LEMMA ModUnique ==
  ASSUME NEW m \in Nat \ {0}, NEW x \in Int, NEW q \in Int, NEW r \in 0 .. m - 1,
         x = m * q + r
  PROVE  x % m = r
<1> DEFINE p == x \div m
           s == x % m
<1>1. p \in Int /\ s \in 0 .. m - 1 /\ x = m * p + s
  BY DivMod
<1> HIDE DEF p, s
<1>2. m * (p - q) = r - s
  BY <1>1
<1>3. p - q = 0
  <2> SUFFICES ASSUME p - q # 0 PROVE FALSE
    OBVIOUS
  <2>1. p - q \in Int
    BY <1>1
  <2>2. m * (p - q) >= m \/ m * (p - q) <= -m
    BY <2>1, ProductBeyond
  <2> QED
    BY <1>1, <1>2, <2>2
<1>4. p = q
  BY <1>1, <1>3
<1>5. r = s
  BY <1>1, <1>4
<1> QED
  BY <1>5 DEF s

LEMMA DivUnique ==
  ASSUME NEW m \in Nat \ {0}, NEW x \in Int, NEW q \in Int, x = m * q
  PROVE  x \div m = q /\ x % m = 0
<1> DEFINE p == x \div m
<1>1. x % m = 0
  <2>1. 0 \in 0 .. m - 1 /\ x = m * q + 0
    OBVIOUS
  <2> QED
    BY <2>1, ModUnique
<1>2. p \in Int /\ x = m * p
  BY <1>1, DivMod
<1> HIDE DEF p
<1>3. m * (p - q) = 0 /\ p - q \in Int
  BY <1>2
<1>4. p - q = 0
  BY <1>3, ProductBeyond
<1>5. p = q
  BY <1>2, <1>4
<1> QED
  BY <1>1, <1>5 DEF p

LEMMA ModSmall ==
  ASSUME NEW m \in Nat \ {0}, NEW r \in 0 .. m - 1
  PROVE  r % m = r
  OBVIOUS

\* Adding a multiple of the modulus changes nothing
LEMMA ModShift ==
  ASSUME NEW m \in Nat \ {0}, NEW x \in Int, NEW k \in Int
  PROVE  (x + m * k) % m = x % m
<1> DEFINE p == x \div m
           s == x % m
<1>1. p \in Int /\ s \in 0 .. m - 1 /\ x = m * p + s
  BY DivMod
<1> HIDE DEF p, s
<1>2. x + m * k = m * (p + k) + s
  BY <1>1
<1>3. x + m * k \in Int /\ p + k \in Int
  BY <1>1
<1>4. (x + m * k) % m = s
  BY <1>1, <1>2, <1>3, ModUnique
<1> QED
  BY <1>4 DEF s

\* A sum may be reduced before it is added to
LEMMA ModAdd ==
  ASSUME NEW m \in Nat \ {0}, NEW x \in Int, NEW y \in Int
  PROVE  ((x % m) + y) % m = (x + y) % m
<1> DEFINE p == x \div m
           s == x % m
<1>1. p \in Int /\ s \in 0 .. m - 1 /\ x = m * p + s
  BY DivMod
<1> HIDE DEF p, s
<1>2. s + y \in Int /\ x + y = (s + y) + m * p
  BY <1>1
<1>3. ((s + y) + m * p) % m = (s + y) % m
  BY <1>1, <1>2, ModShift
<1> QED
  BY <1>2, <1>3 DEF s

LEMMA ModAddBoth ==
  ASSUME NEW m \in Nat \ {0}, NEW x \in Int, NEW y \in Int
  PROVE  ((x % m) + (y % m)) % m = (x + y) % m
<1>1. x % m \in Int /\ y % m \in Int
  BY DivMod
<1>2. ((x % m) + (y % m)) % m = (x + (y % m)) % m
  BY <1>1, ModAdd
<1>3. ((y % m) + x) % m = (y + x) % m
  BY ModAdd
<1>4. x + (y % m) = (y % m) + x /\ x + y = y + x
  BY <1>1
<1> QED
  BY <1>2, <1>3, <1>4

\* The square of a wrapped difference is the square of the difference, wrapped
LEMMA ModSquare ==
  ASSUME NEW m \in Nat \ {0}, NEW x \in Int
  PROVE  ((x % m) * (x % m)) % m = (x * x) % m
<1> DEFINE p == x \div m
           s == x % m
<1>1. p \in Int /\ s \in 0 .. m - 1 /\ x = m * p + s
  BY DivMod
<1> HIDE DEF p, s
<1> DEFINE k == m * p * p + 2 * p * s
<1>2. k \in Int /\ s * s \in Int
  BY <1>1
<1>3. x * x = s * s + m * k
  <2>1. x * x = (m * p + s) * (m * p + s)
    BY <1>1
  <2> QED
    BY <1>1, <2>1
<1> HIDE DEF k
<1>4. (s * s + m * k) % m = (s * s) % m
  BY <1>2, ModShift
<1> QED
  BY <1>3, <1>4 DEF s
================================================================================
