--------------------------- MODULE FlowHistory_proofs ---------------------------
(***************************************************************************)
(* The registers of the flow tracker keep their types and mean what they   *)
(* are read as, for every traffic, width, division table and classifier.   *)
(* Who shares a window: the two directions of a conversation do, and two   *)
(* conversations only when their hashes are the same.  What a window       *)
(* reports when it closes: means no greater than the quotients they stand  *)
(* for.  And that the tracker as a whole implements ConversationWindows.   *)
(***************************************************************************)
EXTENDS FlowHistory, ModularArithmetic, FiniteSetTheorems

--------------------------------------------------------------------------------
(* Types *)

LEMMA ModBound ==
  ASSUME NEW x \in Int, NEW m \in Nat \ {0}
  PROVE  x % m \in 0 .. m - 1
  OBVIOUS

LEMMA QuotientInt ==
  ASSUME NEW x \in Int, NEW r \in Nat \ {0}
  PROVE  x \div r \in Int
  OBVIOUS

LEMMA OtherDir ==
  ASSUME NEW d \in Dir
  PROVE  Other(d) \in Dir /\ Other(d) # d
  BY DEF Dir, Other

\* A sum kept in a register stays within the width of the register
LEMMA SumBound ==
  ASSUME NEW x \in Int, NEW y \in Int, NEW m \in Nat \ {0}
  PROVE  (x + y) % m \in 0 .. m - 1
<1>1. x + y \in Int
  OBVIOUS
<1> QED
  BY <1>1, ModBound

\* Writing one slot of one direction keeps a bank of registers a bank
LEMMA PutType ==
  ASSUME NEW V, NEW reg \in [Dir -> [Slot -> V]], NEW d \in Dir, NEW i \in Slot, NEW v \in V
  PROVE  Put(reg, d, i, v) \in [Dir -> [Slot -> V]]
  BY DEF Put

LEMMA ResetType ==
  ASSUME NEW V, 0 \in V, NEW reg \in [Dir -> [Slot -> V]],
         NEW d \in Dir, NEW i \in Slot, NEW v \in V
  PROVE  Reset(reg, d, i, v) \in [Dir -> [Slot -> V]]
  BY OtherDir DEF Reset

LEMMA ShiftsType ==
  ASSUME NEW x \in Int, NEW m \in Nat \ {0}, NEW n \in DOMAIN Recip
  PROVE  Shifts(x, Recip[n], m) \in 0 .. m - 1
<1> DEFINE r == Recip[n]
<1>1. r[1] \in Nat \ {0} /\ r[2] \in Nat \ {0} /\ r[3] \in Nat \ {0}
  BY TableAssumption
<1>2. x \div r[1] + x \div r[2] + x \div r[3] \in Int
  BY <1>1, QuotientInt
<1> QED
  BY <1>2, ModBound DEF Shifts

LEMMA PacketType ==
  ASSUME NEW p \in Traffic, NEW len \in TotalLen
  PROVE  /\ DirOf(p) \in Dir
         /\ SlotOf(p) \in Slot
         /\ Siz(len) \in 0 .. SizeMod - 1
         /\ Key[p] \in 0 .. KeyMod - 1
<1>1. p \in Addr \X Addr /\ ConvOf(p) \in Addr \X Addr
  BY TrafficAssumption DEF ConvOf
<1>2. SlotOf(p) \in Slot /\ Key[p] \in 0 .. KeyMod - 1
  BY <1>1, TrafficAssumption DEF SlotOf
<1>3. Siz(len) \in 0 .. LenMod - 1
  <2>1. len - HeaderBytes \in Int
    BY TrafficAssumption, ModAssumption DEF HeaderBytes
  <2> QED
    BY <2>1, ModBound, ModAssumption DEF Siz
<1>4. Siz(len) \in 0 .. SizeMod - 1
  BY <1>3, ModAssumption
<1> QED
  BY <1>2, <1>4 DEF DirOf, Dir

--------------------------------------------------------------------------------
(* What a report carries *)

LEMMA NoQuotientType ==
  NoQuotient \in [meanSZ : 0 .. SizeMod - 1, stdSZ : 0 .. SizeMod - 1,
                  meanIAT : 0 .. TimeMod - 1, stdIAT : 0 .. TimeMod - 1]
  BY ModAssumption DEF NoQuotient

LEMMA DivideType ==
  ASSUME TypeOK, NEW d \in Dir, NEW i \in Slot,
         NEW s \in [meanSZ : 0 .. SizeMod - 1, stdSZ : 0 .. SizeMod - 1,
                    meanIAT : 0 .. TimeMod - 1, stdIAT : 0 .. TimeMod - 1]
  PROVE  Divide(d, i, s) \in [meanSZ : 0 .. SizeMod - 1, stdSZ : 0 .. SizeMod - 1,
                              meanIAT : 0 .. TimeMod - 1, stdIAT : 0 .. TimeMod - 1]
<1>1. CASE Nbelem[d][i] \notin DOMAIN Recip
  BY <1>1 DEF Divide
<1>2. CASE Nbelem[d][i] \in DOMAIN Recip
  <2>1. Sum_SZE[d][i] \in Int /\ Dlt_SZE[d][i] \in Int /\ Dlt_IAT[d][i] \in Int
    BY DEF TypeOK, Bank
  <2> DEFINE n == Nbelem[d][i]
  <2>2. SizeMod \in Nat \ {0} /\ TimeMod \in Nat \ {0} /\ WinSze \in Int /\ n \in DOMAIN Recip
    BY <1>2, ModAssumption, TrafficAssumption
  <2> HIDE DEF n
  <2>3. /\ Shifts(Sum_SZE[d][i], Recip[n], SizeMod) \in 0 .. SizeMod - 1
        /\ Shifts(Dlt_SZE[d][i], Recip[n], SizeMod) \in 0 .. SizeMod - 1
    BY <2>1, <2>2, ShiftsType
  <2>4. /\ Shifts(WinSze, Recip[n], TimeMod) \in 0 .. TimeMod - 1
        /\ Shifts(Dlt_IAT[d][i], Recip[n], TimeMod) \in 0 .. TimeMod - 1
    BY <2>1, <2>2, ShiftsType
  <2> QED
    BY <1>2, <2>3, <2>4 DEF Divide, n
<1> QED
  BY <1>1, <1>2

LEMMA FeaturesType ==
  ASSUME TypeOK, NEW i \in Slot
  PROVE  Features(i) \in [Dir -> FeatureSet]
<1> SUFFICES ASSUME NEW d \in Dir
             PROVE  FeaturesOf(d, i) \in FeatureSet
  BY DEF Features
<1> DEFINE Quotients == [meanSZ : 0 .. SizeMod - 1, stdSZ : 0 .. SizeMod - 1,
                         meanIAT : 0 .. TimeMod - 1, stdIAT : 0 .. TimeMod - 1]
<1>1. ScratchOf(d, i) \in Quotients
  BY NoQuotientType, DivideType DEF ScratchOf, Dir
<1> DEFINE q == IF Nbelem[d][i] > 0 THEN Divide(d, i, ScratchOf(d, i)) ELSE NoQuotient
<1>2. q \in Quotients
  BY <1>1, NoQuotientType, DivideType
<1>3. Sum_SZE[d][i] \in 0 .. SizeMod - 1 /\ Nbelem[d][i] \in 0 .. CountMod - 1
  BY DEF TypeOK, Bank
<1>4. FeaturesOf(d, i) = [meanSZ |-> q.meanSZ, stdSZ |-> q.stdSZ, meanIAT |-> q.meanIAT,
                          stdIAT |-> q.stdIAT, sum |-> Sum_SZE[d][i], nb |-> Nbelem[d][i]]
  BY DEF FeaturesOf
<1> HIDE DEF q
<1> QED
  BY <1>2, <1>3, <1>4 DEF FeatureSet

--------------------------------------------------------------------------------
(* The three ways through the apply block *)

LEMMA SquareType ==
  ASSUME NEW x \in Int, NEW m \in Nat \ {0}
  PROVE  Square(x, m) \in 0 .. m - 1
<1>1. x % m \in Int
  BY ModBound
<1>2. (x % m) * (x % m) \in Int
  BY <1>1
<1> QED
  BY <1>2, ModBound DEF Square

\* The registers that init* and update* write
BanksOK ==
  /\ Nbelem \in Bank(CountMod)
  /\ Sum_SZE \in Bank(SizeMod)
  /\ Dlt_SZE \in Bank(SizeMod)
  /\ flow_tst \in Bank(TimeMod)
  /\ Dlt_IAT \in Bank(TimeMod)

LEMMA InitWindowType ==
  ASSUME TypeOK, Lst_Mu_SZE' \in Bank(SizeMod),
         NEW d \in Dir, NEW i \in Slot, NEW siz \in 0 .. SizeMod - 1,
         NEW t \in 0 .. TimeMod - 1, InitWindow(d, i, siz, t)
  PROVE  BanksOK'
<1>1. 0 \in 0 .. CountMod - 1 /\ 1 \in 0 .. CountMod - 1
      /\ 0 \in 0 .. SizeMod - 1 /\ 0 \in 0 .. TimeMod - 1
  BY ModAssumption
<1>2. Lst_Mu_SZE'[d][i] \in Int
  BY DEF Bank
<1>3. (IF Lst_Mu_SZE'[d][i] # 0 THEN Square(siz - Lst_Mu_SZE'[d][i], SizeMod) ELSE 0)
        \in 0 .. SizeMod - 1
  BY <1>1, <1>2, SquareType, ModAssumption
<1> QED
  BY <1>1, <1>3, ResetType DEF InitWindow, BanksOK, TypeOK, Bank

LEMMA UpdateType ==
  ASSUME TypeOK, NEW d \in Dir, NEW i \in Slot, NEW siz \in 0 .. SizeMod - 1,
         NEW t \in 0 .. TimeMod - 1, Update(d, i, siz, t)
  PROVE  BanksOK'
<1>1. /\ Nbelem[d][i] \in Int /\ Sum_SZE[d][i] \in Int /\ Dlt_SZE[d][i] \in Int
      /\ Lst_Mu_SZE[d][i] \in Int /\ Lst_Mu_IAT[d][i] \in Int /\ Dlt_IAT[d][i] \in Int
      /\ flow_tst[d][i] \in Int /\ siz \in Int /\ t \in Int
  BY DEF TypeOK, Bank
<1>2. /\ CountMod \in Nat \ {0} /\ SizeMod \in Nat \ {0} /\ TimeMod \in Nat \ {0}
  BY ModAssumption
<1>3. /\ (Nbelem[d][i] + 1) % CountMod \in 0 .. CountMod - 1
      /\ (Sum_SZE[d][i] + siz) % SizeMod \in 0 .. SizeMod - 1
  BY <1>1, <1>2, SumBound
<1>4. DltSze(d, i, siz) \in 0 .. SizeMod - 1
  <2> DEFINE s == Square(siz - Lst_Mu_SZE[d][i], SizeMod)
  <2>1. siz - Lst_Mu_SZE[d][i] \in Int
    BY <1>1
  <2>2. s \in Int
    BY <1>2, <2>1, SquareType
  <2> HIDE DEF s
  <2>3. (Dlt_SZE[d][i] + s) % SizeMod \in 0 .. SizeMod - 1
    BY <1>1, <1>2, <2>2, SumBound
  <2> QED
    BY <1>2, <2>3 DEF DltSze, s
<1>5. DltIat(d, i, t) \in 0 .. TimeMod - 1
  <2> DEFINE s == Square(Iat(d, i, t) - Lst_Mu_IAT[d][i], TimeMod)
  <2>1. t - flow_tst[d][i] \in Int
    BY <1>1
  <2>2. (t - flow_tst[d][i]) % TimeMod \in Int
    <3>1. (t - flow_tst[d][i]) % TimeMod \in 0 .. TimeMod - 1
      BY <1>2, <2>1, ModBound
    <3> QED
      BY <3>1
  <2>3. Iat(d, i, t) - Lst_Mu_IAT[d][i] \in Int
    BY <1>1, <2>2 DEF Iat
  <2>4. s \in Int
    BY <1>2, <2>3, SquareType
  <2> HIDE DEF s
  <2>5. (Dlt_IAT[d][i] + s) % TimeMod \in 0 .. TimeMod - 1
    BY <1>1, <1>2, <2>4, SumBound
  <2> QED
    BY <1>2, <2>5 DEF DltIat, s
<1> QED
  BY <1>3, <1>4, <1>5, PutType DEF Update, BanksOK, TypeOK, Bank

LEMMA GenHashType ==
  ASSUME TypeOK, NEW i \in Slot, NEW k, NEW t \in 0 .. TimeMod - 1, GenHash(i, k, t)
  PROVE  /\ flow_frst_time' \in [Slot -> 0 .. TimeMod - 1]
         /\ flow_tracker' \in [Slot -> 0 .. KeyMod - 1]
  BY DEF TypeOK, GenHash

--------------------------------------------------------------------------------
(* TypeOK is inductive *)

LEMMA InitType == Init => TypeOK
  BY ModAssumption DEF Init, TypeOK, Cleared, Bank

LEMMA ArrivalType ==
  ASSUME TypeOK, NEW p \in Traffic, NEW len \in TotalLen, NEW gap \in Gap,
         Arrival(p, len, gap)
  PROVE  TypeOK'
<1> DEFINE t == (clock + gap) % TimeMod
           i == SlotOf(p)
<1>1. clock' \in Nat /\ t \in 0 .. TimeMod - 1
  <2>1. clock' \in Nat /\ clock + gap \in Int
    BY TrafficAssumption DEF TypeOK, Arrival
  <2> QED
    BY <2>1, ModBound, ModAssumption
<1>2. DirOf(p) \in Dir /\ i \in Slot /\ Siz(len) \in 0 .. SizeMod - 1
  BY PacketType
<1> HIDE DEF t, i
<1>3. GenHash(i, Key[p], t)
  BY DEF Arrival, t, i
<1>4. /\ flow_frst_time' \in [Slot -> 0 .. TimeMod - 1]
      /\ flow_tracker' \in [Slot -> 0 .. KeyMod - 1]
  BY <1>1, <1>2, <1>3, GenHashType
<1>5. CASE WindowEnds(p, len, t)
  <2> DEFINE f == Features(i)
  <2>1. f \in [Dir -> FeatureSet]
    BY <1>2, FeaturesType
  <2> HIDE DEF f
  <2>2. /\ Lst_Mu_SZE' = [d \in Dir |-> [Lst_Mu_SZE[d] EXCEPT ![i] = f[d].meanSZ]]
        /\ Lst_Mu_IAT' = [d \in Dir |-> [Lst_Mu_IAT[d] EXCEPT ![i] = f[d].meanIAT]]
        /\ report' = [slot |-> i, f |-> f, cg |-> IF IsCG(f) THEN 1 ELSE 0]
        /\ InitWindow(DirOf(p), i, Siz(len), t)
    BY <1>5 DEF WindowEnds, f, i
  <2>3. \A d \in Dir : f[d].meanSZ \in 0 .. SizeMod - 1 /\ f[d].meanIAT \in 0 .. TimeMod - 1
    BY <2>1 DEF FeatureSet
  <2>4. Lst_Mu_SZE' \in Bank(SizeMod) /\ Lst_Mu_IAT' \in Bank(TimeMod)
    BY <2>2, <2>3 DEF TypeOK, Bank
  <2>5. report' \in Report
    BY <1>2, <2>1, <2>2 DEF Report
  <2>6. BanksOK'
    BY <1>1, <1>2, <2>2, <2>4, InitWindowType
  <2> QED
    BY <1>1, <1>4, <2>4, <2>5, <2>6 DEF TypeOK, BanksOK
<1>6. CASE WindowStarts(p, len, t)
  <2>1. Lst_Mu_SZE' \in Bank(SizeMod) /\ Lst_Mu_IAT' \in Bank(TimeMod) /\ report' = NoReport
    BY <1>6 DEF WindowStarts, means, TypeOK
  <2>2. InitWindow(DirOf(p), i, Siz(len), t)
    BY <1>6 DEF WindowStarts, i
  <2>3. BanksOK'
    BY <1>1, <1>2, <2>1, <2>2, InitWindowType
  <2> QED
    BY <1>1, <1>4, <2>1, <2>3 DEF TypeOK, BanksOK
<1>7. CASE WindowContinues(p, len, t)
  <2>1. Lst_Mu_SZE' \in Bank(SizeMod) /\ Lst_Mu_IAT' \in Bank(TimeMod) /\ report' = NoReport
    BY <1>7 DEF WindowContinues, means, TypeOK
  <2>2. Update(DirOf(p), i, Siz(len), t)
    BY <1>7 DEF WindowContinues, i
  <2>3. BanksOK'
    BY <1>1, <1>2, <2>2, UpdateType
  <2> QED
    BY <1>1, <1>4, <2>1, <2>3 DEF TypeOK, BanksOK
<1> QED
  BY <1>5, <1>6, <1>7 DEF Arrival, t

LEMMA StutterType == TypeOK /\ UNCHANGED vars => TypeOK'
  BY DEF TypeOK, vars, sums, means

\* Every register keeps a value of its declared width and every report carries
\* features of the declared widths, whatever the traffic, the division table and
\* the classifier (register and tracking_metadata_t declarations).
THEOREM TypeCorrect == Spec => []TypeOK
<1>1. TypeOK /\ [Next]_vars => TypeOK'
  BY ArrivalType, StutterType DEF Next
<1> QED
  BY InitType, <1>1, PTL DEF Spec

--------------------------------------------------------------------------------
(* Deviations are natural numbers *)

LEMMA SquareNat ==
  ASSUME NEW x \in Int
  PROVE  SqInt(x) \in Nat
<1>1. x * x >= 0
  OBVIOUS
<1> QED
  BY <1>1 DEF SqInt

LEMMA SizeDevNat ==
  ASSUME NEW siz \in Int, NEW mu \in Int
  PROVE  SizeDev(siz, mu) \in Nat
<1>1. siz - mu \in Int
  OBVIOUS
<1> QED
  BY <1>1, SquareNat DEF SizeDev

--------------------------------------------------------------------------------
(* The history is well-typed *)

LEMMA HInitType == HInit => HTypeOK
  BY DEF HInit, HTypeOK, NatBank, Cleared

LEMMA IatDevNat ==
  ASSUME TypeOK, HTypeOK, NEW d \in Dir, NEW i \in Slot, NEW t \in Nat
  PROVE  IatDev(d, i, t) \in Nat
<1>1. (t - wLast[d][i]) - Lst_Mu_IAT[d][i] \in Int
  BY DEF TypeOK, HTypeOK, Bank, NatBank
<1> QED
  BY <1>1, SquareNat DEF IatDev

LEMMA AloneType ==
  ASSUME NEW bank \in NatBank, NEW d \in Dir, NEW i \in Slot, NEW v \in Nat
  PROVE  Alone(bank, d, i, v) \in [Dir -> [Slot -> Nat]]
  BY DEF Alone, NatBank

LEMMA OpenedType ==
  ASSUME HTypeOK, TypeOK', NEW p \in Traffic, NEW i \in Slot, NEW siz \in Nat, NEW t \in Nat,
         DirOf(p) \in Dir, Opened(p, i, siz, t)
  PROVE  HTypeOK'
<1> DEFINE d == DirOf(p)
<1>1. Lst_Mu_SZE'[d][i] \in Int /\ siz \in Int
  BY DEF TypeOK, Bank
<1>2. SizeDev(siz, Lst_Mu_SZE'[d][i]) \in Nat
  BY <1>1, SizeDevNat
<1>3. 0 \in Nat /\ 1 \in Nat
  OBVIOUS
<1>4. /\ wCount' \in NatBank /\ wBytes' \in NatBank /\ wDev' \in NatBank
      /\ wIatDev' \in NatBank /\ wLast' \in NatBank
  BY <1>2, <1>3, AloneType DEF Opened, HTypeOK, NatBank
<1>5. wStart' \in [Slot -> Nat] /\ wTie' \in [Dir -> [Slot -> BOOLEAN]]
  BY DEF Opened, HTypeOK
<1>6. wPeers' \in [Slot -> SUBSET (SUBSET Addr)]
  <2>1. {{p[1], p[2]}} \in SUBSET (SUBSET Addr)
    BY TrafficAssumption
  <2> QED
    BY <2>1 DEF Opened, HTypeOK
<1> QED
  BY <1>4, <1>5, <1>6 DEF HTypeOK

LEMMA JoinedType ==
  ASSUME TypeOK, HTypeOK, NEW p \in Traffic, NEW i \in Slot, NEW siz \in Nat, NEW t \in Nat,
         DirOf(p) \in Dir, Joined(p, i, siz, t)
  PROVE  HTypeOK'
<1> DEFINE d == DirOf(p)
<1>1. Lst_Mu_SZE[d][i] \in Int /\ siz \in Int /\ wCount[d][i] \in Nat /\ wBytes[d][i] \in Nat
      /\ wDev[d][i] \in Nat /\ wIatDev[d][i] \in Nat
  BY DEF TypeOK, Bank, HTypeOK, NatBank
<1>2. SizeDev(siz, Lst_Mu_SZE[d][i]) \in Nat /\ IatDev(d, i, t) \in Nat
  BY <1>1, SizeDevNat, IatDevNat
<1>3. /\ wCount[d][i] + 1 \in Nat
      /\ wBytes[d][i] + siz \in Nat
      /\ wDev[d][i] + SizeDev(siz, Lst_Mu_SZE[d][i]) \in Nat
      /\ wIatDev[d][i] + IatDev(d, i, t) \in Nat
  BY <1>1, <1>2
<1>4. /\ wCount' \in NatBank /\ wBytes' \in NatBank /\ wDev' \in NatBank
      /\ wIatDev' \in NatBank /\ wLast' \in NatBank
  BY <1>3, PutType DEF Joined, HTypeOK, NatBank
<1>5. wStart' \in [Slot -> Nat] /\ wTie' \in [Dir -> [Slot -> BOOLEAN]]
  <2>1. (wTie[d][i] \/ (wCount[d][i] > 0 /\ wLast[d][i] = t)) \in BOOLEAN
    OBVIOUS
  <2> QED
    BY <2>1, PutType DEF Joined, HTypeOK
<1>6. wPeers' \in [Slot -> SUBSET (SUBSET Addr)]
  <2>1. {{p[1], p[2]}} \in SUBSET (SUBSET Addr)
    BY TrafficAssumption
  <2> QED
    BY <2>1 DEF Joined, HTypeOK
<1> QED
  BY <1>4, <1>5, <1>6 DEF HTypeOK

LEMMA HArrivalType ==
  ASSUME TypeOK, HTypeOK, NEW p \in Traffic, NEW len \in TotalLen, NEW gap \in Gap,
         HArrival(p, len, gap)
  PROVE  TypeOK' /\ HTypeOK'
<1>1. TypeOK'
  BY ArrivalType DEF HArrival
<1>2. DirOf(p) \in Dir /\ SlotOf(p) \in Slot /\ Siz(len) \in Nat /\ clock' \in Nat
  BY PacketType, <1>1 DEF TypeOK
<1> QED
  BY <1>1, <1>2, OpenedType, JoinedType DEF HArrival

--------------------------------------------------------------------------------
(* The counts, sums and deviations of sizes *)

\* Without a last mean no size deviation has been accumulated: this is why the
\* code may store 0 instead of adding to the register
NoMeanNoDeviation ==
  \A d \in Dir, i \in Slot : Lst_Mu_SZE[d][i] = 0 => wDev[d][i] = 0

SizeInv == TypeOK /\ HTypeOK /\ RegistersExact /\ NoMeanNoDeviation

LEMMA SquareExact ==
  ASSUME NEW x \in Int, NEW m \in Nat \ {0}
  PROVE  Square(x, m) = SqInt(x) % m
  BY ModSquare DEF Square, SqInt

LEMMA ZeroMod ==
  ASSUME NEW m \in Nat \ {0}
  PROVE  0 % m = 0
  OBVIOUS

\* A register updated modulo its width follows the number it stands for
LEMMA SumExact ==
  ASSUME NEW m \in Nat \ {0}, NEW r, NEW x \in Nat, r = x % m, NEW y \in Int
  PROVE  (r + y) % m = (x + y) % m
<1>1. x \in Int
  OBVIOUS
<1> QED
  BY <1>1, ModAdd

LEMMA OpenedExact ==
  ASSUME SizeInv, TypeOK', NEW p \in Traffic, NEW i \in Slot,
         NEW siz \in 0 .. SizeMod - 1, NEW t, NEW u, DirOf(p) \in Dir,
         \A e \in Dir, j \in Slot : j # i => Lst_Mu_SZE'[e][j] = Lst_Mu_SZE[e][j],
         InitWindow(DirOf(p), i, siz, t), Opened(p, i, siz, u)
  PROVE  RegistersExact' /\ NoMeanNoDeviation'
<1> DEFINE d == DirOf(p)
<1> SUFFICES ASSUME NEW e \in Dir, NEW j \in Slot
             PROVE  /\ Nbelem'[e][j] = wCount'[e][j] % CountMod
                    /\ Sum_SZE'[e][j] = wBytes'[e][j] % SizeMod
                    /\ Dlt_SZE'[e][j] = wDev'[e][j] % SizeMod
                    /\ Lst_Mu_SZE'[e][j] = 0 => wDev'[e][j] = 0
  BY DEF RegistersExact, NoMeanNoDeviation
<1> DEFINE mu == Lst_Mu_SZE'[d][i]
           reg == IF mu # 0 THEN Square(siz - mu, SizeMod) ELSE 0
           dev == SizeDev(siz, mu)
<1>1. CountMod \in Nat \ {0} /\ SizeMod \in Nat \ {0} /\ CountMod > 1
  BY ModAssumption
<1>2. mu \in Int /\ siz \in Int /\ siz - mu \in Int
  BY DEF TypeOK, Bank
<1>3. reg = dev % SizeMod
  BY <1>1, <1>2, SquareExact, ZeroMod DEF SizeDev
<1>4. mu = 0 => dev = 0
  BY DEF SizeDev
<1>5. /\ Nbelem \in [Dir -> [Slot -> 0 .. CountMod - 1]]
      /\ Sum_SZE \in [Dir -> [Slot -> 0 .. SizeMod - 1]]
      /\ Dlt_SZE \in [Dir -> [Slot -> 0 .. SizeMod - 1]]
      /\ wCount \in [Dir -> [Slot -> Nat]]
      /\ wBytes \in [Dir -> [Slot -> Nat]]
      /\ wDev \in [Dir -> [Slot -> Nat]]
  BY DEF SizeInv, TypeOK, HTypeOK, Bank, NatBank
<1>6. /\ Nbelem' = Reset(Nbelem, d, i, 1)
      /\ Sum_SZE' = Reset(Sum_SZE, d, i, siz)
      /\ Dlt_SZE' = Reset(Dlt_SZE, d, i, reg)
      /\ wCount' = Alone(wCount, d, i, 1)
      /\ wBytes' = Alone(wBytes, d, i, siz)
      /\ wDev' = Alone(wDev, d, i, dev)
  BY DEF InitWindow, Opened
<1> HIDE DEF reg, dev
<1>7. /\ Nbelem'[e][j] = IF j = i THEN (IF e = d THEN 1 ELSE 0) ELSE Nbelem[e][j]
      /\ Sum_SZE'[e][j] = IF j = i THEN (IF e = d THEN siz ELSE 0) ELSE Sum_SZE[e][j]
      /\ Dlt_SZE'[e][j] = IF j = i THEN (IF e = d THEN reg ELSE 0) ELSE Dlt_SZE[e][j]
  BY <1>5, <1>6 DEF Reset, Alone, Other, Dir
<1>8. /\ wCount'[e][j] = IF j = i THEN (IF e = d THEN 1 ELSE 0) ELSE wCount[e][j]
      /\ wBytes'[e][j] = IF j = i THEN (IF e = d THEN siz ELSE 0) ELSE wBytes[e][j]
      /\ wDev'[e][j] = IF j = i THEN (IF e = d THEN dev ELSE 0) ELSE wDev[e][j]
  BY <1>5, <1>6 DEF Reset, Alone, Other, Dir
<1>9. CASE j # i
  BY <1>7, <1>8, <1>9 DEF SizeInv, RegistersExact, NoMeanNoDeviation
<1>10. CASE j = i /\ e # d
  BY <1>1, <1>7, <1>8, <1>10, ZeroMod
<1>11. CASE j = i /\ e = d
  <2>1. 1 % CountMod = 1 /\ siz % SizeMod = siz
    BY <1>1, ModSmall
  <2> QED
    BY <1>3, <1>4, <1>7, <1>8, <1>11, <2>1
<1> QED
  BY <1>9, <1>10, <1>11

LEMMA JoinedExact ==
  ASSUME SizeInv, NEW p \in Traffic, NEW i \in Slot,
         NEW siz \in 0 .. SizeMod - 1, NEW t, NEW u, DirOf(p) \in Dir,
         UNCHANGED Lst_Mu_SZE,
         Update(DirOf(p), i, siz, t), Joined(p, i, siz, u)
  PROVE  RegistersExact' /\ NoMeanNoDeviation'
<1> DEFINE d == DirOf(p)
<1> SUFFICES ASSUME NEW e \in Dir, NEW j \in Slot
             PROVE  /\ Nbelem'[e][j] = wCount'[e][j] % CountMod
                    /\ Sum_SZE'[e][j] = wBytes'[e][j] % SizeMod
                    /\ Dlt_SZE'[e][j] = wDev'[e][j] % SizeMod
                    /\ Lst_Mu_SZE'[e][j] = 0 => wDev'[e][j] = 0
  BY DEF RegistersExact, NoMeanNoDeviation
<1> DEFINE mu == Lst_Mu_SZE[d][i]
           dev == SizeDev(siz, mu)
<1>1. CountMod \in Nat \ {0} /\ SizeMod \in Nat \ {0}
  BY ModAssumption
<1>2. mu \in Int /\ siz \in Int /\ siz - mu \in Int
  BY DEF SizeInv, TypeOK, Bank
<1>3. /\ Nbelem \in [Dir -> [Slot -> 0 .. CountMod - 1]]
      /\ Sum_SZE \in [Dir -> [Slot -> 0 .. SizeMod - 1]]
      /\ Dlt_SZE \in [Dir -> [Slot -> 0 .. SizeMod - 1]]
      /\ wCount \in [Dir -> [Slot -> Nat]]
      /\ wBytes \in [Dir -> [Slot -> Nat]]
      /\ wDev \in [Dir -> [Slot -> Nat]]
  BY DEF SizeInv, TypeOK, HTypeOK, Bank, NatBank
<1>4. wCount[d][i] \in Nat /\ wBytes[d][i] \in Nat /\ wDev[d][i] \in Nat
  BY <1>3
<1>5. /\ Nbelem[d][i] = wCount[d][i] % CountMod
      /\ Sum_SZE[d][i] = wBytes[d][i] % SizeMod
      /\ Dlt_SZE[d][i] = wDev[d][i] % SizeMod
      /\ mu = 0 => wDev[d][i] = 0
  BY DEF SizeInv, RegistersExact, NoMeanNoDeviation
<1>6. (Nbelem[d][i] + 1) % CountMod = (wCount[d][i] + 1) % CountMod
  <2>1. 1 \in Int
    OBVIOUS
  <2> QED
    BY <1>1, <1>4, <1>5, <2>1, SumExact
<1>7. (Sum_SZE[d][i] + siz) % SizeMod = (wBytes[d][i] + siz) % SizeMod
  <2>1. wBytes[d][i] \in Nat /\ siz \in Int /\ Sum_SZE[d][i] = wBytes[d][i] % SizeMod
    BY <1>4, <1>5
  <2> QED
    BY <1>1, <2>1, SumExact
<1>8. DltSze(d, i, siz) = (wDev[d][i] + dev) % SizeMod
  <2>1. CASE mu = 0
    <3>1. dev = 0 /\ DltSze(d, i, siz) = 0 /\ wDev[d][i] + dev = 0
      BY <1>5, <2>1 DEF SizeDev, DltSze
    <3> QED
      BY <1>1, <3>1, ZeroMod
  <2>2. CASE mu # 0
    <3> DEFINE q == SqInt(siz - mu)
    <3>1. dev = q /\ q \in Int
      BY <1>2, <2>2, SquareNat DEF SizeDev
    <3>2. DltSze(d, i, siz) = (Dlt_SZE[d][i] + (q % SizeMod)) % SizeMod
      BY <1>1, <1>2, <2>2, SquareExact DEF DltSze
    <3> HIDE DEF q
    <3>3. wDev[d][i] \in Int
      BY <1>4
    <3>4. ((wDev[d][i] % SizeMod) + (q % SizeMod)) % SizeMod = (wDev[d][i] + q) % SizeMod
      BY <1>1, <3>1, <3>3, ModAddBoth
    <3> QED
      BY <1>5, <3>1, <3>2, <3>4
  <2> QED
    BY <2>1, <2>2
<1>9. /\ Nbelem' = Put(Nbelem, d, i, (Nbelem[d][i] + 1) % CountMod)
      /\ Sum_SZE' = Put(Sum_SZE, d, i, (Sum_SZE[d][i] + siz) % SizeMod)
      /\ Dlt_SZE' = Put(Dlt_SZE, d, i, DltSze(d, i, siz))
      /\ wCount' = Put(wCount, d, i, wCount[d][i] + 1)
      /\ wBytes' = Put(wBytes, d, i, wBytes[d][i] + siz)
      /\ wDev' = Put(wDev, d, i, wDev[d][i] + dev)
  BY DEF Update, Joined
<1>10. mu = 0 => dev = 0
  BY DEF SizeDev
<1> HIDE DEF dev
<1>11. CASE e = d /\ j = i
  <2>1. /\ Nbelem'[e][j] = (Nbelem[d][i] + 1) % CountMod
        /\ Sum_SZE'[e][j] = (Sum_SZE[d][i] + siz) % SizeMod
        /\ Dlt_SZE'[e][j] = DltSze(d, i, siz)
    BY <1>3, <1>9, <1>11 DEF Put
  <2>2. /\ wCount'[e][j] = wCount[d][i] + 1
        /\ wBytes'[e][j] = wBytes[d][i] + siz
        /\ wDev'[e][j] = wDev[d][i] + dev
    BY <1>3, <1>9, <1>11 DEF Put
  <2>3. Lst_Mu_SZE'[e][j] = 0 => wDev'[e][j] = 0
    BY <1>5, <1>10, <1>11, <2>2
  <2> QED
    BY <1>6, <1>7, <1>8, <2>1, <2>2, <2>3
<1>12. CASE ~(e = d /\ j = i)
  <2>1. Nbelem'[e][j] = Nbelem[e][j] /\ Sum_SZE'[e][j] = Sum_SZE[e][j]
        /\ Dlt_SZE'[e][j] = Dlt_SZE[e][j]
    BY <1>3, <1>9, <1>12 DEF Put
  <2>2. wCount'[e][j] = wCount[e][j] /\ wBytes'[e][j] = wBytes[e][j]
        /\ wDev'[e][j] = wDev[e][j]
    BY <1>3, <1>9, <1>12 DEF Put
  <2> QED
    BY <2>1, <2>2 DEF SizeInv, RegistersExact, NoMeanNoDeviation
<1> QED
  BY <1>11, <1>12

\* What the window-closing branch stores leaves the other slots alone
LEMMA MeansElsewhere ==
  ASSUME TypeOK, NEW p \in Traffic, NEW len \in TotalLen, NEW t,
         WindowEnds(p, len, t) \/ WindowStarts(p, len, t)
  PROVE  \A e \in Dir, j \in Slot :
           j # SlotOf(p) => Lst_Mu_SZE'[e][j] = Lst_Mu_SZE[e][j]
  BY DEF WindowEnds, WindowStarts, means, TypeOK, Bank

LEMMA SizeInvInit == HInit => SizeInv
<1> SUFFICES ASSUME HInit PROVE SizeInv
  OBVIOUS
<1>1. TypeOK /\ HTypeOK
  BY InitType, HInitType DEF HInit
<1>2. 0 % CountMod = 0 /\ 0 % SizeMod = 0
  BY ZeroMod, ModAssumption
<1>3. RegistersExact /\ NoMeanNoDeviation
  BY <1>2 DEF HInit, Init, Cleared, RegistersExact, NoMeanNoDeviation
<1> QED
  BY <1>1, <1>3 DEF SizeInv

LEMMA SizeInvStep ==
  ASSUME SizeInv, NEW p \in Traffic, NEW len \in TotalLen, NEW gap \in Gap,
         HArrival(p, len, gap)
  PROVE  SizeInv'
<1> DEFINE t == (clock + gap) % TimeMod
           i == SlotOf(p)
           siz == Siz(len)
<1>1. TypeOK' /\ HTypeOK'
  BY HArrivalType DEF SizeInv
<1>2. DirOf(p) \in Dir /\ i \in Slot /\ siz \in 0 .. SizeMod - 1
  BY PacketType
<1>3. CASE EndWin(i, t) \/ Restart(i, Key[p])
  <2>1. Opened(p, i, siz, clock')
    BY <1>3 DEF HArrival
  <2>2. WindowEnds(p, len, t) \/ WindowStarts(p, len, t)
    BY <1>3 DEF HArrival, Arrival, WindowContinues
  <2>3. InitWindow(DirOf(p), i, siz, t)
    BY <2>2 DEF WindowEnds, WindowStarts
  <2>4. \A e \in Dir, j \in Slot : j # i => Lst_Mu_SZE'[e][j] = Lst_Mu_SZE[e][j]
    BY <2>2, MeansElsewhere DEF SizeInv
  <2> QED
    BY <1>1, <1>2, <2>1, <2>3, <2>4, OpenedExact DEF SizeInv
<1>4. CASE ~(EndWin(i, t) \/ Restart(i, Key[p]))
  <2>1. Joined(p, i, siz, clock')
    BY <1>4 DEF HArrival
  <2>2. WindowContinues(p, len, t)
    BY <1>4 DEF HArrival, Arrival, WindowEnds, WindowStarts
  <2>3. Update(DirOf(p), i, siz, t) /\ UNCHANGED Lst_Mu_SZE
    BY <2>2 DEF WindowContinues, means
  <2> QED
    BY <1>1, <1>2, <2>1, <2>3, JoinedExact DEF SizeInv
<1> QED
  BY <1>3, <1>4

LEMMA SizeInvStutter == SizeInv /\ UNCHANGED <<vars, hist>> => SizeInv'
  BY DEF SizeInv, TypeOK, HTypeOK, RegistersExact, NoMeanNoDeviation,
         vars, sums, means, hist

\* Whatever arrives, and however windows and conversations share the slots, the
\* count, size sum and size deviation registers hold the true values of the open
\* window modulo their widths (init* and update* of My.p4).
THEOREM RegistersAreExact == HSpec => []RegistersExact
<1>1. SizeInv /\ [HNext]_<<vars, hist>> => SizeInv'
  BY SizeInvStep, SizeInvStutter DEF HNext
<1>2. SizeInv => RegistersExact
  BY DEF SizeInv
<1> QED
  BY SizeInvInit, <1>1, <1>2, PTL DEF HSpec

--------------------------------------------------------------------------------
(* Times: windows, and the deviations of inter-arrival times               *)

\* No conversation ever claims a slot: gen_hash only reads flow_tracker
NoOwner == \A i \in Slot : flow_tracker[i] = 0

\* The start register is the start of the window; 0 stands for no window
StartExact ==
  \A i \in Slot :
    /\ flow_frst_time[i] = wStart[i]
    /\ wStart[i] <= clock
    /\ \A d \in Dir : wCount[d][i] > 0 => 0 < wStart[i]

\* The last-arrival register is the last arrival; 0 stands for none
LastExact ==
  \A d \in Dir, i \in Slot :
    /\ wCount[d][i] > 0 => flow_tst[d][i] = wLast[d][i] /\ wLast[d][i] <= clock
    /\ wCount[d][i] = 0 => flow_tst[d][i] = 0 /\ wIatDev[d][i] = 0
    /\ Lst_Mu_IAT[d][i] = 0 => wIatDev[d][i] = 0

TimeInv ==
  /\ TypeOK /\ HTypeOK /\ clock > 0
  /\ NoOwner /\ StartExact /\ LastExact
  /\ WindowSpan /\ IatDevExactWithoutTies

LEMMA TimeInvInit == HInit => TimeInv
<1> SUFFICES ASSUME HInit PROVE TimeInv
  OBVIOUS
<1>1. TypeOK /\ HTypeOK
  BY InitType, HInitType DEF HInit
<1>2. 0 % TimeMod = 0
  BY ZeroMod, ModAssumption
<1>3. clock > 0 /\ NoOwner /\ StartExact /\ LastExact /\ WindowSpan /\ IatDevExactWithoutTies
  BY <1>2 DEF HInit, Init, Cleared, NoOwner, StartExact, LastExact, WindowSpan,
              IatDevExactWithoutTies
<1> QED
  BY <1>1, <1>3 DEF TimeInv

\* An arrival stamp is the arrival time, later than everything recorded
LEMMA StampExact ==
  ASSUME NoTimeWrap, TypeOK, clock > 0, NEW p \in Traffic, NEW len \in TotalLen, NEW gap \in Gap,
         Arrival(p, len, gap)
  PROVE  /\ (clock + gap) % TimeMod = clock'
         /\ clock' \in Nat /\ clock' >= clock /\ clock' < TimeMod
<1>1. clock + gap \in Nat /\ clock + gap >= clock /\ clock + gap < TimeMod
  BY TrafficAssumption, ModAssumption DEF NoTimeWrap, TypeOK, Arrival
<1>2. clock + gap \in 0 .. TimeMod - 1 /\ TimeMod \in Nat \ {0}
  BY <1>1, ModAssumption
<1>3. (clock + gap) % TimeMod = clock + gap
  BY <1>2, ModSmall
<1> QED
  BY <1>1, <1>3 DEF Arrival

LEMMA NeverSwapped ==
  ASSUME NoOwner, NEW i \in Slot, NEW k \in Int
  PROVE  SwapSpace(i, k) = 0
<1>1. KeyMod \in Nat \ {0}
  BY ModAssumption
<1>2. 0 - k \in Int
  OBVIOUS
<1>3. (0 - k) % KeyMod \in 0 .. KeyMod - 1
  BY <1>1, <1>2, ModBound
<1>4. ((0 - k) % KeyMod) * 0 = 0
  BY <1>3
<1>5. 0 % KeyMod = 0
  BY <1>1, ZeroMod
<1> QED
  BY <1>4, <1>5 DEF NoOwner, SwapSpace

\* What mEndWin and the init branch decide, in terms of the window
LEMMA WindowDecision ==
  ASSUME TimeInv, NEW i \in Slot, NEW k \in Int, NEW t \in Nat, t >= clock, t < TimeMod
  PROVE  /\ EndWin(i, t) <=> wStart[i] # 0 /\ t > wStart[i] + WinSze
         /\ Restart(i, k) <=> wStart[i] = 0
<1>1. wStart[i] \in Nat /\ wStart[i] <= t /\ flow_frst_time[i] = wStart[i]
  BY DEF TimeInv, StartExact, HTypeOK, TypeOK
<1>2. t - wStart[i] \in 0 .. TimeMod - 1 /\ TimeMod \in Nat \ {0}
  BY <1>1, ModAssumption
<1>3. (t - wStart[i]) % TimeMod = t - wStart[i]
  BY <1>2, ModSmall
<1>4. EndWin(i, t) <=> wStart[i] # 0 /\ t > wStart[i] + WinSze
  BY <1>1, <1>3, TrafficAssumption DEF EndWin
<1>5. Restart(i, k) <=> wStart[i] = 0
  BY <1>1, NeverSwapped DEF Restart, TimeInv
<1> QED
  BY <1>4, <1>5

LEMMA OpenedTimes ==
  ASSUME TimeInv, TypeOK', HTypeOK', NEW p \in Traffic, NEW i \in Slot, NEW siz, NEW t \in Nat,
         DirOf(p) \in Dir, t >= clock, t < TimeMod, clock' = t,
         flow_frst_time' = [flow_frst_time EXCEPT ![i] = t], UNCHANGED flow_tracker,
         \A e \in Dir, j \in Slot : j # i => Lst_Mu_IAT'[e][j] = Lst_Mu_IAT[e][j],
         InitWindow(DirOf(p), i, siz, t), Opened(p, i, siz, t)
  PROVE  TimeInv'
<1> DEFINE d == DirOf(p)
<1>1. clock > 0 /\ clock \in Nat /\ t > 0
  BY DEF TimeInv, TypeOK
<1>2. /\ flow_tst \in [Dir -> [Slot -> 0 .. TimeMod - 1]]
      /\ Dlt_IAT \in [Dir -> [Slot -> 0 .. TimeMod - 1]]
      /\ wCount \in [Dir -> [Slot -> Nat]]
      /\ wLast \in [Dir -> [Slot -> Nat]]
      /\ wIatDev \in [Dir -> [Slot -> Nat]]
      /\ wTie \in [Dir -> [Slot -> BOOLEAN]]
      /\ wStart \in [Slot -> Nat]
      /\ flow_frst_time \in [Slot -> 0 .. TimeMod - 1]
  BY DEF TimeInv, TypeOK, HTypeOK, Bank, NatBank
<1>3. /\ flow_tst' = Reset(flow_tst, d, i, t)
      /\ Dlt_IAT' = Reset(Dlt_IAT, d, i, 0)
      /\ wCount' = Alone(wCount, d, i, 1)
      /\ wLast' = Alone(wLast, d, i, t)
      /\ wIatDev' = Alone(wIatDev, d, i, 0)
      /\ wStart' = [wStart EXCEPT ![i] = t]
  BY DEF InitWindow, Opened
<1>4. NoOwner' /\ clock' > 0
  BY <1>1 DEF TimeInv, NoOwner
<1>5. ASSUME NEW e \in Dir, NEW j \in Slot
      PROVE  /\ flow_tst'[e][j] = IF j = i THEN (IF e = d THEN t ELSE 0) ELSE flow_tst[e][j]
             /\ wLast'[e][j] = IF j = i THEN (IF e = d THEN t ELSE 0) ELSE wLast[e][j]
             /\ wCount'[e][j] = IF j = i THEN (IF e = d THEN 1 ELSE 0) ELSE wCount[e][j]
             /\ Dlt_IAT'[e][j] = IF j = i THEN 0 ELSE Dlt_IAT[e][j]
             /\ wIatDev'[e][j] = IF j = i THEN 0 ELSE wIatDev[e][j]
             /\ wStart'[j] = IF j = i THEN t ELSE wStart[j]
             /\ flow_frst_time'[j] = IF j = i THEN t ELSE flow_frst_time[j]
             /\ j # i => (wTie'[e][j] <=> wTie[e][j])
  <2>1. flow_tst'[e][j] = IF j = i THEN (IF e = d THEN t ELSE 0) ELSE flow_tst[e][j]
    BY <1>2, <1>3 DEF Reset, Alone, Other, Dir
  <2>2. wLast'[e][j] = IF j = i THEN (IF e = d THEN t ELSE 0) ELSE wLast[e][j]
    BY <1>2, <1>3 DEF Reset, Alone, Other, Dir
  <2>3. wCount'[e][j] = IF j = i THEN (IF e = d THEN 1 ELSE 0) ELSE wCount[e][j]
    BY <1>2, <1>3 DEF Reset, Alone, Other, Dir
  <2>4. /\ Dlt_IAT'[e][j] = IF j = i THEN 0 ELSE Dlt_IAT[e][j]
        /\ wIatDev'[e][j] = IF j = i THEN 0 ELSE wIatDev[e][j]
    BY <1>2, <1>3 DEF Reset, Alone, Other, Dir
  <2>5. /\ wStart'[j] = IF j = i THEN t ELSE wStart[j]
        /\ flow_frst_time'[j] = IF j = i THEN t ELSE flow_frst_time[j]
    BY <1>2, <1>3
  <2>6. j # i => (wTie'[e][j] <=> wTie[e][j])
    BY <1>2 DEF Opened
  <2> QED
    BY <2>1, <2>2, <2>3, <2>4, <2>5, <2>6
<1>6. StartExact'
  <2> SUFFICES ASSUME NEW j \in Slot
               PROVE  /\ flow_frst_time'[j] = wStart'[j]
                      /\ wStart'[j] <= clock'
                      /\ \A e \in Dir : wCount'[e][j] > 0 => 0 < wStart'[j]
    BY DEF StartExact
  <2>1. CASE j = i
    BY <1>1, <1>2, <1>5, <2>1 DEF Dir
  <2>2. CASE j # i
    <3>1. flow_frst_time'[j] = wStart'[j] /\ wStart'[j] = wStart[j]
      BY <1>5, <2>2 DEF TimeInv, StartExact, Dir
    <3>2. wStart[j] <= clock /\ wStart[j] \in Nat
      BY <1>2 DEF TimeInv, StartExact
    <3>3. \A e \in Dir : wCount'[e][j] > 0 => 0 < wStart[j]
      BY <1>5, <2>2 DEF TimeInv, StartExact
    <3> QED
      BY <1>1, <3>1, <3>2, <3>3
  <2> QED
    BY <2>1, <2>2
<1>7. ASSUME NEW e \in Dir, NEW j \in Slot
      PROVE  /\ wCount'[e][j] > 0 => flow_tst'[e][j] = wLast'[e][j] /\ wLast'[e][j] <= clock'
             /\ wCount'[e][j] = 0 => flow_tst'[e][j] = 0 /\ wIatDev'[e][j] = 0
             /\ Lst_Mu_IAT'[e][j] = 0 => wIatDev'[e][j] = 0
             /\ wCount'[e][j] > 0 => /\ wStart'[j] <= wLast'[e][j]
                                     /\ wLast'[e][j] <= wStart'[j] + WinSze
             /\ ~wTie'[e][j] => Dlt_IAT'[e][j] = wIatDev'[e][j] % TimeMod
  <2>1. 0 % TimeMod = 0 /\ WinSze \in Nat
    BY ZeroMod, ModAssumption, TrafficAssumption
  <2>2. CASE j = i
    BY <1>1, <1>5, <2>1, <2>2
  <2>3. CASE j # i
    <3>1. wLast[e][j] \in Nat /\ wCount[e][j] \in Nat
      BY <1>2
    <3>2. /\ wCount[e][j] > 0 => flow_tst[e][j] = wLast[e][j] /\ wLast[e][j] <= clock
          /\ wCount[e][j] = 0 => flow_tst[e][j] = 0 /\ wIatDev[e][j] = 0
          /\ Lst_Mu_IAT[e][j] = 0 => wIatDev[e][j] = 0
          /\ wCount[e][j] > 0 => wStart[j] <= wLast[e][j] /\ wLast[e][j] <= wStart[j] + WinSze
          /\ ~wTie[e][j] => Dlt_IAT[e][j] = wIatDev[e][j] % TimeMod
      BY DEF TimeInv, LastExact, WindowSpan, IatDevExactWithoutTies
    <3>3. /\ flow_tst'[e][j] = flow_tst[e][j] /\ wLast'[e][j] = wLast[e][j]
          /\ wCount'[e][j] = wCount[e][j] /\ wIatDev'[e][j] = wIatDev[e][j]
          /\ Dlt_IAT'[e][j] = Dlt_IAT[e][j] /\ wStart'[j] = wStart[j]
          /\ (wTie'[e][j] <=> wTie[e][j]) /\ Lst_Mu_IAT'[e][j] = Lst_Mu_IAT[e][j]
      BY <1>5, <2>3
    <3>4. wLast[e][j] <= clock => wLast[e][j] <= clock'
      BY <1>1, <3>1
    <3> QED
      BY <3>2, <3>3, <3>4
  <2> QED
    BY <2>2, <2>3
<1>8. LastExact' /\ WindowSpan' /\ IatDevExactWithoutTies'
  BY <1>7 DEF LastExact, WindowSpan, IatDevExactWithoutTies
<1> QED
  BY <1>4, <1>6, <1>8 DEF TimeInv

\* One packet's share of the inter-arrival deviation, when no two packets of the
\* direction shared a microsecond
LEMMA DltIatExact ==
  ASSUME TimeInv, NEW d \in Dir, NEW i \in Slot, NEW t \in Nat, t >= clock, t < TimeMod,
         wCount[d][i] > 0 => 0 < wStart[i], ~wTie[d][i], ~(wCount[d][i] > 0 /\ wLast[d][i] = t)
  PROVE  DltIat(d, i, t) = (wIatDev[d][i] + IatDev(d, i, t)) % TimeMod
<1> DEFINE mu == Lst_Mu_IAT[d][i]
           last == wLast[d][i]
           dev == wIatDev[d][i]
<1>1. /\ TimeMod \in Nat \ {0} /\ mu \in Nat /\ last \in Nat /\ dev \in Nat
      /\ wCount[d][i] \in Nat /\ wStart[i] \in Nat /\ clock \in Nat
  BY ModAssumption DEF TimeInv, TypeOK, HTypeOK, Bank, NatBank
<1>2. /\ wCount[d][i] > 0 => flow_tst[d][i] = last /\ last <= clock /\ wStart[i] <= last
      /\ wCount[d][i] = 0 => flow_tst[d][i] = 0 /\ dev = 0
      /\ mu = 0 => dev = 0
      /\ Dlt_IAT[d][i] = dev % TimeMod
  BY DEF TimeInv, LastExact, WindowSpan, IatDevExactWithoutTies
<1>3. 0 % TimeMod = 0
  BY <1>1, ZeroMod
<1> HIDE DEF mu, last, dev
<1>4. CASE wCount[d][i] = 0
  <2>1. Iat(d, i, t) = 0
    BY <1>2, <1>4 DEF Iat
  <2>2. DltIat(d, i, t) = 0 /\ IatDev(d, i, t) = 0
    BY <1>4, <2>1 DEF DltIat, IatDev
  <2>3. wIatDev[d][i] = 0
    BY <1>2, <1>4 DEF dev
  <2> QED
    BY <1>3, <2>2, <2>3
<1>5. CASE wCount[d][i] > 0 /\ mu = 0
  <2>1. DltIat(d, i, t) = 0 /\ IatDev(d, i, t) = 0
    BY <1>5 DEF DltIat, IatDev, mu
  <2>2. wIatDev[d][i] = 0
    BY <1>2, <1>5 DEF dev
  <2> QED
    BY <1>3, <2>1, <2>2
<1>6. CASE wCount[d][i] > 0 /\ mu # 0
  <2>1. flow_tst[d][i] = last /\ last > 0 /\ last <= clock /\ last # t
    BY <1>1, <1>2, <1>6 DEF last
  <2>2. t - last \in 0 .. TimeMod - 1 /\ t - last # 0
    BY <1>1, <2>1
  <2>3. (t - last) % TimeMod = t - last
    BY <1>1, <2>2, ModSmall
  <2>4. Iat(d, i, t) = t - last
    BY <2>1, <2>3 DEF Iat
  <2>5. (t - last) - mu \in Int
    BY <1>1
  <2> DEFINE q == SqInt((t - last) - mu)
  <2>6. q \in Int /\ IatDev(d, i, t) = q
    BY <1>6, <2>5, SquareNat DEF IatDev, mu, last
  <2>7. DltIat(d, i, t) = (Dlt_IAT[d][i] + Square((t - last) - mu, TimeMod)) % TimeMod
    BY <1>6, <2>2, <2>4 DEF DltIat, mu
  <2>8. Square((t - last) - mu, TimeMod) = q % TimeMod
    BY <1>1, <2>5, SquareExact
  <2> HIDE DEF q
  <2>9. dev \in Int /\ ((dev % TimeMod) + (q % TimeMod)) % TimeMod = (dev + q) % TimeMod
    <3>1. dev \in Int
      BY <1>1
    <3> QED
      BY <1>1, <2>6, <3>1, ModAddBoth
  <2> QED
    BY <1>2, <2>6, <2>7, <2>8, <2>9 DEF dev
<1> QED
  BY <1>1, <1>4, <1>5, <1>6

LEMMA JoinedTimes ==
  ASSUME TimeInv, TypeOK', HTypeOK', NEW p \in Traffic, NEW i \in Slot, NEW siz, NEW t \in Nat,
         DirOf(p) \in Dir, t >= clock, t < TimeMod, clock' = t,
         wStart[i] # 0, t <= wStart[i] + WinSze,
         UNCHANGED <<flow_frst_time, flow_tracker, Lst_Mu_IAT>>,
         Update(DirOf(p), i, siz, t), Joined(p, i, siz, t)
  PROVE  TimeInv'
<1> DEFINE d == DirOf(p)
           sum == wIatDev[d][i] + IatDev(d, i, t)
           tied == wTie[d][i] \/ (wCount[d][i] > 0 /\ wLast[d][i] = t)
<1>1. clock > 0 /\ clock \in Nat /\ t > 0 /\ WinSze \in Nat
  BY TrafficAssumption DEF TimeInv, TypeOK
<1>2. /\ flow_tst \in [Dir -> [Slot -> 0 .. TimeMod - 1]]
      /\ Dlt_IAT \in [Dir -> [Slot -> 0 .. TimeMod - 1]]
      /\ wCount \in [Dir -> [Slot -> Nat]]
      /\ wLast \in [Dir -> [Slot -> Nat]]
      /\ wIatDev \in [Dir -> [Slot -> Nat]]
      /\ wTie \in [Dir -> [Slot -> BOOLEAN]]
      /\ wStart \in [Slot -> Nat]
  BY DEF TimeInv, TypeOK, HTypeOK, Bank, NatBank
<1>3. /\ flow_tst' = Put(flow_tst, d, i, t)
      /\ Dlt_IAT' = Put(Dlt_IAT, d, i, DltIat(d, i, t))
      /\ wCount' = Put(wCount, d, i, wCount[d][i] + 1)
      /\ wLast' = Put(wLast, d, i, t)
      /\ wIatDev' = Put(wIatDev, d, i, sum)
      /\ wTie' = Put(wTie, d, i, tied)
      /\ wStart' = wStart
  BY DEF Update, Joined
<1>4. NoOwner' /\ clock' > 0
  BY <1>1 DEF TimeInv, NoOwner
<1>5. /\ ~tied => DltIat(d, i, t) = sum % TimeMod
      /\ Lst_Mu_IAT[d][i] = 0 => sum = 0
      /\ wStart[i] <= clock /\ wStart[i] > 0
  <2>1. wCount[d][i] > 0 => 0 < wStart[i]
    BY DEF TimeInv, StartExact
  <2>2. ~tied => DltIat(d, i, t) = sum % TimeMod
    BY <2>1, DltIatExact
  <2>3. Lst_Mu_IAT[d][i] = 0 => sum = 0
    BY DEF TimeInv, LastExact, IatDev
  <2> QED
    BY <1>2, <2>2, <2>3 DEF TimeInv, StartExact
<1> HIDE DEF sum, tied
<1>6. ASSUME NEW e \in Dir, NEW j \in Slot, e = d, j = i
      PROVE  /\ flow_tst'[e][j] = t /\ wLast'[e][j] = t
             /\ wCount'[e][j] = wCount[e][j] + 1
             /\ Dlt_IAT'[e][j] = DltIat(d, i, t) /\ wIatDev'[e][j] = sum
             /\ (wTie'[e][j] <=> tied)
  <2>1. flow_tst'[e][j] = t /\ wLast'[e][j] = t
    BY <1>2, <1>3, <1>6 DEF Put
  <2>2. wCount'[e][j] = wCount[e][j] + 1
    BY <1>2, <1>3, <1>6 DEF Put
  <2>3. Dlt_IAT'[e][j] = DltIat(d, i, t) /\ wIatDev'[e][j] = sum
    BY <1>2, <1>3, <1>6 DEF Put
  <2>4. wTie'[e][j] <=> tied
    BY <1>2, <1>3, <1>6 DEF Put
  <2> QED
    BY <2>1, <2>2, <2>3, <2>4
<1>7. ASSUME NEW e \in Dir, NEW j \in Slot, ~(e = d /\ j = i)
      PROVE  /\ flow_tst'[e][j] = flow_tst[e][j] /\ wLast'[e][j] = wLast[e][j]
             /\ wCount'[e][j] = wCount[e][j]
             /\ Dlt_IAT'[e][j] = Dlt_IAT[e][j] /\ wIatDev'[e][j] = wIatDev[e][j]
             /\ (wTie'[e][j] <=> wTie[e][j])
  <2>1. flow_tst'[e][j] = flow_tst[e][j] /\ wLast'[e][j] = wLast[e][j]
    BY <1>2, <1>3, <1>7 DEF Put
  <2>2. wCount'[e][j] = wCount[e][j]
    BY <1>2, <1>3, <1>7 DEF Put
  <2>3. Dlt_IAT'[e][j] = Dlt_IAT[e][j] /\ wIatDev'[e][j] = wIatDev[e][j]
    BY <1>2, <1>3, <1>7 DEF Put
  <2>4. wTie'[e][j] <=> wTie[e][j]
    BY <1>2, <1>3, <1>7 DEF Put
  <2> QED
    BY <2>1, <2>2, <2>3, <2>4
<1>8. StartExact'
  <2> SUFFICES ASSUME NEW j \in Slot
               PROVE  /\ flow_frst_time'[j] = wStart'[j]
                      /\ wStart'[j] <= clock'
                      /\ \A e \in Dir : wCount'[e][j] > 0 => 0 < wStart'[j]
    BY DEF StartExact
  <2>1. flow_frst_time'[j] = wStart'[j] /\ wStart'[j] = wStart[j] /\ wStart[j] \in Nat
    BY <1>2, <1>3 DEF TimeInv, StartExact
  <2>2. wStart[j] <= clock'
    BY <1>1, <2>1 DEF TimeInv, StartExact
  <2>3. ASSUME NEW e \in Dir, wCount'[e][j] > 0 PROVE 0 < wStart[j]
    <3>1. CASE e = d /\ j = i
      BY <1>5, <3>1
    <3>2. CASE ~(e = d /\ j = i)
      BY <1>7, <2>3, <3>2 DEF TimeInv, StartExact
    <3> QED
      BY <3>1, <3>2
  <2> QED
    BY <2>1, <2>2, <2>3
<1>9. ASSUME NEW e \in Dir, NEW j \in Slot
      PROVE  /\ wCount'[e][j] > 0 => flow_tst'[e][j] = wLast'[e][j] /\ wLast'[e][j] <= clock'
             /\ wCount'[e][j] = 0 => flow_tst'[e][j] = 0 /\ wIatDev'[e][j] = 0
             /\ Lst_Mu_IAT'[e][j] = 0 => wIatDev'[e][j] = 0
             /\ wCount'[e][j] > 0 => /\ wStart'[j] <= wLast'[e][j]
                                     /\ wLast'[e][j] <= wStart'[j] + WinSze
             /\ ~wTie'[e][j] => Dlt_IAT'[e][j] = wIatDev'[e][j] % TimeMod
  <2>1. CASE e = d /\ j = i
    <3>1. wCount[e][j] \in Nat /\ wStart[i] \in Nat
      BY <1>2
    <3>2. wCount'[e][j] # 0 /\ flow_tst'[e][j] = t /\ wLast'[e][j] = t
      BY <1>6, <2>1, <3>1
    <3>3. wStart'[j] <= t /\ t <= wStart'[j] + WinSze
      BY <1>1, <1>3, <1>5, <2>1, <3>1
    <3>4. Lst_Mu_IAT'[e][j] = 0 => wIatDev'[e][j] = 0
      BY <1>5, <1>6, <2>1
    <3>5. ~wTie'[e][j] => Dlt_IAT'[e][j] = wIatDev'[e][j] % TimeMod
      BY <1>5, <1>6, <2>1
    <3> QED
      BY <1>1, <3>2, <3>3, <3>4, <3>5
  <2>2. CASE ~(e = d /\ j = i)
    <3>1. wLast[e][j] \in Nat /\ wCount[e][j] \in Nat
      BY <1>2
    <3>2. /\ wCount[e][j] > 0 => flow_tst[e][j] = wLast[e][j] /\ wLast[e][j] <= clock
          /\ wCount[e][j] = 0 => flow_tst[e][j] = 0 /\ wIatDev[e][j] = 0
          /\ Lst_Mu_IAT[e][j] = 0 => wIatDev[e][j] = 0
          /\ wCount[e][j] > 0 => wStart[j] <= wLast[e][j] /\ wLast[e][j] <= wStart[j] + WinSze
          /\ ~wTie[e][j] => Dlt_IAT[e][j] = wIatDev[e][j] % TimeMod
      BY DEF TimeInv, LastExact, WindowSpan, IatDevExactWithoutTies
    <3>3. wLast[e][j] <= clock => wLast[e][j] <= clock'
      BY <1>1, <3>1
    <3> QED
      BY <1>3, <1>7, <2>2, <3>2, <3>3
  <2> QED
    BY <2>1, <2>2
<1>10. LastExact' /\ WindowSpan' /\ IatDevExactWithoutTies'
  BY <1>9 DEF LastExact, WindowSpan, IatDevExactWithoutTies
<1> QED
  BY <1>4, <1>8, <1>10 DEF TimeInv

LEMMA TimeInvStep ==
  ASSUME NoTimeWrap, TimeInv, NEW p \in Traffic, NEW len \in TotalLen, NEW gap \in Gap,
         HArrival(p, len, gap)
  PROVE  TimeInv'
<1> DEFINE t == (clock + gap) % TimeMod
           i == SlotOf(p)
           siz == Siz(len)
<1>1. TypeOK' /\ HTypeOK'
  BY HArrivalType DEF TimeInv
<1>2. DirOf(p) \in Dir /\ i \in Slot /\ Key[p] \in Int
  BY PacketType
<1>3. t = clock' /\ clock' \in Nat /\ clock' >= clock /\ clock' < TimeMod
  BY StampExact DEF TimeInv, HArrival
<1>4. GenHash(i, Key[p], t)
  BY DEF HArrival, Arrival
<1> HIDE DEF t, i
<1>5. /\ EndWin(i, t) <=> wStart[i] # 0 /\ t > wStart[i] + WinSze
      /\ Restart(i, Key[p]) <=> wStart[i] = 0
  BY <1>2, <1>3, WindowDecision
<1>6. CASE EndWin(i, t) \/ Restart(i, Key[p])
  <2>1. Opened(p, i, siz, clock')
    BY <1>6 DEF HArrival, t, i
  <2>2. WindowEnds(p, len, t) \/ WindowStarts(p, len, t)
    BY <1>6 DEF HArrival, Arrival, WindowContinues, t, i
  <2>3. InitWindow(DirOf(p), i, siz, t)
    BY <2>2 DEF WindowEnds, WindowStarts, i
  <2>4. \A e \in Dir, j \in Slot : j # i => Lst_Mu_IAT'[e][j] = Lst_Mu_IAT[e][j]
    BY <2>2 DEF WindowEnds, WindowStarts, means, TimeInv, TypeOK, Bank, i
  <2>5. flow_frst_time' = [flow_frst_time EXCEPT ![i] = t] /\ UNCHANGED flow_tracker
    BY <1>4, <1>6 DEF GenHash
  <2> QED
    BY <1>1, <1>2, <1>3, <2>1, <2>3, <2>4, <2>5, OpenedTimes
<1>7. CASE ~(EndWin(i, t) \/ Restart(i, Key[p]))
  <2>1. Joined(p, i, siz, clock')
    BY <1>7 DEF HArrival, t, i
  <2>2. WindowContinues(p, len, t)
    BY <1>7 DEF HArrival, Arrival, WindowEnds, WindowStarts, t, i
  <2>3. Update(DirOf(p), i, siz, t) /\ UNCHANGED Lst_Mu_IAT
    BY <2>2 DEF WindowContinues, means, i
  <2>4. UNCHANGED <<flow_frst_time, flow_tracker>>
    BY <1>2, <1>4, <1>7 DEF GenHash, TimeInv, TypeOK
  <2>5. wStart[i] # 0 /\ t <= wStart[i] + WinSze
    <3>1. wStart[i] \in Nat /\ WinSze \in Nat /\ t \in Nat
      BY <1>2, <1>3, TrafficAssumption DEF TimeInv, HTypeOK
    <3> QED
      BY <1>5, <1>7, <3>1
  <2> QED
    BY <1>1, <1>2, <1>3, <2>1, <2>3, <2>4, <2>5, JoinedTimes
<1> QED
  BY <1>6, <1>7

LEMMA TimeInvStutter == TimeInv /\ UNCHANGED <<vars, hist>> => TimeInv'
  BY DEF TimeInv, TypeOK, HTypeOK, NoOwner, StartExact, LastExact, WindowSpan,
         IatDevExactWithoutTies, vars, sums, means, hist

LEMMA TimeInvariant ==
  ASSUME NoTimeWrap
  PROVE  HSpec => []TimeInv
<1>1. TimeInv /\ [HNext]_<<vars, hist>> => TimeInv'
  BY TimeInvStep, TimeInvStutter DEF HNext
<1> QED
  BY TimeInvInit, <1>1, PTL DEF HSpec

\* As long as the clock does not reach the width of the time registers, no window
\* ever holds a packet that arrived more than WIN_SZE after its first one
\* (mEndWin and the write of flow_frst_time in gen_hash).
THEOREM WindowsAreBounded ==
  ASSUME NoTimeWrap
  PROVE  HSpec => []WindowSpan
<1>1. TimeInv => WindowSpan
  BY DEF TimeInv
<1> QED
  BY TimeInvariant, <1>1, PTL

\* Under the same condition, and for a direction no two packets of which shared a
\* microsecond, the inter-arrival deviation register is exact modulo its width
\* (sumIatDlt of updateDOWN and updateUP).
THEOREM IatDeviationsAreExact ==
  ASSUME NoTimeWrap
  PROVE  HSpec => []IatDevExactWithoutTies
<1>1. TimeInv => IatDevExactWithoutTies
  BY DEF TimeInv
<1> QED
  BY TimeInvariant, <1>1, PTL

--------------------------------------------------------------------------------
(* The conversations of a window *)

LEMMA AtMostOne ==
  ASSUME NEW S, \A x, y \in S : x = y
  PROVE  Cardinality(S) <= 1
<1>1. CASE S = {}
  BY <1>1, FS_EmptySet
<1>2. CASE S # {}
  <2>1. PICK x \in S : TRUE
    BY <1>2
  <2>2. S = {x}
    BY <2>1
  <2>3. Cardinality({x}) = 1
    BY FS_Singleton
  <2> QED
    BY <2>2, <2>3
<1> QED
  BY <1>1, <1>2

\* A window only holds packets that hash to its slot
PeersOfSlot ==
  \A i \in Slot : \A s \in wPeers[i] :
    \E p \in Traffic : SlotOf(p) = i /\ s = {p[1], p[2]}

PeersInv == TypeOK /\ HTypeOK /\ PeersOfSlot

LEMMA PeersInvInit == HInit => PeersInv
<1> SUFFICES ASSUME HInit PROVE PeersInv
  OBVIOUS
<1>1. TypeOK /\ HTypeOK
  BY InitType, HInitType DEF HInit
<1>2. PeersOfSlot
  BY DEF HInit, PeersOfSlot
<1> QED
  BY <1>1, <1>2 DEF PeersInv

LEMMA PeersInvStep ==
  ASSUME PeersInv, NEW p \in Traffic, NEW len \in TotalLen, NEW gap \in Gap,
         HArrival(p, len, gap)
  PROVE  PeersInv'
<1>1. TypeOK' /\ HTypeOK'
  BY HArrivalType DEF PeersInv
<1>2. wPeers \in [Slot -> SUBSET (SUBSET Addr)] /\ SlotOf(p) \in Slot
  BY PacketType DEF PeersInv, HTypeOK
<1>3. \/ wPeers' = [wPeers EXCEPT ![SlotOf(p)] = {{p[1], p[2]}}]
      \/ wPeers' = [wPeers EXCEPT ![SlotOf(p)] = @ \cup {{p[1], p[2]}}]
  BY DEF HArrival, Opened, Joined
<1>4. PeersOfSlot'
  <2> SUFFICES ASSUME NEW i \in Slot, NEW s \in wPeers'[i]
               PROVE  \E q \in Traffic : SlotOf(q) = i /\ s = {q[1], q[2]}
    BY DEF PeersOfSlot, SlotOf
  <2>1. s \in wPeers[i] \/ (i = SlotOf(p) /\ s = {p[1], p[2]})
    BY <1>2, <1>3
  <2> QED
    BY <2>1 DEF PeersInv, PeersOfSlot
<1> QED
  BY <1>1, <1>4 DEF PeersInv

LEMMA PeersInvariant == HSpec => []PeersInv
<1>1. PeersInv /\ UNCHANGED <<vars, hist>> => PeersInv'
  BY DEF PeersInv, PeersOfSlot, TypeOK, HTypeOK, vars, sums, means, hist
<1>2. PeersInv /\ [HNext]_<<vars, hist>> => PeersInv'
  BY <1>1, PeersInvStep DEF HNext
<1> QED
  BY PeersInvInit, <1>2, PTL DEF HSpec

\* Either direction of a conversation between the LAN and the WAN is hashed in
\* the same order
LEMMA ClientFirst ==
  ASSUME NEW p \in Traffic, NEW a \in LanAddr, NEW b \in Addr \ LanAddr, {p[1], p[2]} = {a, b}
  PROVE  ConvOf(p) = <<a, b>>
<1>1. p \in Addr \X Addr /\ a # b
  BY TrafficAssumption
<1>2. p = <<a, b>> \/ p = <<b, a>>
  BY <1>1
<1> QED
  BY <1>2 DEF ConvOf

\* The two directions of a conversation between a LAN and a WAN host are never
\* accounted to different slots (the argument order of gen_hash in the apply block).
THEOREM DirectionsShareASlot == HSpec => []DirectionsMeet
<1>1. PeersInv => DirectionsMeet
  <2> SUFFICES ASSUME PeersInv, NEW a \in LanAddr, NEW b \in Addr \ LanAddr
               PROVE  Cardinality({i \in Slot : {a, b} \in wPeers[i]}) <= 1
    BY DEF DirectionsMeet
  <2>1. ASSUME NEW i \in Slot, {a, b} \in wPeers[i]
        PROVE  i = Hash[<<a, b>>]
    BY <2>1, ClientFirst DEF PeersInv, PeersOfSlot, SlotOf
  <2>2. \A x, y \in {i \in Slot : {a, b} \in wPeers[i]} : x = y
    BY <2>1
  <2> QED
    BY <2>2, AtMostOne
<1> QED
  BY PeersInvariant, <1>1, PTL

\* Where crc16 separates the conversations in use, no window mixes two of them
\* (gen_hash; the detection of collisions has no part in it, as it never fires).
THEOREM ConversationsStayApart ==
  ASSUME CollisionFree
  PROVE  HSpec => []OneConversationPerWindow
<1>1. PeersInv => OneConversationPerWindow
  <2> SUFFICES ASSUME PeersInv, NEW i \in Slot, NEW s \in wPeers[i], NEW r \in wPeers[i]
               PROVE  s = r
    BY AtMostOne DEF OneConversationPerWindow
  <2>1. PICK p \in Traffic : SlotOf(p) = i /\ s = {p[1], p[2]}
    BY DEF PeersInv, PeersOfSlot
  <2>2. PICK q \in Traffic : SlotOf(q) = i /\ r = {q[1], q[2]}
    BY DEF PeersInv, PeersOfSlot
  <2>3. ConvOf(p) = ConvOf(q)
    BY <2>1, <2>2 DEF CollisionFree, UsedConv, SlotOf
  <2>4. ASSUME NEW x \in Traffic
        PROVE  {x[1], x[2]} = {ConvOf(x)[1], ConvOf(x)[2]}
    BY DEF ConvOf
  <2> QED
    BY <2>1, <2>2, <2>3, <2>4
<1> QED
  BY PeersInvariant, <1>1, PTL
--------------------------------------------------------------------------------
(* The means of a report *)

LEMMA ProductLe ==
  ASSUME NEW a \in Nat, NEW b \in Nat, a <= b, NEW c \in Nat
  PROVE  a * c <= b * c
<1>1. (b - a) * c >= 0
  OBVIOUS
<1> QED
  BY <1>1

LEMMA CancelLe ==
  ASSUME NEW a \in Nat, NEW b \in Nat, NEW u \in Nat \ {0}, a * u <= b * u
  PROVE  a <= b
<1>1. CASE a > b
  <2>1. (a - b - 1) * u >= 0
    BY <1>1
  <2>2. (a - b - 1) * u = a * u - b * u - u
    OBVIOUS
  <2>3. a * u \in Int /\ b * u \in Int
    OBVIOUS
  <2> QED
    BY <2>1, <2>2, <2>3
<1> QED
  BY <1>1

\* A quotient by a shift is at most the true one
LEMMA ShiftLe ==
  ASSUME NEW x \in Nat, NEW d \in Nat \ {0}
  PROVE  x \div d \in Nat /\ (x \div d) * d <= x
<1>1. x \div d \in Int /\ x % d \in 0 .. d - 1 /\ x = d * (x \div d) + (x % d)
  BY DivMod
<1> DEFINE q == x \div d
           r == x % d
<1> HIDE DEF q, r
<1>2. q \in Int /\ r \in Nat /\ r < d /\ x = d * q + r
  BY <1>1 DEF q, r
<1>3. q >= 0
  <2>1. CASE q < 0
    <3>1. d * (-1 - q) >= 0
      BY <1>2, <2>1
    <3>2. d * (-1 - q) = -d - d * q /\ d * q \in Int
      BY <1>2
    <3> QED
      BY <1>2, <3>1, <3>2
  <2> QED
    BY <1>2, <2>1
<1>4. q * d <= x
  <2>1. q * d = d * q /\ d * q \in Int
    BY <1>2
  <2> QED
    BY <1>2, <2>1
<1> QED
  BY <1>2, <1>3, <1>4 DEF q

LEMMA UnitDivides ==
  ASSUME NEW n \in DOMAIN Recip
  PROVE  /\ Unit(Recip[n]) \in Nat \ {0}
         /\ \A j \in 1..3 :
              /\ Weight(Recip[n], j) \in Nat
              /\ Reaches(Recip[n][j]) => Weight(Recip[n], j) * Recip[n][j] = Unit(Recip[n])
<1> DEFINE r == Recip[n]
<1>0. \A k \in 1..3 : r[k] \in Nat \ {0}
  BY TableAssumption
<1> HIDE DEF r
<1> DEFINE f == [j \in 1..3 |-> IF Reaches(r[j]) THEN r[j] ELSE 1]
<1>1. f[1] \in Nat \ {0} /\ f[2] \in Nat \ {0} /\ f[3] \in Nat \ {0}
  BY <1>0
<1>2. Unit(r) = f[1] * f[2] * f[3]
  BY DEF Unit
<1>3. \A j \in 1..3 : Reaches(r[j]) => f[j] = r[j]
  OBVIOUS
<1> HIDE DEF f
<1>4. /\ f[1] * f[2] \in Nat \ {0} /\ f[1] * f[3] \in Nat \ {0} /\ f[2] * f[3] \in Nat \ {0}
  <2>1. \A a, b \in Nat \ {0} : a * b \in Nat \ {0}
    <3> SUFFICES ASSUME NEW a \in Nat \ {0}, NEW b \in Nat \ {0} PROVE a * b \in Nat \ {0}
      OBVIOUS
    <3>1. (a - 1) * (b - 1) >= 0
      OBVIOUS
    <3> QED
      BY <3>1
  <2> QED
    BY <1>1, <2>1
<1>5. Unit(r) \in Nat \ {0}
  <2> DEFINE g == f[1] * f[2]
  <2>1. g \in Nat \ {0} /\ Unit(r) = g * f[3]
    BY <1>2, <1>4
  <2> HIDE DEF g
  <2>2. (g - 1) * (f[3] - 1) >= 0
    BY <1>1, <2>1
  <2> QED
    BY <1>1, <2>1, <2>2
<1>6. \A j \in 1..3 : \E q \in Nat : Unit(r) = f[j] * q
  <2>1. Unit(r) = f[1] * (f[2] * f[3])
    BY <1>1, <1>2
  <2>2. Unit(r) = f[2] * (f[1] * f[3])
    BY <1>1, <1>2
  <2>3. Unit(r) = f[3] * (f[1] * f[2])
    BY <1>1, <1>2
  <2>4. \E q \in Nat : Unit(r) = f[1] * q
    BY <1>4, <2>1
  <2>5. \E q \in Nat : Unit(r) = f[2] * q
    BY <1>4, <2>2
  <2>6. \E q \in Nat : Unit(r) = f[3] * q
    BY <1>4, <2>3
  <2> QED
    BY <2>4, <2>5, <2>6
<1>7. ASSUME NEW j \in 1..3
      PROVE  /\ Weight(r, j) \in Nat
             /\ Reaches(r[j]) => Weight(r, j) * r[j] = Unit(r)
  <2>1. CASE Reaches(r[j])
    <3>1. PICK q \in Nat : Unit(r) = r[j] * q
      BY <1>3, <1>6, <2>1
    <3>2. r[j] \in Nat \ {0} /\ Unit(r) \in Int /\ q \in Int
      BY <1>0, <1>5
    <3>3. Unit(r) \div r[j] = q
      BY <3>1, <3>2, DivUnique
    <3>4. Weight(r, j) = q
      BY <2>1, <3>3 DEF Weight
    <3>5. r[j] * q = q * r[j]
      BY <3>2
    <3> QED
      BY <3>1, <3>4, <3>5
  <2>2. CASE ~Reaches(r[j])
    BY <2>2 DEF Weight
  <2> QED
    BY <2>1, <2>2
<1> QED
  BY <1>5, <1>7 DEF r

\* A mean by shifts is at most the true one
LEMMA ShiftsLe ==
  ASSUME RecipSound, NEW n \in DOMAIN Recip, NEW x \in Nat, NEW mod \in Nat \ {0},
         x < SizeMod \/ x = WinSze
  PROVE  /\ Shifts(x, Recip[n], mod) \in Nat
         /\ n * Shifts(x, Recip[n], mod) <= x
<1> DEFINE r == Recip[n]
           u == Unit(r)
           w1 == Weight(r, 1)
           w2 == Weight(r, 2)
           w3 == Weight(r, 3)
           q1 == x \div r[1]
           q2 == x \div r[2]
           q3 == x \div r[3]
<1>1. n \in Nat /\ \A k \in 1..3 : r[k] \in Nat \ {0}
  BY TableAssumption
<1>2. u \in Nat \ {0} /\ w1 \in Nat /\ w2 \in Nat /\ w3 \in Nat
  BY UnitDivides
<1>3. ASSUME NEW j \in 1..3
      PROVE  x \div r[j] \in Nat /\ (x \div r[j]) * u <= x * Weight(r, j)
  <2> DEFINE q == x \div r[j]
             d == r[j]
             w == Weight(r, j)
  <2>1. q \in Nat /\ q * d <= x /\ d \in Nat \ {0} /\ w \in Nat
    <3>1. d \in Nat \ {0} /\ w \in Nat
      BY <1>1, UnitDivides
    <3> QED
      BY <3>1, ShiftLe
  <2>2. CASE Reaches(r[j])
    <3>1. u = w * d
      BY <2>2, UnitDivides
    <3> HIDE DEF q, d, w, u
    <3>2. q * d \in Nat /\ (q * d) * w <= x * w
      <4>1. q * d \in Nat
        BY <2>1
      <4> QED
        BY <2>1, <4>1, ProductLe
    <3>3. q * u = (q * d) * w
      <4>1. q * (w * d) = (q * d) * w
        BY <2>1
      <4> QED
        BY <3>1, <4>1
    <3>4. q \in Nat /\ q * u <= x * w
      BY <2>1, <3>2, <3>3
    <3> QED
      BY <3>4 DEF q, w, u, d
  <2>3. CASE ~Reaches(r[j])
    <3>1. x < d
      BY <2>1, <2>3, ModAssumption, TrafficAssumption DEF Reaches
    <3>2. q = 0 /\ w = 0
      <4>1. q = 0
        <5> HIDE DEF q, d
        <5>1. CASE q >= 1
          <6>1. (q - 1) * d >= 0
            BY <2>1, <5>1
          <6>2. (q - 1) * d = q * d - d /\ q * d \in Int
            BY <2>1
          <6> QED
            BY <2>1, <3>1, <6>1, <6>2
        <5> QED
          BY <2>1, <5>1
      <4>2. w = 0
        BY <2>3 DEF Weight
      <4> QED
        BY <4>1, <4>2
    <3> QED
      BY <1>2, <3>2
  <2> QED
    BY <2>2, <2>3
<1>4. q1 \in Nat /\ q1 * u <= x * w1
  BY <1>3
<1>5. q2 \in Nat /\ q2 * u <= x * w2
  BY <1>3
<1>6. q3 \in Nat /\ q3 * u <= x * w3
  BY <1>3
<1>7. n * (w1 + w2 + w3) <= u
  BY DEF RecipSound
<1>8. Shifts(x, r, mod) = (q1 + q2 + q3) % mod
  BY DEF Shifts
<1> HIDE DEF u, w1, w2, w3, q1, q2, q3, r
<1> DEFINE s == q1 + q2 + q3
           w == w1 + w2 + w3
<1>9. s \in Nat /\ w \in Nat
  BY <1>2, <1>4, <1>5, <1>6
<1>10. s * u <= x * w
  <2>1. s * u = q1 * u + q2 * u + q3 * u
    BY <1>2, <1>4, <1>5, <1>6
  <2>2. x * w = x * w1 + x * w2 + x * w3
    BY <1>2
  <2>3. /\ q1 * u \in Int /\ q2 * u \in Int /\ q3 * u \in Int
        /\ x * w1 \in Int /\ x * w2 \in Int /\ x * w3 \in Int
    BY <1>2, <1>4, <1>5, <1>6
  <2> HIDE DEF s, w
  <2> QED
    BY <1>4, <1>5, <1>6, <2>1, <2>2, <2>3
<1>11. n * w <= u
  BY <1>7
<1> HIDE DEF s, w
<1>12. n * s <= x
  <2>1. n * s \in Nat /\ n * w \in Nat
    BY <1>1, <1>9
  <2>2. (s * u) * n <= (x * w) * n
    <3>1. s * u \in Nat /\ x * w \in Nat
      BY <1>2, <1>9
    <3> QED
      BY <1>1, <1>10, <3>1, ProductLe
  <2>3. (n * w) * x <= u * x
    BY <1>2, <1>11, <2>1, ProductLe
  <2>4. (n * s) * u = (s * u) * n
    BY <1>1, <1>2, <1>9
  <2>5. (x * w) * n = (n * w) * x
    BY <1>1, <1>9
  <2>6. u * x = x * u
    BY <1>2
  <2>7. (n * s) * u <= x * u
    <3>1. /\ (n * s) * u \in Int /\ (x * w) * n \in Int /\ u * x \in Int
          /\ (s * u) * n \in Int /\ (n * w) * x \in Int /\ x * u \in Int
      BY <1>1, <1>2, <1>9, <2>1
    <3> QED
      BY <2>2, <2>3, <2>4, <2>5, <2>6, <3>1
  <2> QED
    BY <1>2, <2>1, <2>7, CancelLe
<1>13. s % mod \in Nat /\ s % mod <= s
  <2>1. s % mod \in 0 .. mod - 1 /\ s \div mod \in Nat /\ s = mod * (s \div mod) + (s % mod)
    <3>1. s \in Int
      BY <1>9
    <3>2. s % mod \in 0 .. mod - 1 /\ s = mod * (s \div mod) + (s % mod)
      BY <3>1, DivMod
    <3>3. s \div mod \in Nat
      BY <1>9, ShiftLe
    <3> QED
      BY <3>2, <3>3
  <2>2. mod * (s \div mod) >= 0
    BY <2>1
  <2>3. mod * (s \div mod) \in Int
    BY <2>1
  <2> QED
    BY <1>9, <2>1, <2>2, <2>3
<1>14. n * (s % mod) <= x
  <2>1. (s % mod) * n <= s * n
    BY <1>1, <1>9, <1>13, ProductLe
  <2>2. (s % mod) * n = n * (s % mod) /\ s * n = n * s
    BY <1>1, <1>9, <1>13
  <2>3. n * (s % mod) \in Int /\ n * s \in Int
    BY <1>1, <1>9, <1>13
  <2> QED
    BY <1>12, <2>1, <2>2, <2>3
<1> QED
  BY <1>8, <1>13, <1>14 DEF s, r

\* A direction's features, when every count a register can hold has its entry
LEMMA FeaturesSound ==
  ASSUME RecipSound, RecipComplete, TypeOK, NEW d \in Dir, NEW i \in Slot
  PROVE  LET f == FeaturesOf(d, i)
         IN  /\ f.nb * f.meanSZ <= f.sum
             /\ f.nb * f.meanIAT <= WinSze
             /\ f.nb = 0 => f.meanSZ = 0 /\ f.meanIAT = 0
<1> DEFINE n == Nbelem[d][i]
           x == Sum_SZE[d][i]
           f == FeaturesOf(d, i)
<1>1. /\ n \in 0 .. CountMod - 1 /\ x \in Nat /\ x < SizeMod /\ WinSze \in Nat
      /\ SizeMod \in Nat \ {0} /\ TimeMod \in Nat \ {0} /\ CountMod \in Nat
  BY ModAssumption, TrafficAssumption DEF TypeOK, Bank
<1>2. f.nb = n /\ f.sum = x
  BY DEF FeaturesOf
<1>3. CASE n = 0
  <2>1. f.meanSZ = 0 /\ f.meanIAT = 0
    BY <1>3 DEF FeaturesOf, NoQuotient
  <2> QED
    BY <1>1, <1>2, <1>3, <2>1
<1>4. CASE n > 0
  <2>1. n \in DOMAIN Recip
    BY <1>1, <1>4 DEF RecipComplete
  <2>2. /\ f.meanSZ = Shifts(x, Recip[n], SizeMod)
        /\ f.meanIAT = Shifts(WinSze, Recip[n], TimeMod)
    BY <1>4, <2>1 DEF FeaturesOf, Divide
  <2>3. n * Shifts(x, Recip[n], SizeMod) <= x
    BY <1>1, <2>1, ShiftsLe
  <2>4. n * Shifts(WinSze, Recip[n], TimeMod) <= WinSze
    BY <1>1, <2>1, ShiftsLe
  <2> HIDE DEF n, x, f
  <2> QED
    BY <1>2, <1>4, <2>2, <2>3, <2>4 DEF f, n
<1> QED
  BY <1>1, <1>3, <1>4

MeansInv == TypeOK /\ HTypeOK /\ MeansSound

LEMMA MeansInvInit == HInit => MeansInv
<1> SUFFICES ASSUME HInit PROVE MeansInv
  OBVIOUS
<1>1. TypeOK /\ HTypeOK
  BY InitType, HInitType DEF HInit
<1>2. report = NoReport
  BY DEF HInit, Init
<1> QED
  BY <1>1, <1>2 DEF MeansInv, MeansSound

LEMMA MeansInvStep ==
  ASSUME RecipSound, RecipComplete, MeansInv,
         NEW p \in Traffic, NEW len \in TotalLen, NEW gap \in Gap, HArrival(p, len, gap)
  PROVE  MeansInv'
<1> DEFINE i == SlotOf(p)
<1>1. TypeOK' /\ HTypeOK'
  BY HArrivalType DEF MeansInv
<1>2. i \in Slot
  BY PacketType
<1>3. report' = NoReport \/ \A d \in Dir : report'.f[d] = FeaturesOf(d, i)
  BY DEF HArrival, Arrival, WindowEnds, WindowStarts, WindowContinues, Features
<1>4. MeansSound'
  <2> SUFFICES ASSUME report' # NoReport, NEW d \in Dir
               PROVE  /\ report'.f[d].nb * report'.f[d].meanSZ <= report'.f[d].sum
                      /\ report'.f[d].nb * report'.f[d].meanIAT <= WinSze
                      /\ report'.f[d].nb = 0 =>
                           report'.f[d].meanSZ = 0 /\ report'.f[d].meanIAT = 0
    BY DEF MeansSound
  <2>1. report'.f[d] = FeaturesOf(d, i)
    BY <1>3
  <2> QED
    BY <1>2, <2>1, FeaturesSound DEF MeansInv
<1> QED
  BY <1>1, <1>4 DEF MeansInv

\* Where the division tables hold an entry for every count, none above the inverse it
\* stands for, a reported mean never exceeds the true quotient, of the window's own
\* direction (Divide1, Divide2 and the action Pow).
THEOREM MeansNeverExceed ==
  ASSUME RecipSound, RecipComplete
  PROVE  HSpec => []MeansSound
<1>1. MeansInv /\ UNCHANGED <<vars, hist>> => MeansInv'
  BY DEF MeansInv, MeansSound, TypeOK, HTypeOK, vars, sums, means, hist
<1>2. MeansInv /\ [HNext]_<<vars, hist>> => MeansInv'
  BY <1>1, MeansInvStep DEF HNext
<1>3. MeansInv => MeansSound
  BY DEF MeansInv
<1> QED
  BY MeansInvInit, <1>2, <1>3, PTL DEF HSpec
--------------------------------------------------------------------------------
(* The tracker implements one separate window per conversation *)

RefInv == SizeInv /\ TimeInv

\* The abstract windows, one for each conversation
windows == [c \in UsedConv |-> SlotWindow(Hash[c])]

\* A packet changes the window of its own conversation only
LEMMA OwnWindow ==
  ASSUME CollisionFree, RefInv, RefInv', NEW p \in Traffic, NEW siz, NEW t,
         Opened(p, SlotOf(p), siz, t) \/ Joined(p, SlotOf(p), siz, t)
  PROVE  /\ ConvOf(p) \in UsedConv
         /\ windows' = [windows EXCEPT ![ConvOf(p)] = SlotWindow(SlotOf(p))']
<1> DEFINE i == SlotOf(p)
           c == ConvOf(p)
           d == DirOf(p)
<1>1. c \in UsedConv /\ Hash[c] = i
  BY DEF UsedConv, SlotOf
<1>2. \A x \in UsedConv : Hash[x] \in Slot
  BY TrafficAssumption DEF UsedConv, ConvOf
<1>3. /\ wStart \in [Slot -> Nat] /\ wCount \in [Dir -> [Slot -> Nat]]
      /\ wBytes \in [Dir -> [Slot -> Nat]] /\ d \in Dir
  BY DEF RefInv, TimeInv, HTypeOK, NatBank, DirOf, Dir
<1>4. ASSUME NEW j \in Slot, j # i
      PROVE  /\ wStart'[j] = wStart[j]
             /\ \A e \in Dir : wCount'[e][j] = wCount[e][j] /\ wBytes'[e][j] = wBytes[e][j]
  <2>1. CASE Opened(p, i, siz, t)
    BY <1>3, <1>4, <2>1 DEF Opened, Alone
  <2>2. CASE Joined(p, i, siz, t)
    <3>1. /\ wCount' = Put(wCount, d, i, wCount[d][i] + 1)
          /\ wBytes' = Put(wBytes, d, i, wBytes[d][i] + siz)
          /\ wStart' = wStart
      BY <2>2 DEF Joined
    <3> QED
      BY <1>3, <1>4, <3>1 DEF Put
  <2> QED
    BY <2>1, <2>2
<1>5. ASSUME NEW x \in UsedConv, x # c
      PROVE  SlotWindow(Hash[x])' = SlotWindow(Hash[x])
  <2>1. Hash[x] # i /\ Hash[x] \in Slot
    BY <1>1, <1>2, <1>5 DEF CollisionFree
  <2>2. /\ wStart'[Hash[x]] = wStart[Hash[x]]
        /\ \A e \in Dir : /\ wCount'[e][Hash[x]] = wCount[e][Hash[x]]
                          /\ wBytes'[e][Hash[x]] = wBytes[e][Hash[x]]
    BY <1>4, <2>1
  <2>3. /\ [e \in Dir |-> wCount'[e][Hash[x]]] = [e \in Dir |-> wCount[e][Hash[x]]]
        /\ [e \in Dir |-> wBytes'[e][Hash[x]]] = [e \in Dir |-> wBytes[e][Hash[x]]]
    BY <2>2
  <2> QED
    BY <2>2, <2>3 DEF SlotWindow
<1>6. windows' = [x \in UsedConv |-> SlotWindow(Hash[x])']
  BY DEF windows
<1>7. SlotWindow(Hash[c])' = SlotWindow(i)'
  BY <1>1
<1> QED
  BY <1>1, <1>5, <1>6, <1>7 DEF windows

LEMMA OpenedWindow ==
  ASSUME RefInv, NEW p \in Traffic, NEW siz, NEW t \in Nat \ {0}, Opened(p, SlotOf(p), siz, t)
  PROVE  SlotWindow(SlotOf(p))' = CW!Fresh(DirOf(p), siz, t)
<1> DEFINE i == SlotOf(p)
           d == DirOf(p)
<1>1. i \in Slot /\ wStart \in [Slot -> Nat] /\ wCount \in [Dir -> [Slot -> Nat]]
      /\ wBytes \in [Dir -> [Slot -> Nat]]
  BY TrafficAssumption DEF RefInv, TimeInv, HTypeOK, NatBank, SlotOf, ConvOf
<1>2. /\ wCount' = Alone(wCount, d, i, 1)
      /\ wBytes' = Alone(wBytes, d, i, siz)
      /\ wStart' = [wStart EXCEPT ![i] = t]
  BY DEF Opened
<1>3. wStart'[i] = t
  BY <1>1, <1>2
<1>4. /\ \A e \in Dir : wCount'[e][i] = IF e = d THEN 1 ELSE 0
      /\ \A e \in Dir : wBytes'[e][i] = IF e = d THEN siz ELSE 0
  BY <1>1, <1>2 DEF Alone
<1>5. /\ [e \in Dir |-> wCount'[e][i]] = [e \in Dir |-> IF e = d THEN 1 ELSE 0]
      /\ [e \in Dir |-> wBytes'[e][i]] = [e \in Dir |-> IF e = d THEN siz ELSE 0]
  BY <1>4
<1> QED
  BY <1>3, <1>5 DEF SlotWindow, CW!Fresh

LEMMA JoinedWindow ==
  ASSUME RefInv, NEW p \in Traffic, NEW siz, NEW t,
         wStart[SlotOf(p)] # 0, Joined(p, SlotOf(p), siz, t)
  PROVE  SlotWindow(SlotOf(p))' = CW!Joined(SlotWindow(SlotOf(p)), DirOf(p), siz)
<1> DEFINE i == SlotOf(p)
           d == DirOf(p)
           w == SlotWindow(i)
<1>1. i \in Slot /\ wStart \in [Slot -> Nat] /\ wCount \in [Dir -> [Slot -> Nat]]
      /\ wBytes \in [Dir -> [Slot -> Nat]] /\ d \in Dir
  BY TrafficAssumption DEF RefInv, TimeInv, HTypeOK, NatBank, SlotOf, ConvOf, DirOf, Dir
<1>2. /\ wCount' = Put(wCount, d, i, wCount[d][i] + 1)
      /\ wBytes' = Put(wBytes, d, i, wBytes[d][i] + siz)
      /\ wStart' = wStart
  BY DEF Joined
<1>3. /\ w.start = wStart[i]
      /\ w.count = [e \in Dir |-> wCount[e][i]]
      /\ w.bytes = [e \in Dir |-> wBytes[e][i]]
  BY DEF SlotWindow
<1>4. /\ \A e \in Dir : wCount'[e][i] = IF e = d THEN wCount[e][i] + 1 ELSE wCount[e][i]
      /\ \A e \in Dir : wBytes'[e][i] = IF e = d THEN wBytes[e][i] + siz ELSE wBytes[e][i]
  BY <1>1, <1>2 DEF Put
<1>5. /\ [e \in Dir |-> wCount'[e][i]]
           = [e \in Dir |-> IF e = d THEN w.count[e] + 1 ELSE w.count[e]]
      /\ [e \in Dir |-> wBytes'[e][i]]
           = [e \in Dir |-> IF e = d THEN w.bytes[e] + siz ELSE w.bytes[e]]
  BY <1>3, <1>4
<1>6. SlotWindow(i)' = [start |-> wStart[i],
                        count |-> [e \in Dir |-> wCount'[e][i]],
                        bytes |-> [e \in Dir |-> wBytes'[e][i]]]
  BY <1>2 DEF SlotWindow
<1> HIDE DEF w
<1> QED
  BY <1>3, <1>5, <1>6 DEF CW!Joined, w

\* A report says of the window what the abstract report says of it
LEMMA ReportMatches ==
  ASSUME NoneIsApart, RefInv, NEW p \in Traffic, NEW len, NEW t,
         WindowEnds(p, len, t), wStart[SlotOf(p)] # 0
  PROVE  AbsReport' = CW!ReportOf(ConvOf(p), SlotWindow(SlotOf(p)))
<1> DEFINE i == SlotOf(p)
           w == SlotWindow(i)
           f == Features(i)
           r == [slot |-> i, f |-> f, cg |-> IF IsCG(f) THEN 1 ELSE 0]
<1>1. i \in Slot
  BY TrafficAssumption DEF SlotOf, ConvOf
<1>2. report' = r
  BY DEF WindowEnds
<1>3. report' # NoReport
  <2>1. r \in Report
    BY <1>1, FeaturesType DEF RefInv, TimeInv, Report
  <2> QED
    BY <1>2, <2>1 DEF NoneIsApart
<1>4. /\ w.count = [e \in Dir |-> wCount[e][i]]
      /\ w.bytes = [e \in Dir |-> wBytes[e][i]]
  BY DEF SlotWindow
<1>5. ASSUME NEW e \in Dir
      PROVE  /\ f[e].nb = w.count[e] % CountMod
             /\ f[e].sum = w.bytes[e] % SizeMod
  <2>1. f[e].nb = Nbelem[e][i] /\ f[e].sum = Sum_SZE[e][i]
    BY DEF Features, FeaturesOf
  <2> QED
    BY <1>1, <1>4, <2>1 DEF RefInv, SizeInv, RegistersExact
<1>6. report'.slot = i /\ report'.f = f
  BY <1>2
<1>7. AbsReport' = [id |-> i, nb |-> [e \in Dir |-> f[e].nb], sum |-> [e \in Dir |-> f[e].sum]]
  BY <1>3, <1>6 DEF AbsReport
<1>8. /\ [e \in Dir |-> f[e].nb] = [e \in Dir |-> w.count[e] % CountMod]
      /\ [e \in Dir |-> f[e].sum] = [e \in Dir |-> w.bytes[e] % SizeMod]
  BY <1>5
<1>9. Hash[ConvOf(p)] = i
  BY DEF SlotOf
<1> HIDE DEF f, w, i
<1>10. CW!ReportOf(ConvOf(p), w)
         = [id |-> i, nb |-> [e \in Dir |-> w.count[e] % CountMod],
            sum |-> [e \in Dir |-> w.bytes[e] % SizeMod]]
  BY <1>9 DEF CW!ReportOf
<1> QED
  BY <1>7, <1>8, <1>10 DEF w, i

LEMMA RefineInit == HInit => CW!Init
<1> SUFFICES ASSUME HInit PROVE CW!Init
  OBVIOUS
<1>1. \A c \in UsedConv : SlotWindow(Hash[c]) = NoWindow
  BY TrafficAssumption DEF HInit, SlotWindow, UsedConv, ConvOf
<1>2. AbsReport = NoReport /\ clock = 1
  BY DEF HInit, Init, AbsReport
<1> QED
  BY <1>1, <1>2 DEF CW!Init

LEMMA RefineStep ==
  ASSUME CollisionFree, NoTimeWrap, NoneIsApart,
         RefInv, RefInv', NEW p \in Traffic, NEW len \in TotalLen, NEW gap \in Gap,
         HArrival(p, len, gap)
  PROVE  CW!Arrive(ConvOf(p), DirOf(p), Siz(len), gap)
<1> DEFINE t == clock + gap
           i == SlotOf(p)
           c == ConvOf(p)
           d == DirOf(p)
           siz == Siz(len)
<1>1. /\ (clock + gap) % TimeMod = t /\ clock' = t /\ t \in Nat \ {0}
      /\ t >= clock /\ t < TimeMod /\ clock + gap <= Horizon
  BY StampExact DEF RefInv, TimeInv, HArrival, Arrival
<1>2. d \in Dir /\ i \in Slot /\ Key[p] \in Int /\ Hash[c] = i
  BY PacketType DEF SlotOf
<1>3. /\ EndWin(i, t) <=> wStart[i] # 0 /\ t > wStart[i] + WinSze
      /\ Restart(i, Key[p]) <=> wStart[i] = 0
  BY <1>1, <1>2, WindowDecision DEF RefInv
<1>4. wStart[i] # 0 => SlotWindow(i) # NoWindow /\ SlotWindow(i).start = wStart[i]
  <2>1. wStart[i] \in Nat /\ [e \in Dir |-> wCount[e][i]] \in [Dir -> Nat]
        /\ [e \in Dir |-> wBytes[e][i]] \in [Dir -> Nat]
    BY <1>2 DEF RefInv, TimeInv, HTypeOK, NatBank
  <2> HIDE DEF i
  <2>2. ASSUME wStart[i] # 0 PROVE SlotWindow(i) \in Window /\ SlotWindow(i).start = wStart[i]
    BY <2>1, <2>2 DEF SlotWindow, Window
  <2> QED
    BY <2>2 DEF NoneIsApart
<1>5. \/ WindowEnds(p, len, t) \/ WindowStarts(p, len, t) \/ WindowContinues(p, len, t)
  BY <1>1 DEF HArrival, Arrival
<1>6. IF EndWin(i, t) \/ Restart(i, Key[p]) THEN Opened(p, i, siz, t) ELSE Joined(p, i, siz, t)
  BY <1>1 DEF HArrival
<1>7. c \in UsedConv /\ windows' = [windows EXCEPT ![c] = SlotWindow(i)']
  BY <1>6, OwnWindow
<1>8. windows[c] = SlotWindow(i)
  BY <1>2, <1>7 DEF windows
<1>9. CASE EndWin(i, t)
  <2>1. WindowEnds(p, len, t) /\ Opened(p, i, siz, t)
    BY <1>5, <1>6, <1>9 DEF WindowStarts, WindowContinues
  <2>2. SlotWindow(i)' = CW!Fresh(d, siz, t)
    BY <1>1, <2>1, OpenedWindow
  <2>3. AbsReport' = CW!ReportOf(c, windows[c])
    BY <1>3, <1>8, <1>9, <2>1, ReportMatches DEF RefInv, TimeInv
  <2>4. windows[c] # NoWindow /\ t > windows[c].start + WinSze
    BY <1>3, <1>4, <1>8, <1>9
  <2>5. windows' = [windows EXCEPT ![c] = CW!Fresh(d, siz, t)]
    BY <1>7, <2>2
  <2>6. CW!Close(c, d, siz, t)
    BY <2>3, <2>4, <2>5 DEF CW!Close, windows
  <2> QED
    BY <1>1, <2>6 DEF CW!Arrive
<1>10. CASE ~EndWin(i, t) /\ wStart[i] = 0
  <2>1. WindowStarts(p, len, t) /\ Opened(p, i, siz, t)
    BY <1>3, <1>5, <1>6, <1>10 DEF WindowEnds, WindowContinues
  <2>2. SlotWindow(i)' = CW!Fresh(d, siz, t)
    BY <1>1, <2>1, OpenedWindow
  <2>3. AbsReport' = NoReport
    BY <2>1 DEF WindowStarts, AbsReport
  <2>4. windows[c] = NoWindow
    BY <1>8, <1>10 DEF SlotWindow
  <2>5. windows' = [windows EXCEPT ![c] = CW!Fresh(d, siz, t)]
    BY <1>7, <2>2
  <2>6. CW!Open(c, d, siz, t)
    BY <2>3, <2>4, <2>5 DEF CW!Open, windows
  <2> QED
    BY <1>1, <2>6 DEF CW!Arrive
<1>11. CASE ~EndWin(i, t) /\ wStart[i] # 0
  <2>1. WindowContinues(p, len, t) /\ Joined(p, i, siz, t)
    BY <1>3, <1>5, <1>6, <1>11 DEF WindowEnds, WindowStarts
  <2>2. SlotWindow(i)' = CW!Joined(windows[c], d, siz)
    BY <1>8, <1>11, <2>1, JoinedWindow
  <2>3. AbsReport' = NoReport
    BY <2>1 DEF WindowContinues, AbsReport
  <2>4. windows[c] # NoWindow /\ t <= windows[c].start + WinSze
    <3>1. wStart[i] \in Nat /\ WinSze \in Nat
      BY <1>2, TrafficAssumption DEF RefInv, TimeInv, HTypeOK
    <3> QED
      BY <1>1, <1>3, <1>4, <1>8, <1>11, <3>1
  <2>5. windows' = [windows EXCEPT ![c] = CW!Joined(windows[c], d, siz)]
    BY <1>7, <2>2
  <2>6. CW!Join(c, d, siz, t)
    BY <2>3, <2>4, <2>5 DEF CW!Join, windows
  <2> QED
    BY <1>1, <2>6 DEF CW!Arrive
<1> QED
  BY <1>9, <1>10, <1>11

LEMMA RefineStutter == UNCHANGED <<vars, hist>> => UNCHANGED CW!vars
<1> SUFFICES ASSUME UNCHANGED <<vars, hist>> PROVE UNCHANGED CW!vars
  OBVIOUS
<1>1. /\ clock' = clock /\ report' = report
      /\ wStart' = wStart /\ wCount' = wCount /\ wBytes' = wBytes
  BY DEF vars, hist
<1>2. AbsReport' = AbsReport
  BY <1>1 DEF AbsReport
<1>3. \A c \in UsedConv : SlotWindow(Hash[c])' = SlotWindow(Hash[c])
  BY <1>1 DEF SlotWindow
<1>4. windows' = windows
  BY <1>3 DEF windows
<1> QED
  BY <1>1, <1>2, <1>4 DEF CW!vars, windows

\* Where crc16 separates the conversations in use and the clock does not wrap, the
\* registers, the hashed slots and the sentinel 0 implement one separate window for
\* each conversation, closed with exactly one report of its true counts (the apply
\* block of the ingress control).
THEOREM TrackerImplementsWindows ==
  ASSUME CollisionFree, NoTimeWrap, NoneIsApart
  PROVE  HSpec => Refinement
<1>1. RefInv /\ RefInv' /\ [HNext]_<<vars, hist>> => [CW!Next]_CW!vars
  <2>1. ASSUME RefInv, RefInv', NEW p \in Traffic, NEW len \in TotalLen, NEW gap \in Gap,
               HArrival(p, len, gap)
        PROVE  CW!Next
    <3>1. CW!Arrive(ConvOf(p), DirOf(p), Siz(len), gap)
      BY <2>1, RefineStep
    <3>2. ConvOf(p) \in UsedConv /\ DirOf(p) \in Dir /\ Siz(len) \in {Siz(l) : l \in TotalLen}
      BY DEF UsedConv, DirOf, Dir
    <3> QED
      BY <3>1, <3>2 DEF CW!Next
  <2> QED
    BY <2>1, RefineStutter DEF HNext
<1>2. HSpec => []RefInv
  <2>1. SizeInv /\ [HNext]_<<vars, hist>> => SizeInv'
    BY SizeInvStep, SizeInvStutter DEF HNext
  <2>2. SizeInv /\ TimeInv => RefInv
    BY DEF RefInv
  <2> QED
    BY SizeInvInit, <2>1, <2>2, TimeInvariant, PTL DEF HSpec
<1> QED
  BY RefineInit, <1>1, <1>2, PTL DEF HSpec, Refinement, CW!Spec
================================================================================
