------------------------------ MODULE FlowTracker ------------------------------
(***************************************************************************)
(* The UDP branch of the ingress control of My.p4: the per-conversation    *)
(* registers, the 33 ms window, and the report made when a window closes.  *)
(*                                                                         *)
(* A packet runs through the whole ingress control before the next one     *)
(* starts (the target has one ingress thread), so one packet is one step.  *)
(* A register array reg of the code is a function of its direction and     *)
(* slot: reg["UP"][i] is UP_reg at index i, reg["DW"][i] is DW_reg.        *)
(***************************************************************************)
EXTENDS Integers

CONSTANTS
  Addr,        \* IPv4 addresses
  LanAddr,     \* the addresses whose upper 16 bits are the entry of table Direc
  Traffic,     \* the <<source, destination>> pairs that exchange UDP packets
  TotalLen,    \* values of hdr.ipv4.totalLen
  Gap,         \* microseconds between two consecutive packets
  Slot,        \* register indices (0..1023 in the code)
  Hash,        \* crc16 of an ordered pair of addresses, reduced to a Slot
  Key,         \* srcAddr ++ dstAddr as a number
  WinSze,      \* WIN_SZE, in microseconds
  Recip,       \* entries of Divide1 and Divide2: count -> <<2^a, 2^b, 2^c>>
  IsCG(_),     \* the verdict of Feat0ruls..Feat11ruls followed by ActRules
  LenMod,      \* 2^16, the width of totalLen
  CountMod,    \* 2^12, the width of *_Nbelem
  SizeMod,     \* 2^32, the width of the size registers
  TimeMod,     \* 2^48, the width of the time registers
  KeyMod,      \* 2^64, the width of flow_tracker
  NoReport,    \* what a packet that closes no window reports
  Horizon      \* bound of the model: last arrival time

Dir == {"DW", "UP"}

ASSUME ModAssumption ==
  /\ LenMod \in Nat \ {0} /\ CountMod \in Nat \ {0} /\ SizeMod \in Nat \ {0}
  /\ TimeMod \in Nat \ {0} /\ KeyMod \in Nat \ {0}
  /\ CountMod > 1 /\ LenMod <= SizeMod

ASSUME TrafficAssumption ==
  /\ LanAddr \subseteq Addr
  /\ Traffic \subseteq Addr \X Addr
  /\ TotalLen \subseteq 0 .. LenMod - 1
  /\ Gap \subseteq Nat
  /\ Hash \in [Addr \X Addr -> Slot]
  /\ Key \in [Addr \X Addr -> 0 .. KeyMod - 1]
  /\ WinSze \in Nat /\ Horizon \in Nat

ASSUME TableAssumption ==
  /\ DOMAIN Recip \subseteq Nat \ {0}
  /\ \A n \in DOMAIN Recip : \A j \in 1..3 : Recip[n][j] \in Nat \ {0}

VARIABLES
  clock,           \* arrival time of the last packet, in microseconds since boot
  flow_tracker,    \* key of the conversation that owns a slot
  flow_frst_time,  \* start of the current window, 0 when there is none
  Nbelem,          \* packets in the current window
  Sum_SZE,         \* sum of the packet sizes
  Dlt_SZE,         \* sum of (size - last mean)^2
  Lst_Mu_SZE,      \* mean size of the last closed window
  flow_tst,        \* last arrival in the current window, 0 when there is none
  Dlt_IAT,         \* sum of (inter-arrival time - last mean)^2
  Lst_Mu_IAT,      \* mean inter-arrival time of the last closed window
  report           \* what the last packet reported

means == <<Lst_Mu_SZE, Lst_Mu_IAT>>
sums  == <<Nbelem, Sum_SZE, Dlt_SZE, flow_tst, Dlt_IAT>>
vars  == <<clock, flow_tracker, flow_frst_time, sums, means, report>>

Bank(mod) == [Dir -> [Slot -> 0 .. mod - 1]]

FeatureSet == [meanSZ : 0 .. SizeMod - 1, stdSZ : 0 .. SizeMod - 1,
               meanIAT : 0 .. TimeMod - 1, stdIAT : 0 .. TimeMod - 1,
               sum : 0 .. SizeMod - 1, nb : 0 .. CountMod - 1]

Report == [slot : Slot, f : [Dir -> FeatureSet], cg : {0, 1}]

\* Every register holds a value of its declared width, and a report carries
\* the twelve features and the one-bit verdict (register declarations of My.p4).
TypeOK ==
  /\ clock \in Nat
  /\ flow_tracker \in [Slot -> 0 .. KeyMod - 1]
  /\ flow_frst_time \in [Slot -> 0 .. TimeMod - 1]
  /\ Nbelem \in Bank(CountMod)
  /\ Sum_SZE \in Bank(SizeMod)
  /\ Dlt_SZE \in Bank(SizeMod)
  /\ Lst_Mu_SZE \in Bank(SizeMod)
  /\ flow_tst \in Bank(TimeMod)
  /\ Dlt_IAT \in Bank(TimeMod)
  /\ Lst_Mu_IAT \in Bank(TimeMod)
  /\ report \in Report \cup {NoReport}

--------------------------------------------------------------------------------
(* The packet *)

HeaderBytes == 28  \* minSizeInBytes of hdr.ipv4 (20) and hdr.udp (8)

\* siz: a 16-bit subtraction, zero-extended to 32 bits
Siz(len) == (len - HeaderBytes) % LenMod

DirOf(p) == IF p[1] \in LanAddr THEN "UP" ELSE "DW"

\* Mutant: the addresses are hashed in the order of the packet
ConvOfUnordered(p) == p

\* <<client side, server side>>, the order gen_hash receives the addresses in
ConvOf(p) == IF p[1] \in LanAddr THEN p ELSE <<p[2], p[1]>>

\* Mutant: the server address is left out of the hash
SlotOfClient(p) == Hash[<<ConvOf(p)[1], ConvOf(p)[1]>>]

SlotOf(p) == Hash[ConvOf(p)]

Other(d) == IF d = "UP" THEN "DW" ELSE "UP"

--------------------------------------------------------------------------------
(* gen_hash *)

\* mSwapSpace: meant to be non-zero when another conversation owns the slot
SwapSpace(i, k) == (((flow_tracker[i] - k) % KeyMod) * flow_tracker[i]) % KeyMod

\* Mutant: the test that a window is open is dropped
EndWinUnguarded(i, t) == (t - flow_frst_time[i]) % TimeMod > WinSze

\* mEndWin at arrival stamp t
EndWin(i, t) ==
  /\ flow_frst_time[i] # 0
  /\ (t - flow_frst_time[i]) % TimeMod > WinSze

\* the condition of the init branch that is left when the window has not ended
Restart(i, k) == SwapSpace(i, k) # 0 \/ flow_frst_time[i] = 0

\* Mutant: every packet moves the start of the window
GenHashSliding(i, k, t) ==
  /\ flow_frst_time' = [flow_frst_time EXCEPT ![i] = t]
  /\ UNCHANGED flow_tracker

\* Mutant: a window that ends does not write the start of the next one
GenHashOnce(i, k, t) ==
  /\ flow_frst_time' = [flow_frst_time EXCEPT ![i] = IF Restart(i, k) THEN t ELSE @]
  /\ UNCHANGED flow_tracker

GenHash(i, k, t) ==
  /\ flow_frst_time' =
       [flow_frst_time EXCEPT ![i] = IF EndWin(i, t) \/ Restart(i, k) THEN t ELSE @]
  /\ UNCHANGED flow_tracker

--------------------------------------------------------------------------------
(* Features: retrieveDW, retrieveUP, Divide1, Divide2 *)

\* x / y as x>>a + x>>b + x>>c
Shifts(x, r, mod) == (x \div r[1] + x \div r[2] + x \div r[3]) % mod

NoQuotient == [meanSZ |-> 0, stdSZ |-> 0, meanIAT |-> 0, stdIAT |-> 0]

\* Action Pow on a hit; a miss leaves the shared mMean*/mStd* metadata as it was
Divide(d, i, scratch) ==
  IF Nbelem[d][i] \in DOMAIN Recip
  THEN LET r == Recip[Nbelem[d][i]]
       IN  [meanSZ  |-> Shifts(Sum_SZE[d][i], r, SizeMod),
            stdSZ   |-> Shifts(Dlt_SZE[d][i], r, SizeMod),
            meanIAT |-> Shifts(WinSze, r, TimeMod),
            stdIAT  |-> Shifts(Dlt_IAT[d][i], r, TimeMod)]
  ELSE scratch

\* The shared metadata as Divide2 finds it: zeroed at the start of the packet,
\* then written by Divide1 unless the downlink is empty
ScratchOf(d, i) ==
  IF d = "UP" /\ Nbelem["DW"][i] > 0 THEN Divide("DW", i, NoQuotient) ELSE NoQuotient

\* Mutant: the test that the direction has packets is dropped
FeaturesOfUnguarded(d, i) ==
  LET q == Divide(d, i, ScratchOf(d, i))
  IN  [meanSZ |-> q.meanSZ, stdSZ |-> q.stdSZ, meanIAT |-> q.meanIAT,
       stdIAT |-> q.stdIAT, sum |-> Sum_SZE[d][i], nb |-> Nbelem[d][i]]

FeaturesOf(d, i) ==
  LET q == IF Nbelem[d][i] > 0 THEN Divide(d, i, ScratchOf(d, i)) ELSE NoQuotient
  IN  [meanSZ |-> q.meanSZ, stdSZ |-> q.stdSZ, meanIAT |-> q.meanIAT,
       stdIAT |-> q.stdIAT, sum |-> Sum_SZE[d][i], nb |-> Nbelem[d][i]]

Features(i) == [d \in Dir |-> FeaturesOf(d, i)]

--------------------------------------------------------------------------------
(* Register updates *)

Square(x, mod) == (((x % mod) * (x % mod)) % mod)

\* Mutant: the other direction keeps the closed window's value
ResetOneSide(reg, d, i, v) == [reg EXCEPT ![d] = [@ EXCEPT ![i] = v]]

\* Set register reg of slot i to v in direction d and to 0 in the other
Reset(reg, d, i, v) ==
  [reg EXCEPT ![d] = [@ EXCEPT ![i] = v], ![Other(d)] = [@ EXCEPT ![i] = 0]]

\* initDOWN, initUP; they read the mean that the closing window has just stored
InitWindow(d, i, siz, t) ==
  /\ Nbelem' = Reset(Nbelem, d, i, 1)
  /\ Sum_SZE' = Reset(Sum_SZE, d, i, siz)
  /\ Dlt_SZE' = Reset(Dlt_SZE, d, i,
       IF Lst_Mu_SZE'[d][i] # 0 THEN Square(siz - Lst_Mu_SZE'[d][i], SizeMod) ELSE 0)
  /\ flow_tst' = Reset(flow_tst, d, i, t)
  /\ Dlt_IAT' = Reset(Dlt_IAT, d, i, 0)

Put(reg, d, i, v) == [reg EXCEPT ![d] = [@ EXCEPT ![i] = v]]

Iat(d, i, t) == IF flow_tst[d][i] # 0 THEN (t - flow_tst[d][i]) % TimeMod ELSE 0

DltSze(d, i, siz) ==
  IF Lst_Mu_SZE[d][i] # 0
  THEN (Dlt_SZE[d][i] + Square(siz - Lst_Mu_SZE[d][i], SizeMod)) % SizeMod
  ELSE 0

\* Mutant: the test that there is an inter-arrival time is dropped
DltIatUnguarded(d, i, t) ==
  IF Lst_Mu_IAT[d][i] # 0
  THEN (Dlt_IAT[d][i] + Square(Iat(d, i, t) - Lst_Mu_IAT[d][i], TimeMod)) % TimeMod
  ELSE 0

DltIat(d, i, t) ==
  IF Lst_Mu_IAT[d][i] # 0 /\ Iat(d, i, t) # 0
  THEN (Dlt_IAT[d][i] + Square(Iat(d, i, t) - Lst_Mu_IAT[d][i], TimeMod)) % TimeMod
  ELSE 0

\* Mutant: the count is not cut to the width of its register
UpdateWide(d, i, siz, t) ==
  /\ Nbelem' = Put(Nbelem, d, i, Nbelem[d][i] + 1)
  /\ Sum_SZE' = Put(Sum_SZE, d, i, (Sum_SZE[d][i] + siz) % SizeMod)
  /\ Dlt_SZE' = Put(Dlt_SZE, d, i, DltSze(d, i, siz))
  /\ flow_tst' = Put(flow_tst, d, i, t)
  /\ Dlt_IAT' = Put(Dlt_IAT, d, i, DltIat(d, i, t))

\* updateDOWN, updateUP
Update(d, i, siz, t) ==
  /\ Nbelem' = Put(Nbelem, d, i, (Nbelem[d][i] + 1) % CountMod)
  /\ Sum_SZE' = Put(Sum_SZE, d, i, (Sum_SZE[d][i] + siz) % SizeMod)
  /\ Dlt_SZE' = Put(Dlt_SZE, d, i, DltSze(d, i, siz))
  /\ flow_tst' = Put(flow_tst, d, i, t)
  /\ Dlt_IAT' = Put(Dlt_IAT, d, i, DltIat(d, i, t))

--------------------------------------------------------------------------------
(* The apply block, for a packet p of length len at arrival stamp t *)

WindowEnds(p, len, t) ==
  LET i == SlotOf(p)
      f == Features(i)
  IN  /\ EndWin(i, t)
      /\ Lst_Mu_SZE' = [d \in Dir |-> [Lst_Mu_SZE[d] EXCEPT ![i] = f[d].meanSZ]]
      /\ Lst_Mu_IAT' = [d \in Dir |-> [Lst_Mu_IAT[d] EXCEPT ![i] = f[d].meanIAT]]
      /\ report' = [slot |-> i, f |-> f, cg |-> IF IsCG(f) THEN 1 ELSE 0]
      /\ InitWindow(DirOf(p), i, Siz(len), t)

WindowStarts(p, len, t) ==
  LET i == SlotOf(p)
  IN  /\ ~EndWin(i, t)
      /\ Restart(i, Key[p])
      /\ UNCHANGED means
      /\ report' = NoReport
      /\ InitWindow(DirOf(p), i, Siz(len), t)

WindowContinues(p, len, t) ==
  LET i == SlotOf(p)
  IN  /\ ~EndWin(i, t)
      /\ ~Restart(i, Key[p])
      /\ UNCHANGED means
      /\ report' = NoReport
      /\ Update(DirOf(p), i, Siz(len), t)

Arrival(p, len, gap) ==
  LET t == (clock + gap) % TimeMod
  IN  /\ clock + gap <= Horizon
      /\ clock' = clock + gap
      /\ GenHash(SlotOf(p), Key[p], t)
      /\ \/ WindowEnds(p, len, t)
         \/ WindowStarts(p, len, t)
         \/ WindowContinues(p, len, t)

Cleared == [d \in Dir |-> [i \in Slot |-> 0]]

\* Registers start at 0; the clock of the switch has started before its ports
Init ==
  /\ clock = 1
  /\ flow_tracker = [i \in Slot |-> 0]
  /\ flow_frst_time = [i \in Slot |-> 0]
  /\ Nbelem = Cleared
  /\ Sum_SZE = Cleared
  /\ Dlt_SZE = Cleared
  /\ Lst_Mu_SZE = Cleared
  /\ flow_tst = Cleared
  /\ Dlt_IAT = Cleared
  /\ Lst_Mu_IAT = Cleared
  /\ report = NoReport

Next == \E p \in Traffic, len \in TotalLen, gap \in Gap : Arrival(p, len, gap)

Spec == Init /\ [][Next]_vars
================================================================================
