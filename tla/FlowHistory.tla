------------------------------ MODULE FlowHistory ------------------------------
(***************************************************************************)
(* The flow tracker with history variables that record, for the window     *)
(* each slot currently holds, what really arrived in it: true times,       *)
(* unbounded counts and sums, and the conversations the packets belong to. *)
(* The history never guards a step of the tracker (MaxCount only bounds    *)
(* the model); it says what the registers are supposed to mean, and is the *)
(* witness of the refinement of ConversationWindows.                       *)
(***************************************************************************)
EXTENDS FlowTracker, FiniteSets

CONSTANTS
  NoWindow,  \* the abstract value of a slot without a window
  MaxCount   \* bound of the model: packets in a window

ASSUME BoundAssumption == MaxCount \in Nat

VARIABLES
  wStart,   \* arrival time of the window's first packet, 0 when there is none
  wCount,   \* packets of the window
  wBytes,   \* sum of their sizes
  wDev,     \* sum of (size - last mean)^2, over the integers
  wIatDev,  \* sum of (inter-arrival time - last mean)^2, over the integers
  wLast,    \* arrival time of the last packet, 0 when there is none
  wTie,     \* two packets of the direction arrived in the same microsecond
  wPeers    \* {source, destination} of the packets

hist == <<wStart, wCount, wBytes, wDev, wIatDev, wLast, wTie, wPeers>>

NatBank == [Dir -> [Slot -> Nat]]

HTypeOK ==
  /\ wStart \in [Slot -> Nat]
  /\ wCount \in NatBank
  /\ wBytes \in NatBank
  /\ wDev \in NatBank
  /\ wIatDev \in NatBank
  /\ wLast \in NatBank
  /\ wTie \in [Dir -> [Slot -> BOOLEAN]]
  /\ wPeers \in [Slot -> SUBSET (SUBSET Addr)]

--------------------------------------------------------------------------------

SqInt(x) == x * x

\* What one packet adds to the two deviation sums; a last mean of 0 means
\* there is no mean to deviate from
SizeDev(siz, mu) == IF mu # 0 THEN SqInt(siz - mu) ELSE 0

IatDev(d, i, t) ==
  IF wCount[d][i] > 0 /\ Lst_Mu_IAT[d][i] # 0
  THEN SqInt((t - wLast[d][i]) - Lst_Mu_IAT[d][i])
  ELSE 0

\* The window of slot i holds v in direction d and nothing in the other
Alone(bank, d, i, v) ==
  [e \in Dir |-> [bank[e] EXCEPT ![i] = IF e = d THEN v ELSE 0]]

\* The packet opens the window of slot i, which forgets the previous one
Opened(p, i, siz, t) ==
  LET d == DirOf(p)
  IN  /\ wStart' = [wStart EXCEPT ![i] = t]
      /\ wCount' = Alone(wCount, d, i, 1)
      /\ wBytes' = Alone(wBytes, d, i, siz)
      /\ wDev' = Alone(wDev, d, i, SizeDev(siz, Lst_Mu_SZE'[d][i]))
      /\ wIatDev' = Alone(wIatDev, d, i, 0)
      /\ wLast' = Alone(wLast, d, i, t)
      /\ wTie' = [e \in Dir |-> [wTie[e] EXCEPT ![i] = FALSE]]
      /\ wPeers' = [wPeers EXCEPT ![i] = {{p[1], p[2]}}]

\* The packet joins the window of slot i
Joined(p, i, siz, t) ==
  LET d == DirOf(p)
  IN  /\ wCount["DW"][i] + wCount["UP"][i] < MaxCount
      /\ wCount' = Put(wCount, d, i, wCount[d][i] + 1)
      /\ wBytes' = Put(wBytes, d, i, wBytes[d][i] + siz)
      /\ wDev' = Put(wDev, d, i, wDev[d][i] + SizeDev(siz, Lst_Mu_SZE[d][i]))
      /\ wIatDev' = Put(wIatDev, d, i, wIatDev[d][i] + IatDev(d, i, t))
      /\ wLast' = Put(wLast, d, i, t)
      /\ wTie' = Put(wTie, d, i, wTie[d][i] \/ (wCount[d][i] > 0 /\ wLast[d][i] = t))
      /\ wPeers' = [wPeers EXCEPT ![i] = @ \cup {{p[1], p[2]}}]
      /\ UNCHANGED wStart

\* The tracker's step for the packet, and what it means for the history
HArrival(p, len, gap) ==
  LET i == SlotOf(p)
      t == (clock + gap) % TimeMod
  IN  /\ Arrival(p, len, gap)
      /\ IF EndWin(i, t) \/ Restart(i, Key[p])
         THEN Opened(p, i, Siz(len), clock')
         ELSE Joined(p, i, Siz(len), clock')

HInit ==
  /\ Init
  /\ wStart = [i \in Slot |-> 0]
  /\ wCount = Cleared
  /\ wBytes = Cleared
  /\ wDev = Cleared
  /\ wIatDev = Cleared
  /\ wLast = Cleared
  /\ wTie = [d \in Dir |-> [i \in Slot |-> FALSE]]
  /\ wPeers = [i \in Slot |-> {}]

HNext == \E p \in Traffic, len \in TotalLen, gap \in Gap : HArrival(p, len, gap)

HSpec == HInit /\ [][HNext]_<<vars, hist>>

--------------------------------------------------------------------------------
(* Properties *)

\* The count, the size sum and the size deviation of the open window are the
\* true ones modulo the register widths, whatever interleaving of directions,
\* windows and collisions led there (init* and update* of My.p4 against the
\* "Directional registers" of Readme.md).
RegistersExact ==
  \A d \in Dir, i \in Slot :
    /\ Nbelem[d][i] = wCount[d][i] % CountMod
    /\ Sum_SZE[d][i] = wBytes[d][i] % SizeMod
    /\ Dlt_SZE[d][i] = wDev[d][i] % SizeMod

\* No packet is accounted to a window that started more than WIN_SZE before it
\* arrived, in either direction, although nothing but the next packet of the
\* slot ever ends a window (mEndWin of gen_hash).
WindowSpan ==
  \A d \in Dir, i \in Slot :
    wCount[d][i] > 0 => /\ wStart[i] <= wLast[d][i]
                        /\ wLast[d][i] <= wStart[i] + WinSze

\* The inter-arrival deviation of the open window is the true one, as long as
\* no two packets of its direction shared a microsecond (sumIatDlt).
IatDevExactWithoutTies ==
  \A d \in Dir, i \in Slot :
    ~wTie[d][i] => Dlt_IAT[d][i] = wIatDev[d][i] % TimeMod

\* A reported mean never exceeds the quotient it stands for, and belongs to the
\* direction it is reported for: the metadata Divide1 and Divide2 share never
\* carries the downlink mean into the uplink features (action Pow).
MeansSound ==
  report # NoReport =>
    \A d \in Dir :
      /\ report.f[d].nb * report.f[d].meanSZ <= report.f[d].sum
      /\ report.f[d].nb * report.f[d].meanIAT <= WinSze
      /\ report.f[d].nb = 0 => report.f[d].meanSZ = 0 /\ report.f[d].meanIAT = 0

\* The two directions of a conversation between a LAN and a WAN host are
\* accounted together: they are never spread over two windows (the argument
\* order of gen_hash in the apply block).
DirectionsMeet ==
  \A a \in LanAddr, b \in Addr \ LanAddr :
    Cardinality({i \in Slot : {a, b} \in wPeers[i]}) <= 1

\* A window never mixes the packets of two conversations: "Collision (2
\* conversations have same ind)" restarts it (Readme.md, Metadata).
OneConversationPerWindow == \A i \in Slot : Cardinality(wPeers[i]) <= 1

--------------------------------------------------------------------------------
(* Refinement *)

UsedConv == {ConvOf(p) : p \in Traffic}

\* crc16 separates the conversations in use
CollisionFree == \A c, e \in UsedConv : Hash[c] = Hash[e] => c = e

\* The clock does not reach the width of the time registers (2^48 us are 8.9 years)
NoTimeWrap == Horizon < TimeMod

\* A shift by d leaves something of a size sum or of the length of a window
Reaches(d) == d < SizeMod \/ d <= WinSze

Unit(r) ==
  LET factor == [j \in 1..3 |-> IF Reaches(r[j]) THEN r[j] ELSE 1]
  IN  factor[1] * factor[2] * factor[3]

\* 1/r[j] in units of 1/Unit(r)
Weight(r, j) == IF Reaches(r[j]) THEN Unit(r) \div r[j] ELSE 0

\* The entries of the division tables never exceed 1/n: 1/r1 + 1/r2 + 1/r3 <= 1/n,
\* without the padding, which shifts everything out
RecipSound ==
  \A n \in DOMAIN Recip :
    LET r == Recip[n]
    IN  n * (Weight(r, 1) + Weight(r, 2) + Weight(r, 3)) <= Unit(r)

\* The division tables have an entry for every count a register can hold
RecipComplete == 1 .. CountMod - 1 \subseteq DOMAIN Recip

Window == [start : Nat, count : [Dir -> Nat], bytes : [Dir -> Nat]]

\* What stands for none is neither a window nor a report
NoneIsApart == NoReport \notin Report /\ NoWindow \notin Window

SlotWindow(i) ==
  IF wStart[i] = 0 THEN NoWindow
  ELSE [start |-> wStart[i],
        count |-> [d \in Dir |-> wCount[d][i]],
        bytes |-> [d \in Dir |-> wBytes[d][i]]]

AbsReport ==
  IF report = NoReport THEN NoReport
  ELSE [id   |-> report.slot,
        nb   |-> [d \in Dir |-> report.f[d].nb],
        sum  |-> [d \in Dir |-> report.f[d].sum]]

CW == INSTANCE ConversationWindows WITH
        Conv <- UsedConv,
        Id <- Hash,
        Size <- {Siz(len) : len \in TotalLen},
        win <- [c \in UsedConv |-> SlotWindow(Hash[c])],
        report <- AbsReport

\* The registers implement one separate window per conversation
Refinement == CW!Spec
================================================================================
