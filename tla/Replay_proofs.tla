------------------------------ MODULE Replay_proofs ------------------------------
(***************************************************************************)
(* A replay is one, for all captures, all command lines, any number of     *)
(* failures and an abort at any moment: aborts are prompt, the counters    *)
(* agree, each pass sends its files once and in their order, at the pace   *)
(* of the capture, and with addresses of its own.                          *)
(***************************************************************************)
EXTENDS Replay, FiniteSetTheorems, TLAPS

\* The loop looks at ctx->abort before it takes a packet and never between that and the
\* send: so after the abort it sends the packet at hand and takes no other, and below the
\* limit it takes one packet at a time.
AbortInv ==
  /\ opt \in Options
  /\ sent \in Nat /\ late \in 0 .. 1
  /\ ~abort => late = 0
  /\ late = 1 => pc # "send"
  /\ opt.limit > 0 =>
       /\ sent <= opt.limit
       /\ ~abort \/ pc = "send" => sent < opt.limit

LEMMA Limit == \A o \in Options : o.limit \in Nat
BY OptionsAssumption

LEMMA AbortInit == Init => AbortInv
BY Limit DEF Init, AbortInv

\* The actions that neither send nor count
LEMMA AbortQuiet ==
  ASSUME AbortInv, UNCHANGED <<opt, abort, sent, late>>, pc' # "send" \/ pc = "send"
  PROVE  AbortInv'
BY Limit DEF AbortInv

LEMMA AbortNext == AbortInv /\ [Next]_vars => AbortInv'
<1> SUFFICES ASSUME AbortInv, [Next]_vars PROVE AbortInv'
  OBVIOUS
<1>1. CASE Loop
  BY <1>1, AbortQuiet DEF Loop, stop, stats, hist
<1>2. CASE OpenFails
  BY <1>2, AbortQuiet DEF OpenFails, Index, stop, stats, hist
<1>3. CASE Open
  BY <1>3, AbortQuiet DEF Open, stop, stats, hist
<1>4. CASE IndexEnds
  BY <1>4, AbortQuiet DEF IndexEnds, stop, stats, hist
<1>5. ASSUME NEW k \in 1 .. 2, NoSend(k) PROVE AbortInv'
  BY <1>5, AbortQuiet DEF NoSend, Take, stop, stats, hist
<1>6. ASSUME NEW k \in 1 .. 2, EditFails(k) PROVE AbortInv'
  BY <1>6, AbortQuiet DEF EditFails, Take, stop
<1>7. ASSUME NEW k \in 1 .. 2, Prepare(k) PROVE AbortInv'
  <2>1. pc' = "send" /\ ~abort /\ UNCHANGED <<opt, abort, sent, late>>
    BY <1>7 DEF Prepare, Take, stop, stats, hist
  <2> QED
    BY <2>1, Limit DEF AbortInv
<1>8. CASE FileEnds
  BY <1>8, AbortQuiet DEF FileEnds, stop, stats
<1>9. CASE Transmit
  <2>1. /\ pc = "send" /\ pc' = "head" /\ opt' = opt /\ sent' = sent + 1
        /\ late' = IF abort THEN late + 1 ELSE late
    BY <1>9 DEF Transmit
  <2>2. PICK expired \in {FALSE, opt.timed} : abort' = (abort \/ expired \/ LimitReached(sent + 1))
    BY <1>9 DEF Transmit
  <2>3. abort => abort'
    BY <2>2
  <2>4. LimitReached(sent + 1) => abort'
    BY <2>2
  <2>5. late' \in 0 .. 1 /\ (~abort' => late' = 0)
    BY <2>1, <2>3 DEF AbortInv
  <2>6. opt.limit > 0 => sent' <= opt.limit /\ (~abort' => sent' < opt.limit)
    BY <2>1, <2>4, Limit DEF AbortInv, LimitReached
  <2> QED
    BY <2>1, <2>5, <2>6, Limit DEF AbortInv
<1>10. CASE SendFails
  BY <1>10, AbortQuiet DEF SendFails, stop
<1>11. CASE AbortStep
  <2>1. UNCHANGED <<opt, pc, sent, late>> /\ (abort => abort')
    BY <1>11 DEF AbortStep, Abort, stats, hist
  <2> QED
    BY <2>1, Limit DEF AbortInv
<1>12. CASE UNCHANGED vars
  BY <1>12, AbortQuiet DEF vars, stop, stats, hist
<1> QED
  BY <1>1, <1>2, <1>3, <1>4, <1>5, <1>6, <1>7, <1>8, <1>9, <1>10, <1>11, <1>12 DEF Next, Step

\* After an abort at most the packet at hand is sent, and the limit is never exceeded
\* (send_packets and send_dual_packets).
THEOREM AbortsArePrompt == Spec => []AbortIsPrompt
<1>1. AbortInv => AbortIsPrompt
  BY DEF AbortInv, AbortIsPrompt
<1> QED
  BY <1>1, AbortInit, AbortNext, PTL DEF Spec

--------------------------------------------------------------------------------
(* The counters *)

\* Files and caches are at a packet or before the first
PosInv ==
  /\ pos = [k \in 1 .. 2 |-> pos[k]] /\ \A k \in 1 .. 2 : pos[k] \in Nat
  /\ data = [k \in 1 .. 2 |-> data[k]]

LEMMA AheadIsNat ==
  ASSUME NEW k, NEW p \in Nat
  PROVE  Ahead(k, p).pos \in Nat /\ Ahead(k, p).data \in Nat
BY DEF Ahead

LEMMA PosTake ==
  ASSUME PosInv, NEW k \in 1 .. 2, Take(k)
  PROVE  PosInv'
<1>1. CASE opt.dual
  BY <1>1 DEF Take, Fetched, PosInv
<1>2. CASE ~opt.dual
  BY <1>2, AheadIsNat DEF Take, Fetched, PosInv
<1> QED
  BY <1>1, <1>2

LEMMA PosNext == PosInv /\ [Next]_vars => PosInv'
<1> SUFFICES ASSUME PosInv, [Next]_vars PROVE PosInv'
  OBVIOUS
<1>1. CASE Loop \/ OpenFails \/ IndexEnds \/ FileEnds \/ SendFails \/ AbortStep \/ UNCHANGED vars
  <2>1. pos' = pos /\ data' = data
    BY <1>1 DEF Loop, OpenFails, IndexEnds, FileEnds, SendFails, AbortStep, vars, file
  <2> QED
    BY <2>1 DEF PosInv
<1>2. CASE Open
  <2>1. /\ pos' = [k \in 1 .. 2 |-> IF opt.dual THEN Ahead(k, 0).pos ELSE 0]
        /\ data' = [k \in 1 .. 2 |-> IF opt.dual THEN Ahead(k, 0).data ELSE 0]
    BY <1>2 DEF Open
  <2> QED
    BY <2>1, AheadIsNat DEF PosInv
<1>3. ASSUME NEW k \in 1 .. 2, NoSend(k) \/ EditFails(k) \/ Prepare(k) PROVE PosInv'
  BY <1>3, PosTake DEF NoSend, EditFails, Prepare
<1>4. CASE Transmit
  <2>1. /\ pos' = pos \/ pos' = [pos EXCEPT ![out[1]] = Ahead(out[1], @).pos]
        /\ data' = data \/ data' = [data EXCEPT ![out[1]] = Ahead(out[1], pos[out[1]]).data]
    BY <1>4 DEF Transmit
  <2> QED
    BY <2>1, AheadIsNat DEF PosInv
<1> QED
  BY <1>1, <1>2, <1>3, <1>4 DEF Next, Step

\* Only interfaces that were told to abort do not count, and they are told after the loop
CountInv ==
  /\ AbortInv /\ PosInv
  /\ out[1] \in 1 .. 2 /\ out[2] \in 1 .. 2
  /\ caller \in {"idle", "intf1", "intf2", "back"}
  /\ caller # "idle" => abort
  /\ spSent[1] \in Nat /\ spSent[2] \in Nat /\ DOMAIN spSent = 1 .. 2
  /\ \A s \in 1 .. 2 : spAbort[s] => caller # "idle"
  /\ sent - spSent[1] - spSent[2] \in 0 .. late
  /\ sent # spSent[1] + spSent[2] => caller # "idle"

LEMMA CountInit == Init => CountInv
BY AbortInit DEF Init, CountInv, PosInv

LEMMA CountQuiet ==
  ASSUME CountInv, AbortInv' /\ PosInv',
         UNCHANGED <<out, caller, abort, spAbort, spSent, sent, late>>
  PROVE  CountInv'
BY DEF CountInv

\* sp of a packet that is taken is one of the two interfaces
LEMMA OneOfTwo ==
  ASSUME opt \in Options, PosInv, NEW k \in 1 .. 2, Take(k), Interface(k, Fetched[k]) # 0
  PROVE  Interface(k, Fetched[k]) \in 1 .. 2
<1>1. opt.dual \in BOOLEAN /\ opt.route \in Seq(0 .. 2)
  BY OptionsAssumption
<1>2. CASE opt.dual \/ opt.route = <<>>
  BY <1>2 DEF Interface
<1>3. CASE ~opt.dual /\ opt.route # <<>>
  <2>1. k = 1 /\ Sides = {1}
    BY <1>3 DEF Take, Merge, Sides
  <2>2. Fetched[1] # 0
    BY <2>1 DEF Take, HasPacket
  <2>3. Fetched[1] = Ahead(1, pos[1]).data
    BY <1>3 DEF Fetched, PosInv
  <2>4. Fetched[1] \in Nat \ {0}
    BY <2>2, <2>3, AheadIsNat DEF PosInv
  <2>5. Fetched[1] <= Len(opt.route) => opt.route[Fetched[1]] \in 0 .. 2
    BY <1>1, <2>4
  <2> QED
    BY <1>3, <2>1, <2>5 DEF Interface
<1> QED
  BY <1>2, <1>3

LEMMA CountNext == CountInv /\ [Next]_vars => CountInv'
<1> SUFFICES ASSUME CountInv, [Next]_vars PROVE CountInv'
  OBVIOUS
<1>0. AbortInv' /\ PosInv'
  BY AbortNext, PosNext DEF CountInv
<1>1. CASE Loop
  BY <1>0, <1>1, CountQuiet DEF Loop, file, stop, stats, hist
<1>2. CASE OpenFails
  BY <1>0, <1>2, CountQuiet DEF OpenFails, file, stop, stats, hist
<1>3. CASE Open
  BY <1>0, <1>3, CountQuiet DEF Open, stop, stats, hist
<1>4. CASE IndexEnds
  BY <1>0, <1>4, CountQuiet DEF IndexEnds, file, stop, stats, hist
<1>5. ASSUME NEW k \in 1 .. 2, NoSend(k) PROVE CountInv'
  BY <1>0, <1>5, CountQuiet DEF NoSend, stop, stats, hist
<1>6. ASSUME NEW k \in 1 .. 2, EditFails(k) PROVE CountInv'
  BY <1>0, <1>6, CountQuiet DEF EditFails, stop
<1>7. ASSUME NEW k \in 1 .. 2, Prepare(k) PROVE CountInv'
  <2>1. /\ UNCHANGED <<caller, abort, spAbort, spSent, sent, late>>
        /\ out' = <<k, Interface(k, Fetched[k])>> /\ Interface(k, Fetched[k]) # 0
    BY <1>7 DEF Prepare, stop, stats, hist
  <2>2. Interface(k, Fetched[k]) \in 1 .. 2
    BY <1>7, <2>1, OneOfTwo DEF CountInv, AbortInv, Prepare
  <2> QED
    BY <1>0, <2>1, <2>2 DEF CountInv
<1>8. CASE FileEnds
  BY <1>0, <1>8, CountQuiet DEF FileEnds, file, stop, stats
<1>9. CASE Transmit
  <2> DEFINE s == out[2]
  <2>1. /\ pc = "send" /\ sent' = sent + 1 /\ UNCHANGED <<out, spAbort, caller>>
        /\ late' = IF abort THEN late + 1 ELSE late
        /\ spSent' = IF spAbort[s] THEN spSent ELSE [spSent EXCEPT ![s] = @ + 1]
    BY <1>9 DEF Transmit
  <2>2. late = 0 /\ sent \in Nat /\ s \in 1 .. 2
    BY <2>1 DEF CountInv, AbortInv
  <2>3. sent = spSent[1] + spSent[2]
    BY <2>2 DEF CountInv
  <2>4. caller # "idle" => abort'
    BY <1>9 DEF Transmit, CountInv
  <2>5. CASE spAbort[s]
    <3>1. caller # "idle" /\ late' = 1 /\ spSent' = spSent
      BY <2>1, <2>2, <2>5 DEF CountInv
    <3> QED
      BY <1>0, <2>1, <2>2, <2>3, <2>4, <3>1 DEF CountInv
  <2>6. CASE ~spAbort[s]
    <3>1. /\ spSent'[1] \in Nat /\ spSent'[2] \in Nat /\ DOMAIN spSent' = 1 .. 2
          /\ spSent'[1] + spSent'[2] = spSent[1] + spSent[2] + 1
      BY <2>1, <2>2, <2>6 DEF CountInv
    <3>2. late' \in 0 .. 1
      BY <1>0 DEF AbortInv
    <3> QED
      BY <1>0, <2>1, <2>2, <2>3, <2>4, <3>1, <3>2 DEF CountInv
  <2> QED
    BY <2>5, <2>6
<1>10. CASE SendFails
  BY <1>0, <1>10, CountQuiet DEF SendFails, file, stop
<1>11. CASE AbortStep
  <2>1. UNCHANGED <<out, spSent, sent, late>>
    BY <1>11 DEF AbortStep, file, stats, hist
  <2>2. /\ abort' = TRUE /\ caller' \in {"intf1", "intf2", "back"}
    BY <1>11 DEF AbortStep, Abort, CountInv
  <2> QED
    BY <1>0, <2>1, <2>2 DEF CountInv
<1>12. CASE UNCHANGED vars
  BY <1>0, <1>12, CountQuiet DEF vars, file, stop, stats, hist
<1> QED
  BY <1>1, <1>2, <1>3, <1>4, <1>5, <1>6, <1>7, <1>8, <1>9, <1>10, <1>11, <1>12 DEF Next, Step

\* The total and the counters of the interfaces differ by the one packet that an aborted
\* interface sends without counting it, and only after an abort (sendpacket).
THEOREM CountersAgree == Spec => []StatsAgree
<1>1. CountInv => StatsAgree
  BY DEF CountInv, AbortInv, StatsAgree
<1> QED
  BY <1>1, CountInit, CountNext, PTL DEF Spec

--------------------------------------------------------------------------------
(* Where in the files the loops are *)

InFile == pc \in {"head", "send"}

PlaceInv ==
  /\ opt \in Options
  /\ pc \in {"loop", "index", "head", "send", "done"}
  /\ idx \in Nat \ {0}
  /\ opt.dual => idx % 2 = 1
  /\ pos \in [1 .. 2 -> Nat] /\ data \in [1 .. 2 -> Nat]
  /\ InFile => \A k \in Sides :
       /\ idx + k - 1 <= Len(opt.pcap)
       /\ pos[k] <= Len(File(k))
       /\ opt.dual => data[k] <= Len(File(k)) /\ (data[k] # 0 => pos[k] = data[k])
  /\ pc = "send" =>
       /\ out[1] \in Sides
       /\ data[out[1]] # 0 /\ pos[out[1]] = data[out[1]]

\* How many packets of a file this pass has dealt with: sent, given up or left out
Done(k) ==
  IF opt.dual THEN (IF data[k] = 0 THEN Len(File(k)) ELSE data[k] - 1)
  ELSE (IF pc = "send" THEN data[1] - 1 ELSE pos[1])

\* Captures and command lines
LEMMA OptionTypes ==
  ASSUME opt \in Options
  PROVE  /\ opt.dual \in BOOLEAN /\ opt.pcap \in Seq(Seq([ts : Nat \ {0}, kind : Kind]))
         /\ opt.dual => Len(opt.pcap) % 2 = 0 /\ opt.route = <<>>
  BY OptionsAssumption

\* The elements of a sequence
LEMMA Elements ==
  ASSUME NEW S, NEW s \in Seq(S)
  PROVE  Len(s) \in Nat /\ DOMAIN s = 1 .. Len(s) /\ \A i \in 1 .. Len(s) : s[i] \in S
  OBVIOUS

\* The packets of a file
LEMMA Files ==
  ASSUME opt \in Options, NEW f \in 1 .. Len(opt.pcap)
  PROVE  /\ Len(opt.pcap[f]) \in Nat /\ DOMAIN opt.pcap[f] = 1 .. Len(opt.pcap[f])
         /\ \A i \in 1 .. Len(opt.pcap[f]) : opt.pcap[f][i].ts \in Nat \ {0}
  <1>1. opt.pcap[f] \in Seq([ts : Nat \ {0}, kind : Kind])
    BY OptionTypes
  <1>2. /\ Len(opt.pcap[f]) \in Nat /\ DOMAIN opt.pcap[f] = 1 .. Len(opt.pcap[f])
        /\ \A i \in 1 .. Len(opt.pcap[f]) : opt.pcap[f][i] \in [ts : Nat \ {0}, kind : Kind]
    BY <1>1, Elements, Zenon
  <1> QED BY <1>1, <1>2

\* One file or two at a time
LEMMA SidesAre ==
  ASSUME opt \in Options
  PROVE  /\ opt.dual => Sides = {1, 2} /\ Cardinality(Sides) = 2
         /\ ~opt.dual => Sides = {1} /\ Cardinality(Sides) = 1
  <1>1. opt.dual => Sides = {1, 2}
    BY DEF Sides
  <1>2. ~opt.dual => Sides = {1}
    BY DEF Sides
  <1>3. IsFiniteSet({1}) /\ Cardinality({1}) = 1
    BY FS_Singleton
  <1>4. Cardinality({1} \cup {2}) = 1 + 1
    BY <1>3, FS_AddElement
  <1>5. {1} \cup {2} = {1, 2} /\ 1 + 1 = 2
    OBVIOUS
  <1> QED BY <1>1, <1>2, <1>3, <1>4, <1>5

\* get_next_packet
LEMMA AheadIs ==
  ASSUME NEW k, NEW p \in Nat, Len(File(k)) \in Nat
  PROVE  /\ p < Len(File(k)) => Ahead(k, p).pos = p + 1 /\ Ahead(k, p).data = p + 1
         /\ ~(p < Len(File(k))) => Ahead(k, p).data = 0 /\ Ahead(k, p).pos \in {0, p}
  BY DEF Ahead

\* The files of a pass
LEMMA FilesAtHand ==
  ASSUME PlaceInv, InFile, NEW k \in Sides
  PROVE  /\ k \in 1 .. 2 /\ idx + k - 1 \in 1 .. Len(opt.pcap)
         /\ Len(File(k)) \in Nat /\ DOMAIN File(k) = 1 .. Len(File(k))
         /\ \A i \in 1 .. Len(File(k)) : File(k)[i].ts \in Nat \ {0}
         /\ Done(k) \in 0 .. Len(File(k))
  <1>1. k \in 1 .. 2
    BY SidesAre DEF PlaceInv
  <1>2. idx + k - 1 \in 1 .. Len(opt.pcap)
    BY <1>1, OptionTypes DEF PlaceInv
  <1>3. /\ Len(File(k)) \in Nat /\ DOMAIN File(k) = 1 .. Len(File(k))
        /\ \A i \in 1 .. Len(File(k)) : File(k)[i].ts \in Nat \ {0}
    BY <1>2, Files DEF PlaceInv, File
  <1>4. Done(k) \in 0 .. Len(File(k))
    <2>1. pos[k] \in Nat /\ data[k] \in Nat /\ pos[k] <= Len(File(k))
      BY <1>1 DEF PlaceInv
    <2>2. CASE opt.dual
      <3>1. data[k] <= Len(File(k))
        BY <2>2 DEF PlaceInv
      <3> QED BY <1>3, <2>1, <2>2, <3>1 DEF Done
    <2>3. CASE ~opt.dual
      <3>1. k = 1
        BY <2>3, SidesAre DEF PlaceInv
      <3>2. pc = "send" => data[1] # 0 /\ pos[1] = data[1]
        BY <2>3, SidesAre DEF PlaceInv
      <3> QED BY <1>3, <2>1, <2>3, <3>1, <3>2 DEF Done
    <2> QED BY <2>2, <2>3
  <1> QED BY <1>1, <1>2, <1>3, <1>4

\* The packet that is taken is the next one of its file, and the earlier of two
LEMMA TakeIsNext ==
  ASSUME PlaceInv, NEW k \in 1 .. 2, Take(k)
  PROVE  /\ k \in Sides /\ InFile /\ Done(k) < Len(File(k)) /\ Fetched[k] = Done(k) + 1
         /\ opt.dual => Fetched = data /\ data[k] # 0
         /\ opt.dual => \A j \in Sides : data[j] # 0 =>
              File(k)[data[k]].ts <= File(j)[data[j]].ts
  <1>1. InFile /\ pc = "head" /\ HasPacket /\ k = Merge
    BY DEF Take, InFile
  <1>2. /\ pos[1] \in Nat /\ pos[2] \in Nat /\ data[1] \in Nat /\ data[2] \in Nat
        /\ data = [j \in 1 .. 2 |-> data[j]] /\ opt \in Options
    BY DEF PlaceInv
  <1>3. CASE opt.dual
    <2>1. Sides = {1, 2} /\ Fetched = data
      BY <1>2, <1>3, SidesAre DEF Fetched
    <2>2. data[k] # 0
      BY <1>1, <1>3, <2>1 DEF HasPacket, Merge
    <2>3. Len(File(k)) \in Nat /\ data[k] <= Len(File(k))
      BY <1>1, <1>3, <2>1, FilesAtHand DEF PlaceInv
    <2>4. Done(k) = data[k] - 1
      BY <1>3, <2>2 DEF Done
    <2>5. ASSUME NEW j \in Sides, data[j] # 0
          PROVE  File(k)[data[k]].ts <= File(j)[data[j]].ts
      <3>1. /\ data[1] # 0 => File(1)[data[1]].ts \in Nat
            /\ data[2] # 0 => File(2)[data[2]].ts \in Nat
        BY <1>1, <1>2, <1>3, <2>1, FilesAtHand DEF PlaceInv
      <3>2. CASE k = j
        BY <2>5, <3>1, <3>2, <2>1
      <3>3. CASE k # j
        <4>1. data[1] # 0 /\ data[2] # 0
          BY <2>1, <2>2, <2>5, <3>3
        <4>2. k = IF File(1)[data[1]].ts <= File(2)[data[2]].ts THEN 1 ELSE 2
          BY <1>1, <1>3, <2>1, <4>1 DEF Merge
        <4> QED BY <3>1, <3>3, <4>1, <4>2, <2>1
      <3> QED BY <3>2, <3>3
    <2> QED BY <1>1, <1>2, <1>3, <2>1, <2>2, <2>3, <2>4, <2>5
  <1>4. CASE ~opt.dual
    <2>1. Sides = {1} /\ k = 1
      BY <1>1, <1>2, <1>4, SidesAre DEF Merge
    <2>2. Fetched[1] = Ahead(1, pos[1]).data
      BY <1>2, <1>4 DEF Fetched
    <2>3. Fetched[1] # 0
      BY <1>1, <2>1 DEF HasPacket
    <2>4. Len(File(1)) \in Nat
      BY <1>1, <2>1, FilesAtHand
    <2>5. pos[1] < Len(File(1)) /\ Fetched[1] = pos[1] + 1
      BY <1>2, <2>2, <2>3, <2>4, AheadIs
    <2>6. Done(1) = pos[1]
      BY <1>1, <1>4 DEF Done
    <2> QED BY <1>1, <1>4, <2>1, <2>5, <2>6
  <1> QED BY <1>2, <1>3, <1>4, OptionTypes

--------------------------------------------------------------------------------
(* How each step moves through the files *)

FilePlaces ==
  /\ pos \in [1 .. 2 -> Nat] /\ data \in [1 .. 2 -> Nat]
  /\ \A k \in Sides :
       /\ pos[k] <= Len(File(k))
       /\ opt.dual => data[k] <= Len(File(k)) /\ (data[k] # 0 => pos[k] = data[k])

\* A packet is fetched: in send_packets it is dealt with unless it goes to sendpacket
LEMMA MoveTaken ==
  ASSUME PlaceInv, NEW k \in 1 .. 2, Take(k), opt' = opt, idx' = idx, pc' \in {"head", "send"}
  PROVE  /\ FilePlaces'
         /\ data'[k] = Done(k) + 1 /\ pos'[k] = data'[k]
         /\ \A j \in Sides :
              Done(j)' = IF ~opt.dual /\ pc' = "head" THEN Done(j) + 1 ELSE Done(j)
  <1>1. /\ k \in Sides /\ InFile /\ Done(k) < Len(File(k)) /\ Fetched[k] = Done(k) + 1
        /\ opt.dual => Fetched = data /\ data[k] # 0
    BY TakeIsNext
  <1>2. /\ pc = "head" /\ data' = Fetched
        /\ pos' = IF opt.dual THEN pos ELSE [pos EXCEPT ![1] = Ahead(1, @).pos]
    BY DEF Take
  <1>3. /\ pos \in [1 .. 2 -> Nat] /\ data \in [1 .. 2 -> Nat] /\ opt \in Options
    BY DEF PlaceInv
  <1>4. CASE opt.dual
    <2>1. pos' = pos /\ data' = data
      BY <1>1, <1>2, <1>4
    <2>2. \A j \in Sides : data[j] <= Len(File(j)) /\ (data[j] # 0 => pos[j] = data[j])
                            /\ pos[j] <= Len(File(j))
      BY <1>1, <1>4 DEF PlaceInv
    <2>3. FilePlaces'
      BY <1>3, <2>1, <2>2 DEF FilePlaces, Sides, File
    <2>4. \A j \in Sides : Done(j)' = Done(j)
      BY <2>1, <1>4 DEF Done, File
    <2>5. data'[k] = Done(k) + 1 /\ pos'[k] = data'[k]
      BY <1>1, <1>2, <2>1, <2>2, <1>4
    <2> QED BY <1>4, <2>3, <2>4, <2>5
  <1>5. CASE ~opt.dual
    <2>1. Sides = {1} /\ k = 1
      BY <1>1, <1>3, <1>5, SidesAre
    <2>2. Done(1) = pos[1]
      BY <1>2, <1>5 DEF Done
    <2>3. Len(File(1)) \in Nat /\ pos[1] \in Nat
      BY <1>1, <1>3, <2>1, FilesAtHand
    <2>4. Ahead(1, pos[1]).pos = pos[1] + 1 /\ Ahead(1, pos[1]).data = pos[1] + 1
      BY <1>1, <2>1, <2>2, <2>3, AheadIs
    <2>5. pos'[1] = pos[1] + 1 /\ pos' \in [1 .. 2 -> Nat]
      BY <1>2, <1>3, <1>5, <2>3, <2>4
    <2>6. data'[1] = pos[1] + 1 /\ data' \in [1 .. 2 -> Nat]
      BY <1>2, <1>3, <1>5, <2>3, <2>4 DEF Fetched
    <2>7. Done(1)' = IF pc' = "head" THEN Done(1) + 1 ELSE Done(1)
      <3>1. Done(1)' = IF pc' = "send" THEN data'[1] - 1 ELSE pos'[1]
        BY <1>5 DEF Done
      <3> QED BY <3>1, <2>2, <2>3, <2>5, <2>6
    <2>8. FilePlaces'
      <3>1. pos'[1] <= Len(File(1))
        BY <1>1, <2>1, <2>2, <2>3, <2>5
      <3> QED BY <1>5, <2>1, <2>5, <2>6, <3>1 DEF FilePlaces, Sides, File
    <2> QED BY <1>5, <2>1, <2>2, <2>5, <2>6, <2>7, <2>8
  <1> QED BY <1>4, <1>5

\* The packet at hand
LEMMA AtHand ==
  ASSUME PlaceInv, pc = "send"
  PROVE  /\ out[1] \in Sides /\ out[1] \in 1 .. 2 /\ InFile
         /\ data[out[1]] = Done(out[1]) + 1 /\ pos[out[1]] = data[out[1]]
         /\ Done(out[1]) < Len(File(out[1]))
  <1>1. /\ out[1] \in Sides /\ data[out[1]] # 0 /\ pos[out[1]] = data[out[1]] /\ InFile
        /\ opt \in Options /\ pos \in [1 .. 2 -> Nat] /\ data \in [1 .. 2 -> Nat]
    BY DEF PlaceInv, InFile
  <1>2. out[1] \in 1 .. 2
    BY <1>1, FilesAtHand
  <1>3. ~opt.dual => out[1] = 1
    BY <1>1, SidesAre
  <1>4. Done(out[1]) = data[out[1]] - 1
    BY <1>1, <1>3 DEF Done
  <1>5. pos[out[1]] <= Len(File(out[1])) /\ Len(File(out[1])) \in Nat /\ data[out[1]] \in Nat
    BY <1>1, <1>2, FilesAtHand DEF PlaceInv
  <1> QED BY <1>1, <1>2, <1>4, <1>5

\* It is sent: its file is one further, the other one where it was
LEMMA MoveSent ==
  ASSUME PlaceInv, Transmit
  PROVE  /\ FilePlaces'
         /\ \A j \in Sides : Done(j)' = IF j = out[1] THEN Done(j) + 1 ELSE Done(j)
  <1>0. PICK k \in 1 .. 2 : k = out[1]
    <2>1. pc = "send"
      BY DEF Transmit
    <2> QED BY <2>1, AtHand
  <1>1. /\ pc = "send" /\ pc' = "head" /\ opt' = opt /\ idx' = idx
        /\ opt.dual => /\ pos' = [pos EXCEPT ![k] = Ahead(k, @).pos]
                       /\ data' = [data EXCEPT ![k] = Ahead(k, pos[k]).data]
        /\ ~opt.dual => pos' = pos /\ data' = data
    BY <1>0 DEF Transmit
  <1>2. /\ k \in Sides /\ k \in 1 .. 2 /\ InFile
        /\ data[k] = Done(k) + 1 /\ pos[k] = data[k] /\ Done(k) < Len(File(k))
    BY <1>0, <1>1, AtHand
  <1>3. /\ pos \in [1 .. 2 -> Nat] /\ data \in [1 .. 2 -> Nat] /\ opt \in Options
        /\ Len(File(k)) \in Nat /\ Done(k) \in Nat
    BY <1>2, FilesAtHand DEF PlaceInv
  <1>4. CASE opt.dual
    <2> DEFINE a == Ahead(k, pos[k])
    <2>1. /\ pos[k] < Len(File(k)) => a.pos = pos[k] + 1 /\ a.data = pos[k] + 1
          /\ ~(pos[k] < Len(File(k))) => a.data = 0 /\ a.pos \in {0, pos[k]}
      BY <1>2, <1>3, AheadIs
    <2>2. pos' = [pos EXCEPT ![k] = a.pos] /\ data' = [data EXCEPT ![k] = a.data]
      BY <1>1, <1>4
    <2> HIDE DEF a
    <2>3. a.pos \in Nat /\ a.data \in Nat /\ a.pos <= Len(File(k)) /\ a.data <= Len(File(k))
          /\ (a.data # 0 => a.pos = a.data)
      BY <1>2, <1>3, <2>1
    <2>4. \A j \in Sides : /\ j \in 1 .. 2
                           /\ data[j] <= Len(File(j)) /\ (data[j] # 0 => pos[j] = data[j])
                           /\ pos[j] <= Len(File(j))
      BY <1>2, <1>4, FilesAtHand DEF PlaceInv
    <2>5. pos' \in [1 .. 2 -> Nat] /\ data' \in [1 .. 2 -> Nat]
      BY <1>2, <1>3, <2>2, <2>3
    <2>6. ASSUME NEW j \in Sides
          PROVE  /\ pos'[j] = IF j = k THEN a.pos ELSE pos[j]
                 /\ data'[j] = IF j = k THEN a.data ELSE data[j]
      BY <1>3, <2>2, <2>4
    <2>7. \A j \in Sides : /\ data'[j] <= Len(File(j)) /\ (data'[j] # 0 => pos'[j] = data'[j])
                           /\ pos'[j] <= Len(File(j))
      BY <2>3, <2>4, <2>6
    <2>8. FilePlaces'
      BY <1>1, <2>5, <2>7 DEF FilePlaces, Sides, File
    <2>9. ASSUME NEW j \in Sides
          PROVE  Done(j)' = IF j = k THEN Done(j) + 1 ELSE Done(j)
      <3>1. /\ Done(j) = IF data[j] = 0 THEN Len(File(j)) ELSE data[j] - 1
            /\ Done(j)' = IF data'[j] = 0 THEN Len(File(j)) ELSE data'[j] - 1
        BY <1>1, <1>4 DEF Done, File
      <3>2. CASE j # k
        BY <3>1, <3>2, <2>6
      <3>3. CASE j = k
        <4>1. data'[k] = a.data
          BY <2>6, <3>3
        <4>2. Done(k)' = IF a.data = 0 THEN Len(File(k)) ELSE a.data - 1
          BY <3>1, <3>3, <4>1
        <4>3. CASE pos[k] < Len(File(k))
          <5>1. a.data = Done(k) + 1 + 1
            BY <4>3, <1>2, <2>1
          <5>2. a.data # 0 /\ a.data - 1 = Done(k) + 1
            BY <5>1, <1>3
          <5> QED BY <5>2, <4>2, <3>3
        <4>4. CASE ~(pos[k] < Len(File(k)))
          <5>1. a.data = 0 /\ Len(File(k)) = Done(k) + 1
            BY <4>4, <1>2, <1>3, <2>1
          <5> QED BY <5>1, <4>2, <3>3
        <4> QED BY <4>3, <4>4
      <3> QED BY <3>2, <3>3
    <2> QED BY <1>0, <2>8, <2>9
  <1>5. CASE ~opt.dual
    <2>1. Sides = {1} /\ k = 1
      BY <1>2, <1>3, <1>5, SidesAre
    <2>2. pos' = pos /\ data' = data
      BY <1>1, <1>5
    <2>3. Done(1)' = pos[1]
      BY <1>1, <1>5, <2>2 DEF Done
    <2>4. FilePlaces'
      <3>1. pos[1] <= Len(File(1))
        BY <1>2, <2>1 DEF PlaceInv
      <3> QED BY <1>1, <1>3, <1>5, <2>1, <2>2, <3>1 DEF FilePlaces, Sides, File
    <2> QED BY <1>2, <2>1, <1>0, <2>3, <2>4
  <1> QED BY <1>4, <1>5

\* It is not sent: send_packets goes on to the next, send_dual_packets does not
LEMMA MoveFailed ==
  ASSUME PlaceInv, SendFails
  PROVE  /\ FilePlaces'
         /\ \A j \in Sides : Done(j)' = IF opt.dual THEN Done(j) ELSE Done(j) + 1
  <1>1. /\ pc = "send" /\ pc' = "head" /\ opt' = opt /\ idx' = idx /\ pos' = pos /\ data' = data
    BY DEF SendFails, file
  <1>2. /\ out[1] \in Sides /\ InFile /\ data[out[1]] = Done(out[1]) + 1
        /\ pos[out[1]] = data[out[1]]
    BY <1>1, AtHand
  <1>3. FilePlaces'
    BY <1>1, <1>2 DEF PlaceInv, FilePlaces, Sides, File
  <1>4. CASE opt.dual
    BY <1>1, <1>3, <1>4 DEF Done, File
  <1>5. CASE ~opt.dual
    <2>1. Sides = {1} /\ out[1] = 1
      BY <1>2, <1>5, SidesAre DEF PlaceInv
    <2>2. Done(1)' = pos[1]
      BY <1>1, <1>5 DEF Done
    <2> QED BY <1>2, <1>3, <1>5, <2>1, <2>2
  <1> QED BY <1>4, <1>5

\* The files are opened
LEMMA MoveOpened ==
  ASSUME PlaceInv, Open
  PROVE  /\ FilePlaces' /\ InFile' /\ opt' = opt /\ idx' = idx
         /\ \A k \in Sides : idx + k - 1 <= Len(opt.pcap) /\ Done(k)' = 0
  <1>1. /\ pc' = "head" /\ opt' = opt /\ idx' = idx /\ idx <= Len(opt.pcap)
        /\ pos' = [k \in 1 .. 2 |-> IF opt.dual THEN Ahead(k, 0).pos ELSE 0]
        /\ data' = [k \in 1 .. 2 |-> IF opt.dual THEN Ahead(k, 0).data ELSE 0]
    BY DEF Open, Index
  <1>2. /\ opt \in Options /\ idx \in Nat \ {0} /\ (opt.dual => idx % 2 = 1)
        /\ Len(opt.pcap) \in Nat /\ (opt.dual => Len(opt.pcap) % 2 = 0)
        /\ opt.dual => Sides = {1, 2}
        /\ ~opt.dual => Sides = {1}
    <2>1. opt \in Options /\ idx \in Nat \ {0} /\ (opt.dual => idx % 2 = 1)
      BY DEF PlaceInv
    <2>2. opt.pcap \in Seq(Seq([ts : Nat \ {0}, kind : Kind])) /\ (opt.dual => Len(opt.pcap) % 2 = 0)
      BY <2>1, OptionTypes
    <2>3. Len(opt.pcap) \in Nat
      BY <2>2, Elements, Zenon
    <2> QED BY <2>1, <2>2, <2>3, SidesAre
  <1>3. ASSUME NEW k \in Sides
        PROVE  k \in 1 .. 2 /\ idx + k - 1 \in 1 .. Len(opt.pcap)
    <2>1. \A n, m \in Nat : n % 2 = 1 /\ m % 2 = 0 /\ n <= m => n + 1 <= m
      OBVIOUS
    <2>2. opt.dual => idx + 1 <= Len(opt.pcap)
      BY <1>1, <1>2, <2>1
    <2> QED BY <1>1, <1>2, <2>2
  <1>4. ASSUME NEW k \in Sides
        PROVE  Len(File(k)) \in Nat
    BY <1>2, <1>3, Files DEF File
  <1>5. ASSUME NEW k \in Sides
        PROVE  /\ 0 < Len(File(k)) => Ahead(k, 0).pos = 1 /\ Ahead(k, 0).data = 1
               /\ ~(0 < Len(File(k))) => Ahead(k, 0).data = 0 /\ Ahead(k, 0).pos = 0
    BY <1>4, AheadIs
  <1>6. pos' \in [1 .. 2 -> Nat] /\ data' \in [1 .. 2 -> Nat]
    BY <1>1, AheadIsNat
  <1>7. ASSUME NEW k \in Sides
        PROVE  /\ pos'[k] <= Len(File(k))
               /\ opt.dual => data'[k] <= Len(File(k)) /\ (data'[k] # 0 => pos'[k] = data'[k])
               /\ Done(k)' = 0
    <2>1. k \in 1 .. 2 /\ Len(File(k)) \in Nat
      BY <1>3, <1>4
    <2>2. CASE opt.dual
      <3>1. pos'[k] = Ahead(k, 0).pos /\ data'[k] = Ahead(k, 0).data
        BY <1>1, <2>1, <2>2
      <3>2. Done(k)' = IF data'[k] = 0 THEN Len(File(k)) ELSE data'[k] - 1
        BY <1>1, <2>2 DEF Done, File
      <3>3. CASE 0 < Len(File(k))
        BY <1>5, <2>1, <3>1, <3>2, <3>3
      <3>4. CASE ~(0 < Len(File(k)))
        BY <1>5, <2>1, <3>1, <3>2, <3>4
      <3> QED BY <3>3, <3>4
    <2>3. CASE ~opt.dual
      <3>1. pos'[k] = 0 /\ pos'[1] = 0
        BY <1>1, <2>1, <2>3
      <3>2. Done(k)' = pos'[1]
        BY <1>1, <2>3 DEF Done
      <3> QED BY <2>1, <2>3, <3>1, <3>2
    <2> QED BY <2>2, <2>3
  <1>8. FilePlaces'
    BY <1>1, <1>6, <1>7 DEF FilePlaces, Sides, File
  <1>9. \A k \in Sides : idx + k - 1 <= Len(opt.pcap)
    BY <1>3
  <1> QED BY <1>1, <1>7, <1>8, <1>9 DEF InFile

LEMMA PlaceInit == Init => PlaceInv
  BY DEF Init, PlaceInv, InFile

\* Outside of the files only the index moves
LEMMA PlaceOutside ==
  ASSUME PlaceInv, opt' = opt, pos' = pos, data' = data, pc' \in {"loop", "index", "done"},
         idx' \in Nat \ {0}, opt.dual => idx' % 2 = 1
  PROVE  PlaceInv'
  BY DEF PlaceInv, InFile

\* The index goes on by one file or by two
LEMMA IndexGoesOn ==
  ASSUME PlaceInv, idx' = idx + Cardinality(Sides)
  PROVE  idx' \in Nat \ {0} /\ (opt.dual => idx' % 2 = 1)
  <1>1. /\ opt \in Options /\ idx \in Nat \ {0} /\ (opt.dual => idx % 2 = 1)
        /\ opt.dual => Cardinality(Sides) = 2
        /\ ~opt.dual => Cardinality(Sides) = 1
    BY SidesAre DEF PlaceInv
  <1>2. \A n \in Nat : n % 2 = 1 => (n + 2) % 2 = 1
    OBVIOUS
  <1> QED BY <1>1, <1>2

\* Inside of them the index stays
LEMMA PlaceInside ==
  ASSUME PlaceInv, FilePlaces', opt' = opt, idx' = idx, pc' \in {"head", "send"},
         \A k \in Sides : idx + k - 1 <= Len(opt.pcap),
         pc' = "send" => out'[1] \in Sides /\ data'[out'[1]] # 0 /\ pos'[out'[1]] = data'[out'[1]]
  PROVE  PlaceInv'
  <1>1. Sides' = Sides
    BY DEF Sides
  <1>2. \A k \in Sides :
          /\ pos'[k] <= Len(File(k)')
          /\ opt'.dual => data'[k] <= Len(File(k)') /\ (data'[k] # 0 => pos'[k] = data'[k])
    BY <1>1 DEF FilePlaces
  <1> QED BY <1>1, <1>2 DEF PlaceInv, FilePlaces, InFile

LEMMA PlaceNext == PlaceInv /\ [Next]_vars => PlaceInv'
  <1> SUFFICES ASSUME PlaceInv, [Next]_vars PROVE PlaceInv'
    OBVIOUS
  <1>0. /\ idx \in Nat \ {0} /\ (opt.dual => idx % 2 = 1)
        /\ InFile => \A k \in Sides : idx + k - 1 <= Len(opt.pcap)
    BY DEF PlaceInv
  <1>1. CASE Loop
    <2>1. /\ opt' = opt /\ pos' = pos /\ data' = data /\ pc' \in {"index", "done"}
          /\ idx' = 1 \/ idx' = idx
      BY <1>1 DEF Loop, file
    <2>2. 1 % 2 = 1
      OBVIOUS
    <2> QED BY <1>0, <2>1, <2>2, PlaceOutside
  <1>2. CASE OpenFails
    <2>1. /\ opt' = opt /\ pos' = pos /\ data' = data /\ pc' = "index"
          /\ idx' = idx + Cardinality(Sides)
      BY <1>2 DEF OpenFails, Index, file
    <2> QED BY <2>1, IndexGoesOn, PlaceOutside
  <1>3. CASE Open
    <2>1. pc' = "head"
      BY <1>3 DEF Open
    <2> QED BY <1>3, <2>1, MoveOpened, PlaceInside
  <1>4. CASE IndexEnds
    BY <1>0, <1>4, PlaceOutside DEF IndexEnds, file
  <1>5. ASSUME NEW k \in 1 .. 2, NoSend(k) \/ EditFails(k)
        PROVE  PlaceInv'
    <2>1. Take(k) /\ opt' = opt /\ idx' = idx /\ pc' = "head"
      BY <1>5 DEF NoSend, EditFails, Take
    <2>2. FilePlaces' /\ InFile
      BY <2>1, MoveTaken, TakeIsNext
    <2> QED BY <1>0, <2>1, <2>2, PlaceInside
  <1>6. ASSUME NEW k \in 1 .. 2, Prepare(k)
        PROVE  PlaceInv'
    <2>1. Take(k) /\ opt' = opt /\ idx' = idx /\ pc' = "send" /\ out' = <<k, Interface(k, Fetched[k])>>
      BY <1>6 DEF Prepare
    <2>2. /\ FilePlaces' /\ InFile /\ k \in Sides
          /\ data'[k] = Done(k) + 1 /\ pos'[k] = data'[k]
      BY <2>1, MoveTaken, TakeIsNext
    <2>3. Done(k) \in Nat
      BY <2>2, FilesAtHand
    <2>4. out'[1] = k /\ data'[k] # 0
      BY <2>1, <2>2, <2>3
    <2> QED BY <1>0, <2>1, <2>2, <2>4, PlaceInside
  <1>7. CASE FileEnds
    BY <1>7, IndexGoesOn, PlaceOutside DEF FileEnds, file
  <1>8. CASE Transmit
    <2>1. opt' = opt /\ idx' = idx /\ pc' = "head" /\ pc = "send"
      BY <1>8 DEF Transmit
    <2> QED BY <1>0, <1>8, <2>1, MoveSent, PlaceInside DEF InFile
  <1>9. CASE SendFails
    <2>1. opt' = opt /\ idx' = idx /\ pc' = "head" /\ pc = "send"
      BY <1>9 DEF SendFails, file
    <2> QED BY <1>0, <1>9, <2>1, MoveFailed, PlaceInside DEF InFile
  <1>10. CASE AbortStep \/ UNCHANGED vars
    <2>1. UNCHANGED <<opt, pc, idx, pos, data, out>>
      BY <1>10 DEF AbortStep, vars, file
    <2> QED BY <2>1 DEF PlaceInv, InFile, Sides, File
  <1> QED
    BY <1>1, <1>2, <1>3, <1>4, <1>5, <1>6, <1>7, <1>8, <1>9, <1>10 DEF Next, Step

--------------------------------------------------------------------------------
(* Numbers *)

Entries == [pass : Nat, file : Nat, pos : Nat, edit : Nat, at : Nat]

\* The clock of the replay is what was slept, and both follow the time stamps
ClockInv ==
  /\ tsDelta \in Nat /\ timeDelta = tsDelta /\ slept = tsDelta /\ lastTs \in Nat
  /\ first \in BOOLEAN /\ (first => tsDelta = 0 /\ lastTs = 0)

CacheInv ==
  \A f \in 1 .. Len(opt.pcap) :
    /\ f \in DOMAIN edits
    /\ edits[f] \in [1 .. Len(opt.pcap[f]) -> Nat]

NumberInv ==
  /\ PlaceInv /\ ClockInv /\ CacheInv
  /\ iteration \in Nat /\ unique \in Nat /\ last \in Nat
  /\ moved \in [1 .. 2 -> Nat]
  /\ wire \in Seq(Entries)

\* A packet is paced: the last time stamp becomes the later one, and the clock follows
LEMMA PaceFollows ==
  ASSUME ClockInv, NEW ts \in Nat \ {0}, Pace(ts)
  PROVE  /\ ClockInv'
         /\ lastTs' = IF lastTs = 0 \/ ts > lastTs THEN ts ELSE lastTs
         /\ lastTs # 0 => slept' - lastTs' = slept - lastTs
  <1> DEFINE delta == IF lastTs # 0 /\ ts > lastTs THEN tsDelta + ts - lastTs ELSE tsDelta
  <1>1. /\ tsDelta \in Nat /\ timeDelta = tsDelta /\ slept = tsDelta /\ lastTs \in Nat
        /\ first \in BOOLEAN /\ (first => tsDelta = 0 /\ lastTs = 0)
    BY DEF ClockInv
  <1>2. /\ tsDelta' = delta /\ first' = FALSE
        /\ lastTs' = IF lastTs = 0 \/ (lastTs # 0 /\ ts > lastTs) THEN ts ELSE lastTs
        /\ slept' = slept + (IF first \/ delta <= timeDelta THEN 0 ELSE delta - timeDelta)
        /\ timeDelta' = IF timeDelta < delta THEN delta ELSE timeDelta
    BY DEF Pace
  <1>3. delta \in Nat /\ delta >= tsDelta /\ (first => delta = tsDelta)
    BY <1>1
  <1>4. lastTs # 0 => delta - tsDelta = (IF ts > lastTs THEN ts ELSE lastTs) - lastTs
    BY <1>1
  <1> HIDE DEF delta
  <1>5. timeDelta' = delta /\ slept' = delta
    BY <1>1, <1>2, <1>3
  <1>6. lastTs' = IF lastTs = 0 \/ ts > lastTs THEN ts ELSE lastTs
    BY <1>2
  <1>7. lastTs' \in Nat
    BY <1>1, <1>6
  <1>8. lastTs # 0 => slept' - lastTs' = slept - lastTs
    BY <1>1, <1>3, <1>4, <1>5, <1>6
  <1> QED BY <1>2, <1>3, <1>5, <1>6, <1>7, <1>8 DEF ClockInv

\* A packet is edited
LEMMA EditMoves ==
  ASSUME NumberInv, NEW k \in Sides, InFile, NEW i \in 1 .. Len(File(k)), Edit(k, i), opt' = opt
  PROVE  /\ moved' \in [1 .. 2 -> Nat] /\ CacheInv'
         /\ opt.preload =>
              /\ moved'[k] = edits[idx + k - 1][i] + IF Editing THEN 1 ELSE 0
              /\ \A f \in 1 .. Len(opt.pcap) : \A n \in 1 .. Len(opt.pcap[f]) :
                   edits'[f][n] = IF f = idx + k - 1 /\ n = i THEN moved'[k] ELSE edits[f][n]
         /\ ~opt.preload /\ ~opt.dual => moved'[k] = IF Editing THEN unique - 1 ELSE 0
  <1> DEFINE f == idx + k - 1
             e == IF Editing THEN (IF opt.preload THEN 1 ELSE unique - 1) ELSE 0
             m == (IF opt.preload THEN edits[f][i] ELSE IF opt.dual THEN moved[k] ELSE 0) + e
  <1>1. k \in 1 .. 2 /\ f \in 1 .. Len(opt.pcap)
    BY FilesAtHand DEF NumberInv
  <1>2. i \in 1 .. Len(opt.pcap[f])
    BY DEF File
  <1>3. /\ f \in DOMAIN edits /\ edits[f] \in [1 .. Len(opt.pcap[f]) -> Nat]
        /\ moved \in [1 .. 2 -> Nat] /\ unique \in Nat /\ last \in Nat
    BY <1>1 DEF NumberInv, CacheInv
  <1>4. edits[f][i] \in Nat /\ moved[k] \in Nat
    BY <1>1, <1>2, <1>3
  <1>5. e \in Nat
    BY <1>3 DEF Editing
  <1>6. moved' = [moved EXCEPT ![k] = m]
        /\ edits' = IF opt.preload THEN [edits EXCEPT ![f][i] = m] ELSE edits
    BY DEF Edit
  <1>7. /\ opt.preload => m = edits[f][i] + IF Editing THEN 1 ELSE 0
        /\ ~opt.preload /\ ~opt.dual => m = IF Editing THEN unique - 1 ELSE 0
    BY <1>3
  <1> HIDE DEF e
  <1>8. m \in Nat
    BY <1>4, <1>5
  <1> HIDE DEF m, f
  <1>9. moved' \in [1 .. 2 -> Nat] /\ moved'[k] = m
    BY <1>1, <1>3, <1>6, <1>8
  <1>10. opt.preload => \A g \in 1 .. Len(opt.pcap) : \A n \in 1 .. Len(opt.pcap[g]) :
                          edits'[g][n] = IF g = f /\ n = i THEN m ELSE edits[g][n]
    BY <1>1, <1>2, <1>3, <1>6 DEF NumberInv, CacheInv
  <1>11. ASSUME NEW g \in 1 .. Len(opt.pcap)
         PROVE  g \in DOMAIN edits' /\ edits'[g] \in [1 .. Len(opt.pcap[g]) -> Nat]
    <2>1. g \in DOMAIN edits /\ edits[g] \in [1 .. Len(opt.pcap[g]) -> Nat]
      BY DEF NumberInv, CacheInv
    <2>2. CASE opt.preload
      <3>1. g # f => edits'[g] = edits[g]
        BY <2>1, <2>2, <1>6
      <3>2. g = f => edits'[g] = [edits[g] EXCEPT ![i] = m]
        BY <2>1, <2>2, <1>6
      <3>3. g \in DOMAIN edits'
        BY <2>1, <2>2, <1>6
      <3> QED BY <2>1, <3>1, <3>2, <3>3, <1>2, <1>8
    <2>3. CASE ~opt.preload
      BY <2>1, <2>3, <1>6
    <2> QED BY <2>2, <2>3
  <1>12. CacheInv'
    BY <1>11 DEF CacheInv
  <1> QED BY <1>7, <1>9, <1>10, <1>12 DEF f

LEMMA NumberInit == Init => NumberInv
  <1> SUFFICES ASSUME Init PROVE NumberInv
    OBVIOUS
  <1>1. PlaceInv
    BY PlaceInit
  <1>2. ClockInv /\ iteration \in Nat /\ unique \in Nat /\ last \in Nat
        /\ moved \in [1 .. 2 -> Nat] /\ wire \in Seq(Entries)
    BY DEF Init, ClockInv
  <1>3. CacheInv
    <2>1. edits = [k \in DOMAIN opt.pcap |-> [i \in DOMAIN opt.pcap[k] |-> 0]]
      BY DEF Init
    <2>2. opt \in Options /\ DOMAIN opt.pcap = 1 .. Len(opt.pcap)
      BY OptionTypes, Elements DEF Init
    <2>3. \A f \in 1 .. Len(opt.pcap) : DOMAIN opt.pcap[f] = 1 .. Len(opt.pcap[f])
      BY <2>2, Files
    <2> QED BY <2>1, <2>2, <2>3 DEF CacheInv
  <1> QED BY <1>1, <1>2, <1>3 DEF NumberInv

\* Steps that touch none of the numbers
LEMMA NumberQuiet ==
  ASSUME NumberInv, PlaceInv',
         UNCHANGED <<opt, tsDelta, timeDelta, slept, first, edits, iteration, unique, last, wire>>,
         lastTs' \in {0, lastTs}, moved' \in [1 .. 2 -> Nat]
  PROVE  NumberInv'
  BY DEF NumberInv, ClockInv, CacheInv

\* What goes on the wire
LEMMA Sent ==
  ASSUME NumberInv, Transmit
  PROVE  /\ out[1] \in Sides
         /\ LET k == out[1]
                e == [pass |-> iteration, file |-> idx + k - 1, pos |-> data[k],
                      edit |-> moved[k], at |-> slept]
            IN  /\ e \in Entries /\ wire' = Append(wire, e) /\ wire' \in Seq(Entries)
                /\ Len(wire') = Len(wire) + 1 /\ wire'[Len(wire) + 1] = e
                /\ \A j \in 1 .. Len(wire) : wire'[j] = wire[j]
  <1> DEFINE k == out[1]
             e == [pass |-> iteration, file |-> idx + k - 1, pos |-> data[k],
                   edit |-> moved[k], at |-> slept]
  <1>1. pc = "send" /\ wire' = Append(wire, e)
    BY DEF Transmit
  <1>2. k \in Sides /\ k \in 1 .. 2
    BY <1>1, AtHand DEF NumberInv
  <1>3. /\ iteration \in Nat /\ idx \in Nat \ {0} /\ data \in [1 .. 2 -> Nat]
        /\ moved \in [1 .. 2 -> Nat] /\ slept \in Nat /\ wire \in Seq(Entries)
    BY DEF NumberInv, PlaceInv, ClockInv
  <1>4. idx + k - 1 \in Nat /\ data[k] \in Nat /\ moved[k] \in Nat
    BY <1>2, <1>3
  <1>5. e \in Entries
    BY <1>3, <1>4 DEF Entries
  <1> HIDE DEF e
  <1>6. /\ wire' \in Seq(Entries)
        /\ Len(wire') = Len(wire) + 1 /\ wire'[Len(wire) + 1] = e
        /\ \A j \in 1 .. Len(wire) : wire'[j] = wire[j]
    BY <1>1, <1>3, <1>5
  <1> QED BY <1>1, <1>2, <1>5, <1>6 DEF e

LEMMA NumberNext == NumberInv /\ [Next]_vars => NumberInv'
  <1> SUFFICES ASSUME NumberInv, [Next]_vars PROVE NumberInv'
    OBVIOUS
  <1>0. PlaceInv' /\ moved \in [1 .. 2 -> Nat]
    BY PlaceNext DEF NumberInv
  <1>1. CASE Loop
    BY <1>0, <1>1, NumberQuiet DEF Loop, file, count, pace, hist
  <1>2. CASE OpenFails
    BY <1>0, <1>2, NumberQuiet DEF OpenFails, file, count, pace, hist
  <1>3. CASE Open
    BY <1>0, <1>3, NumberQuiet DEF Open, count, hist
  <1>4. CASE IndexEnds
    BY <1>0, <1>4, NumberQuiet DEF IndexEnds, file, count, pace, hist
  <1>5. ASSUME NEW k \in 1 .. 2, NoSend(k)
        PROVE  NumberInv'
    BY <1>0, <1>5, NumberQuiet DEF NoSend, count, pace, hist
  <1>6. ASSUME NEW k \in 1 .. 2, EditFails(k)
        PROVE  NumberInv'
    BY <1>0, <1>6, NumberQuiet DEF EditFails, count, pace
  <1>7. ASSUME NEW k \in 1 .. 2, Prepare(k)
        PROVE  NumberInv'
    <2>1. /\ Take(k) /\ Edit(k, Fetched[k]) /\ Pace(File(k)[Fetched[k]].ts)
          /\ UNCHANGED <<opt, iteration, unique, last, wire>>
      BY <1>7 DEF Prepare, count, hist
    <2>2. /\ k \in Sides /\ InFile /\ Done(k) < Len(File(k)) /\ Fetched[k] = Done(k) + 1
      BY <2>1, TakeIsNext DEF NumberInv
    <2>3. /\ Len(File(k)) \in Nat /\ Done(k) \in Nat
          /\ \A i \in 1 .. Len(File(k)) : File(k)[i].ts \in Nat \ {0}
      BY <2>2, FilesAtHand DEF NumberInv
    <2>4. Fetched[k] \in 1 .. Len(File(k))
      BY <2>2, <2>3
    <2>5. ClockInv'
      BY <2>1, <2>3, <2>4, PaceFollows DEF NumberInv
    <2>6. moved' \in [1 .. 2 -> Nat] /\ CacheInv'
      BY <2>1, <2>2, <2>4, EditMoves
    <2> QED BY <1>0, <2>1, <2>5, <2>6 DEF NumberInv
  <1>8. CASE FileEnds
    <2>1. /\ UNCHANGED <<opt, edits, moved, tsDelta, timeDelta, slept, first, lastTs, wire>>
          /\ iteration' = iteration + 1 /\ last' = unique
          /\ unique' = IF opt.unique > 0 THEN NextUnique(iteration + 1) ELSE unique
      BY <1>8 DEF FileEnds, file, pace
    <2>2. iteration \in Nat /\ unique \in Nat /\ opt.unique \in Nat
      BY OptionsAssumption DEF NumberInv, PlaceInv
    <2>3. unique' \in Nat
      <3>1. \A a \in Nat, b \in Nat \ {0} : a \div b \in Nat
        OBVIOUS
      <3>2. CASE opt.unique > 0
        <4>1. (iteration + 1) * 1000 \in Nat /\ opt.unique * 1000 \in Nat \ {0}
          BY <2>2, <3>2
        <4>2. NextUnique(iteration + 1) \in Nat
          BY <3>1, <4>1 DEF NextUnique
        <4> QED BY <2>1, <3>2, <4>2
      <3>3. CASE ~(opt.unique > 0)
        BY <2>1, <2>2, <3>3
      <3> QED BY <3>2, <3>3
    <2> QED BY <1>0, <2>1, <2>2, <2>3 DEF NumberInv, ClockInv, CacheInv
  <1>9. CASE Transmit
    <2>1. /\ UNCHANGED <<opt, edits, iteration, unique, last, tsDelta, timeDelta, slept, first, lastTs>>
          /\ moved' = moved \/ moved' = [moved EXCEPT ![out[1]] = 0]
      BY <1>9 DEF Transmit, count, pace
    <2>2. moved' \in [1 .. 2 -> Nat]
      BY <1>0, <2>1
    <2>3. wire' \in Seq(Entries)
      BY <1>9, Sent
    <2> QED BY <1>0, <2>1, <2>2, <2>3 DEF NumberInv, ClockInv, CacheInv
  <1>10. CASE SendFails
    BY <1>0, <1>10, NumberQuiet DEF SendFails, file, count, pace
  <1>11. CASE AbortStep
    BY <1>0, <1>11, NumberQuiet DEF AbortStep, file, count, pace, hist
  <1>12. CASE UNCHANGED vars
    BY <1>0, <1>12, NumberQuiet DEF vars, file, count, pace, hist
  <1> QED
    BY <1>1, <1>2, <1>3, <1>4, <1>5, <1>6, <1>7, <1>8, <1>9, <1>10, <1>11, <1>12 DEF Next, Step

--------------------------------------------------------------------------------
(* The wire *)

Dealt(p, f, i) ==
  \/ Interface(1, i) = 0
  \/ <<p, f, i>> \in lost
  \/ \E j \in 1 .. Len(wire) : wire[j].pass = p /\ wire[j].file = f /\ wire[j].pos = i

InOrder ==
  \A i, j \in 1 .. Len(wire) :
    i < j /\ wire[i].pass = wire[j].pass /\ wire[i].file = wire[j].file => wire[i].pos < wire[j].pos

\* An entry of this pass is of a file at hand, and among what has been dealt with of it
Placed(e) ==
  /\ e.pass <= iteration
  /\ e.file \in 1 .. Len(opt.pcap) /\ e.pos \in 1 .. Len(opt.pcap[e.file])
  /\ e.pass = iteration => InFile /\ \E k \in Sides : e.file = idx + k - 1 /\ e.pos <= Done(k)

WireInv ==
  /\ \A j \in 1 .. Len(wire) : Placed(wire[j])
  /\ InFile => \A k \in Sides : \A i \in 1 .. Done(k) : Dealt(iteration, idx + k - 1, i)
  /\ \A f \in full :
       /\ f[2] \in 1 .. Len(opt.pcap)
       /\ \A i \in 1 .. Len(opt.pcap[f[2]]) : Dealt(f[1], f[2], i)
  /\ InOrder

LEMMA WireInit == Init => WireInv
  BY DEF Init, WireInv, InFile, InOrder

\* What was dealt with stays so
LEMMA DealtStays ==
  ASSUME opt' = opt, lost \subseteq lost', wire' = wire, NEW p, NEW f, NEW i, Dealt(p, f, i)
  PROVE  Dealt(p, f, i)'
  BY DEF Dealt, Interface

\* Between two passes
LEMMA WireOutside ==
  ASSUME WireInv, ~InFile, ~InFile', UNCHANGED <<opt, wire, iteration, lost, full>>
  PROVE  WireInv'
  <1>1. \A e : Placed(e) => Placed(e)'
    BY DEF Placed
  <1>2. \A p, f, i : Dealt(p, f, i) => Dealt(p, f, i)'
    BY DEF Dealt, Interface
  <1> QED BY <1>1, <1>2 DEF WireInv, InOrder

\* Each file stays where it is, or goes on by a packet that was dealt with
Onward ==
  \A k \in Sides :
    \/ Done(k)' = Done(k)
    \/ Done(k)' = Done(k) + 1 /\ Dealt(iteration, idx + k - 1, Done(k))'

\* Inside of a pass, with nothing sent
LEMMA WireInside ==
  ASSUME NumberInv, WireInv, InFile, InFile', UNCHANGED <<opt, idx, wire, iteration, full>>,
         lost \subseteq lost',
         Onward
  PROVE  WireInv'
  <1>0. \A k \in Sides :
          \/ Done(k)' = Done(k)
          \/ Done(k)' = Done(k) + 1 /\ Dealt(iteration, idx + k - 1, Done(k))'
    BY DEF Onward
  <1>1. /\ Sides' = Sides /\ \A k \in Sides : Done(k) \in Nat
        /\ \A j \in 1 .. Len(wire) : wire[j].pos \in Nat
    <2>1. \A j \in 1 .. Len(wire) : wire[j] \in Entries
      BY Elements DEF NumberInv
    <2>2. PlaceInv
      BY DEF NumberInv
    <2>3. \A k \in Sides : Done(k) \in Nat
      BY <2>2, FilesAtHand
    <2> QED BY <2>1, <2>3 DEF Sides, Entries
  <1>2. \A p, f, i : Dealt(p, f, i) => Dealt(p, f, i)'
    BY DealtStays
  <1>3. ASSUME NEW j \in 1 .. Len(wire)
        PROVE  Placed(wire[j])'
    <2> DEFINE e == wire[j]
    <2>1. Placed(e) /\ e.pos \in Nat /\ e' = e
      BY <1>1 DEF WireInv
    <2> HIDE DEF e
    <2>2. ASSUME NEW k \in Sides, e.pos <= Done(k)
          PROVE  e.pos <= Done(k)'
      BY <1>0, <1>1, <2>1, <2>2
    <2>3. Placed(e)'
      BY <1>1, <2>1, <2>2 DEF Placed
    <2> QED BY <2>3 DEF e
  <1>4. ASSUME NEW k \in Sides, NEW i \in 1 .. Done(k)'
        PROVE  Dealt(iteration, idx + k - 1, i)'
    <2>1. CASE i \in 1 .. Done(k)
      <3>1. Dealt(iteration, idx + k - 1, i)
        BY <2>1 DEF WireInv
      <3>2. PICK p, f : p = iteration /\ f = idx + k - 1
        OBVIOUS
      <3>3. Dealt(p, f, i)'
        BY <3>1, <3>2, <1>2
      <3>4. p = iteration' /\ f = idx' + k - 1
        BY <3>2
      <3> QED BY <3>3, <3>4
    <2>2. CASE i \notin 1 .. Done(k)
      <3>1. Done(k)' = Done(k) + 1 /\ Dealt(iteration, idx + k - 1, Done(k))'
        BY <1>0, <1>1, <2>2
      <3>2. i = Done(k)'
        BY <1>1, <2>2, <3>1
      <3> QED BY <3>1, <3>2
    <2> QED BY <2>1, <2>2
  <1> QED BY <1>1, <1>2, <1>3, <1>4 DEF WireInv, InOrder

\* A packet is sent: it is the next of its file
LEMMA WireSent ==
  ASSUME NumberInv, WireInv, Transmit
  PROVE  WireInv'
  <1>1. /\ UNCHANGED <<opt, idx, iteration, lost, full>> /\ pc = "send" /\ pc' = "head"
    BY DEF Transmit, count
  <1>2. PICK k \in 1 .. 2 : k = out[1]
    BY <1>1, AtHand DEF NumberInv
  <1>3. PICK p, f, n, e :
          /\ p = iteration /\ f = idx + k - 1 /\ n = Len(wire)
          /\ e = [pass |-> p, file |-> f, pos |-> data[k], edit |-> moved[k], at |-> slept]
    OBVIOUS
  <1>4. /\ k \in Sides /\ InFile /\ data[k] = Done(k) + 1 /\ Done(k) < Len(File(k)) /\ PlaceInv
    BY <1>1, <1>2, AtHand DEF NumberInv
  <1>5. /\ f \in 1 .. Len(opt.pcap) /\ Len(File(k)) \in Nat /\ Done(k) \in Nat
        /\ \A j \in Sides : j \in 1 .. 2 /\ Done(j) \in Nat
        /\ idx \in Nat /\ p \in Nat
    BY <1>3, <1>4, FilesAtHand DEF PlaceInv, NumberInv
  <1>6. /\ Len(wire') = n + 1 /\ wire'[n + 1] = e
        /\ \A j \in 1 .. n : wire'[j] = wire[j]
    BY <1>2, <1>3, Sent
  <1>7. n \in Nat /\ \A j \in 1 .. n : wire[j].pos \in Nat
    <2>1. n \in Nat /\ \A j \in 1 .. n : wire[j] \in Entries
      BY <1>3, Elements DEF NumberInv
    <2> QED BY <2>1 DEF Entries
  <1>8. e.pass = p /\ e.file = f /\ e.pos = Done(k) + 1
    BY <1>3, <1>4
  <1>9. /\ InFile' /\ Sides' = Sides
        /\ \A j \in Sides : Done(j)' = IF j = k THEN Done(j) + 1 ELSE Done(j)
    BY <1>1, <1>2, <1>4, MoveSent DEF InFile, Sides
  <1>10. e.pos \in 1 .. Len(opt.pcap[f])
    BY <1>3, <1>4, <1>5, <1>8 DEF File
  <1>11. ASSUME NEW d, Placed(d), d.pos \in Nat
         PROVE  Placed(d)'
    <2>1. ASSUME NEW j \in Sides, d.pos <= Done(j)
          PROVE  d.pos <= Done(j)'
      BY <1>5, <1>9, <1>11, <2>1
    <2> QED BY <1>1, <1>9, <1>11, <2>1 DEF Placed
  <1>12. Placed(e)'
    <2>1. e.pos <= Done(k)' /\ e.pass <= iteration'
      BY <1>1, <1>3, <1>5, <1>4, <1>8, <1>9
    <2> QED BY <1>1, <1>3, <1>4, <1>5, <1>8, <1>9, <1>10, <2>1 DEF Placed
  <1>13. ASSUME NEW j \in 1 .. Len(wire')
         PROVE  Placed(wire[j])'
    <2>1. CASE j \in 1 .. n
      <3>1. PICK d : d = wire[j]
        OBVIOUS
      <3>2. Placed(d) /\ d.pos \in Nat /\ d = wire'[j]
        BY <2>1, <1>3, <1>6, <1>7, <3>1 DEF WireInv
      <3>3. Placed(d)'
        BY <3>2, <1>11
      <3> QED BY <3>2, <3>3
    <2>2. CASE j = n + 1
      BY <2>2, <1>6, <1>12
    <2> QED BY <2>1, <2>2, <1>6, <1>7
  <1>14. \A q, g, i : Dealt(q, g, i) => Dealt(q, g, i)'
    BY <1>1, <1>3, <1>6, <1>7 DEF Dealt, Interface
  <1>15. Dealt(p, f, e.pos)'
    <2>1. n + 1 \in 1 .. Len(wire') /\ wire'[n + 1] = e
      BY <1>6, <1>7
    <2> QED BY <2>1, <1>8 DEF Dealt
  <1>16. ASSUME NEW j \in Sides, NEW i \in 1 .. Done(j)'
         PROVE  Dealt(iteration, idx + j - 1, i)'
    <2>1. PICK g : g = idx + j - 1 /\ g = idx' + j - 1
      BY <1>1
    <2>2. CASE i \in 1 .. Done(j)
      <3>1. Dealt(p, g, i)
        BY <2>1, <2>2, <1>3, <1>4 DEF WireInv
      <3>2. Dealt(p, g, i)'
        BY <3>1, <1>14
      <3> QED BY <3>2, <2>1, <1>1, <1>3
    <2>3. CASE i \notin 1 .. Done(j)
      <3>1. j = k /\ i = Done(k) + 1
        BY <2>3, <1>5, <1>9
      <3>2. i = e.pos /\ g = f
        BY <3>1, <2>1, <1>3, <1>8
      <3> QED BY <3>2, <1>15, <2>1, <1>1, <1>3
    <2> QED BY <2>2, <2>3
  <1>17. InOrder'
    <2> SUFFICES ASSUME NEW i \in 1 .. Len(wire'), NEW j \in 1 .. Len(wire'), i < j,
                        wire'[i].pass = wire'[j].pass, wire'[i].file = wire'[j].file
                 PROVE  wire'[i].pos < wire'[j].pos
      BY DEF InOrder
    <2>1. CASE j \in 1 .. n
      <3>1. i \in 1 .. n
        BY <2>1, <1>7
      <3>2. wire'[i] = wire[i] /\ wire'[j] = wire[j] /\ i \in 1 .. Len(wire) /\ j \in 1 .. Len(wire)
        BY <2>1, <3>1, <1>3, <1>6
      <3>3. InOrder
        BY DEF WireInv
      <3> QED BY <3>2, <3>3 DEF InOrder
    <2>2. CASE j \notin 1 .. n
      <3>1. j = n + 1 /\ i \in 1 .. n
        BY <2>2, <1>6, <1>7
      <3>2. wire'[j] = e /\ wire'[i] = wire[i]
        BY <3>1, <1>6
      <3>3. wire[i].pass = iteration /\ wire[i].file = f /\ Placed(wire[i])
        BY <3>1, <3>2, <1>3, <1>8 DEF WireInv
      <3>4. PICK h \in Sides : wire[i].file = idx + h - 1 /\ wire[i].pos <= Done(h)
        BY <3>3 DEF Placed
      <3>5. h = k
        <4>1. idx + h - 1 = idx + k - 1
          BY <3>3, <3>4, <1>3
        <4>2. h \in 1 .. 2 /\ idx \in Nat
          BY <1>5
        <4> QED BY <4>1, <4>2
      <3>6. wire[i].pos <= Done(k) /\ wire[i].pos \in Nat
        BY <3>1, <3>4, <3>5, <1>7
      <3> QED BY <3>2, <3>6, <1>5, <1>8
    <2> QED BY <2>1, <2>2
  <1>18. ASSUME NEW g \in full'
         PROVE  /\ g[2] \in 1 .. Len(opt'.pcap)
                /\ \A i \in 1 .. Len(opt'.pcap[g[2]]) : Dealt(g[1], g[2], i)'
    BY <1>1, <1>14 DEF WireInv
  <1> QED BY <1>9, <1>13, <1>16, <1>17, <1>18 DEF WireInv

\* The files end: all of their packets have been dealt with
LEMMA WireEnds ==
  ASSUME NumberInv, WireInv, FileEnds
  PROVE  WireInv'
  <1>1. /\ pc = "head" /\ (abort \/ ~HasPacket) /\ pc' = "index" /\ iteration' = iteration + 1
        /\ full' = IF abort THEN full ELSE full \cup {<<iteration, idx + k - 1>> : k \in Sides}
        /\ UNCHANGED <<opt, wire, lost>>
    BY DEF FileEnds
  <1>2. InFile /\ ~InFile' /\ PlaceInv /\ iteration \in Nat
    BY <1>1 DEF InFile, NumberInv
  <1>3. \A e : Placed(e) /\ e.pass \in Nat => Placed(e)'
    BY <1>1, <1>2 DEF Placed
  <1>4. \A j \in 1 .. Len(wire) : wire[j].pass \in Nat
    <2>1. \A j \in 1 .. Len(wire) : wire[j] \in Entries
      BY Elements DEF NumberInv
    <2> QED BY <2>1 DEF Entries
  <1>5. \A j \in 1 .. Len(wire') : Placed(wire[j])'
    BY <1>1, <1>3, <1>4 DEF WireInv
  <1>6. \A p, f, i : Dealt(p, f, i) => Dealt(p, f, i)'
    BY <1>1, DealtStays
  <1>7. ASSUME ~abort, NEW k \in Sides
        PROVE  Done(k) = Len(File(k))
    <2>1. /\ k \in 1 .. 2 /\ Len(File(k)) \in Nat /\ opt \in Options
          /\ pos[k] \in Nat /\ pos[k] <= Len(File(k)) /\ data = [j \in 1 .. 2 |-> data[j]]
      BY <1>2, FilesAtHand DEF PlaceInv
    <2>2. Fetched[k] = 0
      BY <1>1, <1>7 DEF HasPacket
    <2>3. CASE opt.dual
      BY <2>2, <2>3 DEF Fetched, Done
    <2>4. CASE ~opt.dual
      <3>1. k = 1
        BY <2>1, <2>4, SidesAre
      <3>2. Ahead(1, pos[1]).data = 0
        BY <2>1, <2>2, <2>4, <3>1 DEF Fetched
      <3>3. ~(pos[1] < Len(File(1)))
        BY <2>1, <3>1, <3>2, AheadIs
      <3> QED BY <2>1, <2>4, <3>1, <3>3, <1>1 DEF Done
    <2> QED BY <2>3, <2>4
  <1>8. ASSUME NEW g \in full'
        PROVE  /\ g[2] \in 1 .. Len(opt.pcap)
               /\ \A i \in 1 .. Len(opt.pcap[g[2]]) : Dealt(g[1], g[2], i)
    <2>1. CASE g \in full
      BY <2>1 DEF WireInv
    <2>2. CASE g \notin full
      <3>1. PICK k \in Sides : g = <<iteration, idx + k - 1>>
        BY <1>1, <2>2
      <3>2. ~abort
        BY <1>1, <2>2
      <3>3. g[1] = iteration /\ g[2] = idx + k - 1
        BY <3>1
      <3>4. Done(k) = Len(opt.pcap[g[2]]) /\ g[2] \in 1 .. Len(opt.pcap)
        BY <3>2, <3>3, <1>2, <1>7, FilesAtHand DEF File
      <3>5. \A i \in 1 .. Done(k) : Dealt(iteration, idx + k - 1, i)
        BY <1>2 DEF WireInv
      <3> QED BY <3>3, <3>4, <3>5
    <2> QED BY <2>1, <2>2
  <1>9. \A g \in full' : /\ g[2] \in 1 .. Len(opt'.pcap)
                         /\ \A i \in 1 .. Len(opt'.pcap[g[2]]) : Dealt(g[1], g[2], i)'
    BY <1>1, <1>6, <1>8
  <1>10. InOrder'
    BY <1>1 DEF WireInv, InOrder
  <1> QED BY <1>2, <1>5, <1>9, <1>10 DEF WireInv

\* A packet is fetched and not sent: the cache file leaves it out, or it cannot be edited
LEMMA WireSkips ==
  ASSUME NumberInv, WireInv, NEW k \in 1 .. 2, NoSend(k) \/ EditFails(k)
  PROVE  WireInv'
  <1>1. /\ Take(k) /\ pc' = "head" /\ UNCHANGED <<opt, idx, wire, iteration, full>>
        /\ NoSend(k) => Interface(k, Fetched[k]) = 0 /\ lost' = lost
        /\ EditFails(k) => Lose(k, Fetched[k])
    BY DEF NoSend, EditFails, Take, count, hist
  <1>2. lost \subseteq lost'
    BY <1>1 DEF Lose
  <1>3. /\ PlaceInv /\ InFile /\ InFile' /\ k \in Sides /\ Fetched[k] = Done(k) + 1
        /\ \A j \in Sides : Done(j)' = IF ~opt.dual THEN Done(j) + 1 ELSE Done(j)
    BY <1>1, TakeIsNext, MoveTaken DEF NumberInv, InFile
  <1>4. ASSUME NEW j \in Sides
        PROVE  \/ Done(j)' = Done(j)
               \/ Done(j)' = Done(j) + 1 /\ Dealt(iteration, idx + j - 1, Done(j))'
    <2>1. CASE opt.dual
      BY <2>1, <1>3
    <2>2. CASE ~opt.dual
      <3>1. k = 1 /\ j = 1
        BY <2>2, <1>3, SidesAre DEF PlaceInv
      <3>2. PICK p, f, i : p = iteration /\ f = idx + j - 1 /\ i = Fetched[k]
        OBVIOUS
      <3>3. p = iteration' /\ f = idx' + j - 1 /\ i = Done(j)' /\ Done(j)' = Done(j) + 1
        BY <1>1, <1>3, <2>2, <3>1, <3>2
      <3>4. CASE NoSend(k)
        <4>1. Interface(1, i) = 0
          BY <3>1, <3>2, <3>4, <1>1
        <4>2. Dealt(p, f, i)'
          BY <4>1, <1>1 DEF Dealt, Interface
        <4> QED BY <3>3, <4>2
      <3>5. CASE EditFails(k)
        <4>1. <<p, f, i>> \in lost'
          BY <2>2, <3>1, <3>2, <3>5, <1>1 DEF Lose
        <4>2. Dealt(p, f, i)'
          BY <4>1 DEF Dealt
        <4> QED BY <3>3, <4>2
      <3> QED BY <3>4, <3>5
    <2> QED BY <2>1, <2>2
  <1>5. Onward
    BY <1>4 DEF Onward
  <1> QED BY <1>1, <1>2, <1>3, <1>5, WireInside

\* An interface fails: send_packets gives the packet up, send_dual_packets keeps it
LEMMA WireFails ==
  ASSUME NumberInv, WireInv, SendFails
  PROVE  WireInv'
  <1>1. /\ pc = "send" /\ pc' = "head" /\ UNCHANGED <<opt, idx, wire, iteration, full>>
        /\ Lose(out[1], data[out[1]])
    BY DEF SendFails, file, count
  <1>2. lost \subseteq lost'
    BY <1>1 DEF Lose
  <1>3. /\ PlaceInv /\ InFile /\ InFile' /\ out[1] \in Sides /\ data[out[1]] = Done(out[1]) + 1
        /\ \A j \in Sides : Done(j)' = IF opt.dual THEN Done(j) ELSE Done(j) + 1
    BY <1>1, AtHand, MoveFailed DEF NumberInv, InFile
  <1>4. ASSUME NEW j \in Sides
        PROVE  \/ Done(j)' = Done(j)
               \/ Done(j)' = Done(j) + 1 /\ Dealt(iteration, idx + j - 1, Done(j))'
    <2>1. CASE opt.dual
      BY <2>1, <1>3
    <2>2. CASE ~opt.dual
      <3>1. out[1] = 1 /\ j = 1
        BY <2>2, <1>3, SidesAre DEF PlaceInv
      <3>2. PICK p, f, i : p = iteration /\ f = idx + j - 1 /\ i = data[1]
        OBVIOUS
      <3>3. p = iteration' /\ f = idx' + j - 1 /\ i = Done(j)' /\ Done(j)' = Done(j) + 1
        BY <1>1, <1>3, <2>2, <3>1, <3>2
      <3>4. <<p, f, i>> \in lost'
        BY <2>2, <3>1, <3>2, <1>1 DEF Lose
      <3>5. Dealt(p, f, i)'
        BY <3>4 DEF Dealt
      <3> QED BY <3>3, <3>5
    <2> QED BY <2>1, <2>2
  <1>5. Onward
    BY <1>4 DEF Onward
  <1> QED BY <1>1, <1>2, <1>3, <1>5, WireInside

LEMMA WireNext == NumberInv /\ WireInv /\ [Next]_vars => WireInv'
  <1> SUFFICES ASSUME NumberInv, WireInv, [Next]_vars PROVE WireInv'
    OBVIOUS
  <1>0. PlaceInv
    BY DEF NumberInv
  <1>1. CASE Loop \/ OpenFails \/ IndexEnds
    <2>1. ~InFile /\ ~InFile' /\ UNCHANGED <<opt, wire, iteration, lost, full>>
      BY <1>1 DEF Loop, OpenFails, IndexEnds, Index, InFile, count, hist
    <2> QED BY <2>1, WireOutside
  <1>2. CASE Open
    <2>1. ~InFile /\ UNCHANGED <<wire, iteration, lost, full>>
      BY <1>2 DEF Open, Index, InFile, count, hist
    <2>2. InFile' /\ opt' = opt /\ idx' = idx /\ \A k \in Sides : Done(k)' = 0
      BY <1>0, <1>2, MoveOpened
    <2>3. Sides' = Sides
      BY <2>2 DEF Sides
    <2>4. \A e : Placed(e) => Placed(e)'
      BY <2>1, <2>2 DEF Placed
    <2>5. \A p, f, i : Dealt(p, f, i) => Dealt(p, f, i)'
      BY <2>1, <2>2, DealtStays
    <2>6. \A k \in Sides' : 1 .. Done(k)' = {}
      BY <2>2, <2>3
    <2> QED BY <2>1, <2>2, <2>4, <2>5, <2>6 DEF WireInv, InOrder
  <1>3. ASSUME NEW k \in 1 .. 2, NoSend(k) \/ EditFails(k)
        PROVE  WireInv'
    BY <1>3, WireSkips
  <1>4. ASSUME NEW k \in 1 .. 2, Prepare(k)
        PROVE  WireInv'
    <2>1. /\ Take(k) /\ pc' = "send" /\ UNCHANGED <<opt, idx, wire, iteration, lost, full>>
      BY <1>4 DEF Prepare, count, hist
    <2>2. InFile /\ InFile' /\ \A j \in Sides : Done(j)' = Done(j)
      BY <1>0, <2>1, TakeIsNext, MoveTaken DEF InFile
    <2>3. Onward
      BY <2>2 DEF Onward
    <2> QED BY <2>1, <2>2, <2>3, WireInside
  <1>5. CASE FileEnds
    BY <1>5, WireEnds
  <1>6. CASE Transmit
    BY <1>6, WireSent
  <1>7. CASE SendFails
    BY <1>7, WireFails
  <1>8. CASE AbortStep \/ UNCHANGED vars
    <2>1. UNCHANGED <<opt, pc, idx, pos, data, wire, iteration, lost, full>>
      BY <1>8 DEF AbortStep, vars, file, count, hist
    <2>2. InFile' = InFile /\ Sides' = Sides /\ \A k \in Sides : Done(k)' = Done(k)
      BY <2>1 DEF InFile, Sides, Done, File
    <2>3. \A e : Placed(e) => Placed(e)'
      BY <2>1, <2>2 DEF Placed
    <2>4. \A p, f, i : Dealt(p, f, i) => Dealt(p, f, i)'
      BY <2>1, DealtStays
    <2> QED BY <2>1, <2>2, <2>3, <2>4 DEF WireInv, InOrder
  <1> QED
    BY <1>1, <1>2, <1>3, <1>4, <1>5, <1>6, <1>7, <1>8 DEF Next, Step

\* Every pass sends each file in its order and no packet twice, and a pass that was not cut
\* short sends all that it is to send, for all captures, command lines and failures
\* (send_packets, send_dual_packets and their cache).
THEOREM PassesAreReplays == Spec => []WireIsReplay
  <1>1. NumberInv /\ WireInv => WireIsReplay
    <2> SUFFICES ASSUME NumberInv, WireInv PROVE WireIsReplay
      OBVIOUS
    <2>1. DOMAIN wire = 1 .. Len(wire)
      BY Elements DEF NumberInv
    <2>2. ToSet(wire) = {wire[j] : j \in 1 .. Len(wire)}
      BY <2>1 DEF ToSet
    <2>3. ASSUME NEW f \in full, NEW i \in DOMAIN opt.pcap[f[2]]
          PROVE  \/ Interface(1, i) = 0
                 \/ <<f[1], f[2], i>> \in lost
                 \/ \E e \in ToSet(wire) : e.pass = f[1] /\ e.file = f[2] /\ e.pos = i
      <3>1. f[2] \in 1 .. Len(opt.pcap) /\ opt \in Options
        BY DEF WireInv, NumberInv, PlaceInv
      <3>2. i \in 1 .. Len(opt.pcap[f[2]])
        BY <3>1, Files
      <3>3. Dealt(f[1], f[2], i)
        BY <3>2 DEF WireInv
      <3> QED BY <3>3, <2>2 DEF Dealt
    <2> QED BY <2>1, <2>3 DEF WireIsReplay, WireInv, InOrder
  <1>2. Init => NumberInv /\ WireInv
    BY NumberInit, WireInit
  <1>3. NumberInv /\ WireInv /\ [Next]_vars => NumberInv' /\ WireInv'
    BY NumberNext, WireNext
  <1> QED BY <1>1, <1>2, <1>3, PTL DEF Spec

--------------------------------------------------------------------------------
(* The pace *)

Rising(s) == \A i, j \in DOMAIN s : i < j => s[i].ts <= s[j].ts

\* A time stamp does not exceed all of a capture, of which d packets have been dealt with,
\* nor, when its time stamps ascend, any of those that are left
Below(s, l, d) ==
  /\ l # 0 /\ d < Len(s) => \E i \in 1 .. Len(s) : l <= s[i].ts
  /\ Rising(s) => \A i \in 1 .. Len(s) : i > d => l <= s[i].ts

\* The last time stamp is the latest so far, and no packet is left behind by it: two files
\* are merged by time
AheadInv ==
  InFile =>
    /\ \A k \in Sides : Below(File(k), lastTs, Done(k))
    /\ pc = "send" => lastTs >= Packet.ts

\* d is how far the time stamps are ahead of the clock: the latest one when e was sent is not
\* before that of e, and is that of e when time stamps ascend
Peaked(c, e, d) ==
  /\ d + e.at >= c[e.file][e.pos].ts
  /\ Rising(c[e.file]) => d + e.at = c[e.file][e.pos].ts

Apart(c, a, b) ==
  /\ Rising(c[a.file]) /\ Rising(c[b.file]) => b.at - a.at = c[b.file][b.pos].ts - c[a.file][a.pos].ts
  /\ \E i \in 1 .. Len(c[b.file]) : b.at - a.at <= c[b.file][i].ts - c[a.file][a.pos].ts

PaceInv ==
  /\ AheadInv
  /\ \A j \in 1 .. Len(wire) :
       wire[j].pass = iteration => lastTs # 0 /\ Peaked(opt.pcap, wire[j], lastTs - slept)
  /\ \A i, j \in 1 .. Len(wire) :
       i < j /\ wire[i].pass = wire[j].pass => Apart(opt.pcap, wire[i], wire[j])

LEMMA BelowLater ==
  ASSUME NEW s, NEW l, NEW d \in Nat, NEW e \in Nat, d <= e, Len(s) \in Nat, Below(s, l, d)
  PROVE  Below(s, l, e)
  BY DEF Below

\* A later time stamp, that of a packet which is not after the next one of this capture
LEMMA BelowRaised ==
  ASSUME NEW s, NEW l \in Nat, NEW d \in Nat, NEW ts \in Nat, Len(s) \in Nat,
         DOMAIN s = 1 .. Len(s), \A i \in 1 .. Len(s) : s[i].ts \in Nat,
         d < Len(s) => ts <= s[d + 1].ts, Below(s, l, d)
  PROVE  Below(s, IF l = 0 \/ ts > l THEN ts ELSE l, d)
  <1> DEFINE m == IF l = 0 \/ ts > l THEN ts ELSE l
  <1>1. m = ts \/ (m = l /\ l # 0)
    OBVIOUS
  <1>2. CASE m = ts
    <2>1. ASSUME d < Len(s)
          PROVE  \E i \in 1 .. Len(s) : ts <= s[i].ts
      <3>1. d + 1 \in 1 .. Len(s)
        BY <2>1
      <3> QED BY <2>1, <3>1
    <2>2. ASSUME Rising(s), NEW i \in 1 .. Len(s), i > d
          PROVE  ts <= s[i].ts
      <3>1. d + 1 \in 1 .. Len(s) /\ d < Len(s) /\ (i = d + 1 \/ d + 1 < i)
        BY <2>2
      <3>2. s[d + 1].ts <= s[i].ts
        BY <2>2, <3>1 DEF Rising
      <3> QED BY <3>1, <3>2
    <2> QED BY <1>2, <2>1, <2>2 DEF Below
  <1>3. CASE m = l /\ l # 0
    BY <1>3
  <1> QED BY <1>1, <1>2, <1>3

\* The clock did not move, and the files not back
LEMMA AheadInside ==
  ASSUME PlaceInv, AheadInv, InFile, pc' = "head", UNCHANGED <<opt, idx, lastTs>>,
         \A k \in Sides : Done(k)' \in {Done(k), Done(k) + 1}
  PROVE  AheadInv'
  <1>1. Sides' = Sides /\ InFile' /\ pc' # "send" /\ \A k \in Sides : File(k)' = File(k)
    BY DEF Sides, InFile, File
  <1>2. ASSUME NEW k \in Sides
        PROVE  Below(File(k), lastTs, Done(k)')
    <2>1. Done(k) \in Nat /\ Len(File(k)) \in Nat
      BY FilesAtHand
    <2>2. Done(k)' \in Nat /\ Done(k) <= Done(k)'
      BY <2>1
    <2>3. Below(File(k), lastTs, Done(k))
      BY DEF AheadInv
    <2> QED BY <2>1, <2>2, <2>3, BelowLater
  <1> QED BY <1>1, <1>2 DEF AheadInv

\* A packet is taken that is to be sent: the earlier one of two
LEMMA AheadTaken ==
  ASSUME NumberInv, AheadInv, NEW k \in 1 .. 2, Prepare(k)
  PROVE  AheadInv'
  <1>1. /\ Take(k) /\ pc' = "send" /\ opt' = opt /\ idx' = idx
        /\ Pace(File(k)[Fetched[k]].ts) /\ out' = <<k, Interface(k, Fetched[k])>>
    BY DEF Prepare
  <1>2. /\ PlaceInv /\ ClockInv /\ InFile /\ k \in Sides
        /\ Done(k) < Len(File(k)) /\ Fetched[k] = Done(k) + 1
        /\ opt.dual => Fetched = data /\ data[k] # 0
        /\ opt.dual => \A j \in Sides : data[j] # 0 => File(k)[data[k]].ts <= File(j)[data[j]].ts
    BY <1>1, TakeIsNext DEF NumberInv
  <1>3. /\ data'[k] = Done(k) + 1 /\ \A j \in Sides : Done(j)' = Done(j)
    BY <1>1, <1>2, MoveTaken
  <1>4. PICK ts : ts = File(k)[Fetched[k]].ts
    OBVIOUS
  <1>5. ts \in Nat \ {0}
    <2>1. Fetched[k] \in 1 .. Len(File(k))
      BY <1>2, FilesAtHand
    <2> QED BY <2>1, <1>2, <1>4, FilesAtHand
  <1>6. lastTs' = (IF lastTs = 0 \/ ts > lastTs THEN ts ELSE lastTs) /\ lastTs \in Nat
    BY <1>1, <1>2, <1>4, <1>5, PaceFollows DEF ClockInv
  <1>7. ASSUME NEW j \in Sides
        PROVE  Below(File(j), lastTs', Done(j))
    <2>1. /\ Len(File(j)) \in Nat /\ DOMAIN File(j) = 1 .. Len(File(j))
          /\ \A i \in 1 .. Len(File(j)) : File(j)[i].ts \in Nat
          /\ Done(j) \in 0 .. Len(File(j))
      BY <1>2, FilesAtHand
    <2>2. Below(File(j), lastTs, Done(j))
      BY <1>2 DEF AheadInv
    <2>3. Done(j) < Len(File(j)) => ts <= File(j)[Done(j) + 1].ts
      <3>1. CASE j = k
        <4>1. Done(j) + 1 \in 1 .. Len(File(j))
          BY <3>1, <1>2, <2>1
        <4> QED BY <3>1, <4>1, <1>2, <1>4, <1>5
      <3>2. CASE j # k
        <4>1. opt.dual
          BY <3>2, <1>2, SidesAre DEF PlaceInv
        <4>2. j \in 1 .. 2 /\ data[j] \in Nat
          BY <1>2, FilesAtHand DEF PlaceInv
        <4>3. Done(j) < Len(File(j)) => data[j] # 0 /\ data[j] = Done(j) + 1
          BY <4>1, <4>2, <2>1 DEF Done
        <4> QED BY <4>1, <4>3, <1>2, <1>4
      <3> QED BY <3>1, <3>2
    <2>4. Done(j) \in Nat /\ ts \in Nat
      BY <2>1, <1>5
    <2> QED BY <1>6, <2>1, <2>2, <2>3, <2>4, BelowRaised
  <1>8. lastTs' >= Packet'.ts
    <2>1. Packet' = File(k)[Fetched[k]]
      BY <1>1, <1>2, <1>3 DEF Packet, File
    <2> QED BY <2>1, <1>4, <1>5, <1>6
  <1>9. Sides' = Sides /\ \A j \in Sides : File(j)' = File(j)
    BY <1>1 DEF Sides, File
  <1> QED BY <1>3, <1>7, <1>8, <1>9 DEF AheadInv

\* Nothing is sent, and the clock keeps its distance from the time stamps
LEMMA PaceQuiet ==
  ASSUME PaceInv, AheadInv', UNCHANGED <<opt, wire, iteration>>,
         lastTs # 0 => lastTs' # 0 /\ lastTs' - slept' = lastTs - slept
  PROVE  PaceInv'
  BY DEF PaceInv

\* A packet is sent: its file may still reach the last time stamp
LEMMA PaceSent ==
  ASSUME NumberInv, WireInv, PaceInv, Transmit
  PROVE  PaceInv'
  <1>1. /\ UNCHANGED <<opt, idx, iteration, lastTs, slept>> /\ pc = "send" /\ pc' = "head"
    BY DEF Transmit, count, pace
  <1>2. PICK k \in 1 .. 2 : k = out[1]
    BY <1>1, AtHand DEF NumberInv
  <1>3. PICK n, e :
          /\ n = Len(wire)
          /\ e = [pass |-> iteration, file |-> idx + k - 1, pos |-> data[k],
                  edit |-> moved[k], at |-> slept]
    OBVIOUS
  <1>4. /\ Len(wire') = n + 1 /\ wire'[n + 1] = e
        /\ \A j \in 1 .. n : wire'[j] = wire[j]
    BY <1>2, <1>3, Sent
  <1>5. /\ k \in Sides /\ InFile /\ data[k] = Done(k) + 1 /\ Done(k) < Len(File(k)) /\ PlaceInv
    BY <1>1, <1>2, AtHand DEF NumberInv
  <1>6. /\ Len(File(k)) \in Nat /\ DOMAIN File(k) = 1 .. Len(File(k)) /\ Done(k) \in Nat
        /\ \A i \in 1 .. Len(File(k)) : File(k)[i].ts \in Nat \ {0}
        /\ \A j \in Sides : Done(j) \in Nat
    BY <1>5, FilesAtHand
  <1>7. File(k) = opt.pcap[e.file] /\ e.pos = Done(k) + 1 /\ e.at = slept /\ e.pass = iteration
    BY <1>3, <1>5 DEF File
  <1>8. /\ e.pos \in 1 .. Len(File(k)) /\ e.pos > Done(k)
        /\ File(k)[e.pos].ts \in Nat \ {0}
    BY <1>5, <1>6, <1>7
  <1>9. /\ lastTs \in Nat /\ slept \in Nat /\ n \in Nat /\ wire \in Seq(Entries)
    <2>1. n \in Nat
      BY <1>3, Elements DEF NumberInv
    <2> QED BY <2>1 DEF NumberInv, ClockInv
  <1>10. /\ lastTs >= File(k)[e.pos].ts /\ lastTs # 0
         /\ \E i \in 1 .. Len(File(k)) : lastTs <= File(k)[i].ts
         /\ Rising(File(k)) => lastTs = File(k)[e.pos].ts
    <2>1. Below(File(k), lastTs, Done(k)) /\ lastTs >= Packet.ts
      BY <1>1, <1>5 DEF PaceInv, AheadInv
    <2>2. Packet = File(k)[e.pos]
      BY <1>2, <1>3 DEF Packet
    <2>3. lastTs >= File(k)[e.pos].ts /\ lastTs # 0
      BY <2>1, <2>2, <1>8, <1>9
    <2>4. Rising(File(k)) => lastTs <= File(k)[e.pos].ts
      BY <2>1, <1>8 DEF Below
    <2> QED BY <2>1, <2>3, <2>4, <1>5, <1>8, <1>9 DEF Below
  <1>11. Peaked(opt.pcap, e, lastTs - slept)
    <2>1. lastTs - slept + e.at = lastTs
      <3>1. \A l, c \in Nat : l - c + c = l
        OBVIOUS
      <3> QED BY <3>1, <1>7, <1>9
    <2>2. lastTs - slept + e.at >= File(k)[e.pos].ts
      BY <2>1, <1>10
    <2>3. Rising(File(k)) => lastTs - slept + e.at = File(k)[e.pos].ts
      BY <2>1, <1>10
    <2> QED BY <2>2, <2>3, <1>7 DEF Peaked
  <1>12. ASSUME NEW i \in 1 .. n, wire[i].pass = iteration
         PROVE  Apart(opt.pcap, wire[i], e)
    <2>1. Peaked(opt.pcap, wire[i], lastTs - slept) /\ Placed(wire[i])
      BY <1>3, <1>12 DEF PaceInv, WireInv
    <2>2. wire[i] \in Entries
      BY <1>3, <1>9, Elements
    <2>3. opt.pcap[wire[i].file][wire[i].pos].ts \in Nat
      <3>1. wire[i].file \in 1 .. Len(opt.pcap) /\ wire[i].pos \in 1 .. Len(opt.pcap[wire[i].file])
        BY <2>1 DEF Placed
      <3> QED BY <3>1, <1>5, Files DEF PlaceInv
    <2>4. PICK a, t, u : a = wire[i].at /\ t = opt.pcap[wire[i].file][wire[i].pos].ts /\ u = File(k)[e.pos].ts
      OBVIOUS
    <2>5. a \in Nat /\ t \in Nat /\ u \in Nat
      BY <2>2, <2>3, <2>4, <1>8 DEF Entries
    <2>6. lastTs - slept + a >= t /\ (Rising(opt.pcap[wire[i].file]) => lastTs - slept + a = t)
      BY <2>1, <2>4 DEF Peaked
    <2>7. Rising(opt.pcap[wire[i].file]) /\ Rising(opt.pcap[e.file]) => e.at - a = u - t
      <3>1. \A l, c \in Nat : l - c + a = t /\ l = u => c - a = u - t
        BY <2>5
      <3>2. Rising(opt.pcap[e.file]) => lastTs = u
        BY <2>4, <1>7, <1>10
      <3>3. Rising(opt.pcap[wire[i].file]) => lastTs - slept + a = t
        BY <2>6
      <3> QED BY <3>1, <3>2, <3>3, <1>7, <1>9
    <2>8. PICK x \in 1 .. Len(File(k)) : lastTs <= File(k)[x].ts
      BY <1>10
    <2>9. e.at - a <= File(k)[x].ts - t
      <3>1. \A l, c, y \in Nat : l - c + a >= t /\ l <= y => c - a <= y - t
        BY <2>5
      <3>2. File(k)[x].ts \in Nat
        BY <1>6
      <3> QED BY <3>1, <3>2, <2>6, <2>8, <1>7, <1>9
    <2> QED BY <2>4, <2>7, <2>8, <2>9, <1>7 DEF Apart
  <1>13. AheadInv'
    <2>1. \A j \in Sides : Done(j)' \in {Done(j), Done(j) + 1}
      BY <1>5, MoveSent
    <2> QED BY <2>1, <1>1, <1>5, AheadInside DEF PaceInv
  <1>14. ASSUME NEW j \in 1 .. Len(wire'), wire'[j].pass = iteration
         PROVE  lastTs # 0 /\ Peaked(opt.pcap, wire'[j], lastTs - slept)
    <2>1. CASE j \in 1 .. n
      BY <2>1, <1>3, <1>4, <1>14 DEF PaceInv
    <2>2. CASE j = n + 1
      BY <2>2, <1>4, <1>10, <1>11
    <2> QED BY <2>1, <2>2, <1>4, <1>9
  <1>15. ASSUME NEW i \in 1 .. Len(wire'), NEW j \in 1 .. Len(wire'), i < j,
                wire'[i].pass = wire'[j].pass
         PROVE  Apart(opt.pcap, wire'[i], wire'[j])
    <2>1. i \in 1 .. n
      BY <1>4, <1>9, <1>15
    <2>2. CASE j \in 1 .. n
      BY <2>1, <2>2, <1>3, <1>4, <1>15 DEF PaceInv
    <2>3. CASE j = n + 1
      BY <2>1, <2>3, <1>4, <1>7, <1>12, <1>15
    <2> QED BY <2>2, <2>3, <1>4, <1>9
  <1> QED BY <1>1, <1>13, <1>14, <1>15 DEF PaceInv

LEMMA PaceInit == Init => PaceInv
  BY DEF Init, PaceInv, AheadInv, InFile

LEMMA PaceNext == NumberInv /\ WireInv /\ PaceInv /\ [Next]_vars => PaceInv'
  <1> SUFFICES ASSUME NumberInv, WireInv, PaceInv, [Next]_vars PROVE PaceInv'
    OBVIOUS
  <1>0. PlaceInv /\ AheadInv
    BY DEF NumberInv, PaceInv
  <1>1. CASE Loop \/ OpenFails \/ IndexEnds
    <2>1. ~InFile' /\ UNCHANGED <<opt, wire, iteration, lastTs, slept>>
      BY <1>1 DEF Loop, OpenFails, IndexEnds, Index, InFile, count, pace, hist
    <2> QED BY <2>1, PaceQuiet DEF AheadInv
  <1>2. CASE Open
    <2>1. ~InFile /\ pc' = "head" /\ lastTs' = 0 /\ UNCHANGED <<opt, idx, wire, iteration>>
      BY <1>2 DEF Open, Index, InFile, count, hist
    <2>2. \A j \in 1 .. Len(wire) : wire[j].pass # iteration
      BY <2>1 DEF WireInv, Placed
    <2>3. Sides' = Sides /\ \A k \in Sides : Done(k)' = 0 /\ File(k)' = File(k)
      BY <1>0, <1>2, <2>1, MoveOpened DEF Sides, File
    <2>4. ASSUME NEW k \in Sides
          PROVE  Below(File(k), 0, 0)
      <3>1. idx + k - 1 \in 1 .. Len(opt.pcap)
        <4>1. k \in 1 .. 2 /\ idx \in Nat \ {0} /\ opt \in Options /\ opt.pcap \in Seq(Seq([ts : Nat \ {0}, kind : Kind]))
          BY <1>0, SidesAre, OptionTypes DEF PlaceInv
        <4>2. idx + k - 1 <= Len(opt.pcap) /\ Len(opt.pcap) \in Nat
          BY <1>0, <1>2, <4>1, MoveOpened, Elements
        <4> QED BY <4>1, <4>2
      <3>2. \A i \in 1 .. Len(File(k)) : File(k)[i].ts \in Nat \ {0}
        BY <1>0, <3>1, Files DEF PlaceInv, File
      <3> QED BY <3>2 DEF Below
    <2>5. AheadInv'
      BY <2>1, <2>3, <2>4 DEF AheadInv
    <2> QED BY <2>1, <2>2, <2>5 DEF PaceInv
  <1>3. ASSUME NEW k \in 1 .. 2, NoSend(k) \/ EditFails(k)
        PROVE  PaceInv'
    <2>1. Take(k) /\ pc' = "head" /\ UNCHANGED <<opt, idx, wire, iteration, lastTs, slept>>
      BY <1>3 DEF NoSend, EditFails, Take, count, pace, hist
    <2>2. InFile /\ \A j \in Sides : Done(j)' \in {Done(j), Done(j) + 1}
      BY <1>0, <2>1, TakeIsNext, MoveTaken
    <2>3. AheadInv'
      BY <1>0, <2>1, <2>2, AheadInside
    <2> QED BY <2>1, <2>3, PaceQuiet
  <1>4. ASSUME NEW k \in 1 .. 2, Prepare(k)
        PROVE  PaceInv'
    <2>1. AheadInv'
      BY <1>0, <1>4, AheadTaken
    <2>2. /\ Take(k) /\ Pace(File(k)[Fetched[k]].ts) /\ UNCHANGED <<opt, wire, iteration>>
      BY <1>4 DEF Prepare, count, hist
    <2>3. InFile /\ k \in Sides /\ Done(k) < Len(File(k)) /\ Fetched[k] = Done(k) + 1
      BY <1>0, <2>2, TakeIsNext
    <2>4. File(k)[Fetched[k]].ts \in Nat \ {0}
      <3>1. Fetched[k] \in 1 .. Len(File(k))
        BY <1>0, <2>3, FilesAtHand
      <3> QED BY <3>1, <1>0, <2>3, FilesAtHand
    <2>5. PICK ts \in Nat \ {0} : ts = File(k)[Fetched[k]].ts
      BY <2>4
    <2>6. /\ ClockInv /\ ClockInv'
          /\ lastTs' = IF lastTs = 0 \/ ts > lastTs THEN ts ELSE lastTs
          /\ lastTs # 0 => slept' - lastTs' = slept - lastTs
      BY <2>2, <2>5, PaceFollows DEF NumberInv
    <2>7. lastTs # 0 => lastTs' # 0 /\ lastTs' - slept' = lastTs - slept
      <3>1. lastTs \in Nat /\ lastTs' \in Nat /\ slept \in Nat /\ slept' \in Nat
        BY <2>6 DEF ClockInv
      <3> QED BY <3>1, <2>5, <2>6
    <2> QED BY <2>1, <2>2, <2>7, PaceQuiet
  <1>5. CASE FileEnds
    <2>1. ~InFile' /\ iteration' = iteration + 1 /\ UNCHANGED <<opt, wire>>
      BY <1>5 DEF FileEnds, InFile
    <2>2. \A j \in 1 .. Len(wire) : wire[j].pass # iteration'
      <3>1. iteration \in Nat /\ \A j \in 1 .. Len(wire) : wire[j] \in Entries
        BY Elements DEF NumberInv
      <3>2. \A j \in 1 .. Len(wire) : wire[j].pass \in Nat /\ wire[j].pass <= iteration
        BY <3>1 DEF WireInv, Placed, Entries
      <3> QED BY <2>1, <3>1, <3>2
    <2> QED BY <2>1, <2>2 DEF PaceInv, AheadInv
  <1>6. CASE Transmit
    BY <1>6, PaceSent
  <1>7. CASE SendFails
    <2>1. pc = "send" /\ pc' = "head" /\ UNCHANGED <<opt, idx, wire, iteration, lastTs, slept>>
      BY <1>7 DEF SendFails, file, count, pace
    <2>2. InFile /\ \A j \in Sides : Done(j)' \in {Done(j), Done(j) + 1}
      BY <1>0, <1>7, <2>1, MoveFailed DEF InFile
    <2>3. AheadInv'
      BY <1>0, <2>1, <2>2, AheadInside
    <2> QED BY <2>1, <2>3, PaceQuiet
  <1>8. CASE AbortStep \/ UNCHANGED vars
    <2>1. UNCHANGED <<opt, pc, idx, pos, data, out, wire, iteration, lastTs, slept>>
      BY <1>8 DEF AbortStep, vars, file, count, pace, hist
    <2>2. AheadInv'
      BY <1>0, <2>1 DEF AheadInv, InFile, Sides, Done, File, Packet
    <2> QED BY <2>1, <2>2, PaceQuiet
  <1> QED
    BY <1>1, <1>2, <1>3, <1>4, <1>5, <1>6, <1>7, <1>8 DEF Next, Step

\* Two packets of a pass are as far apart as in the captures when time stamps ascend, whatever
\* failed or was left out in between, and no time is slept twice when they do not
\* (calc_sleep_time, tcpr_sleep and the merge of two files by time).
THEOREM PassesArePaced == Spec => []Paced
  <1>1. NumberInv /\ WireInv /\ PaceInv => Paced
    <2> SUFFICES ASSUME NumberInv, WireInv, PaceInv, NEW i \in DOMAIN wire, NEW j \in DOMAIN wire,
                        i < j, wire[i].pass = wire[j].pass
                 PROVE  LET a == wire[i]  b == wire[j] IN
                        /\ Ascending(a.file) /\ Ascending(b.file) => b.at - a.at = Ts(b) - Ts(a)
                        /\ \E x \in Stamps(b.file) : b.at - a.at <= x - Ts(a)
      BY DEF Paced
    <2>1. i \in 1 .. Len(wire) /\ j \in 1 .. Len(wire)
      BY Elements DEF NumberInv
    <2>2. Apart(opt.pcap, wire[i], wire[j])
      BY <2>1 DEF PaceInv
    <2>3. \A f : Ascending(f) => Rising(opt.pcap[f])
      BY DEF Ascending, Rising
    <2>4. wire[j].file \in 1 .. Len(opt.pcap) /\ opt \in Options
      BY <2>1 DEF WireInv, Placed, NumberInv, PlaceInv
    <2>5. DOMAIN opt.pcap[wire[j].file] = 1 .. Len(opt.pcap[wire[j].file])
      BY <2>4, Files
    <2>6. \A x \in 1 .. Len(opt.pcap[wire[j].file]) : opt.pcap[wire[j].file][x].ts \in Stamps(wire[j].file)
      BY <2>5 DEF Stamps
    <2> QED BY <2>2, <2>3, <2>6 DEF Apart, Ts
  <1>2. Init => NumberInv /\ WireInv /\ PaceInv
    BY NumberInit, WireInit, PaceInit
  <1>3. NumberInv /\ WireInv /\ PaceInv /\ [Next]_vars => NumberInv' /\ WireInv' /\ PaceInv'
    BY NumberNext, WireNext, PaceNext
  <1> QED BY <1>1, <1>2, <1>3, PTL DEF Spec

--------------------------------------------------------------------------------
(* Fresh addresses for each pass, --unique-ip-loops 1 *)

\* In the first pass unique is not above last, in all others it is
CountersInv ==
  /\ unique = IF iteration = 0 THEN 0 ELSE iteration + 1
  /\ last = IF iteration <= 1 THEN 0 ELSE iteration

\* Packet i of file f has not been sent with the edit m, nor with a later one
Fresher(w, f, i, m) ==
  \A j \in 1 .. Len(w) : w[j].file = f /\ w[j].pos = i => w[j].edit < m

\* In the cache a packet is edited on and on
CachedInv ==
  /\ \A j \in 1 .. Len(wire) : wire[j].edit <= edits[wire[j].file][wire[j].pos]
  /\ \A i, j \in 1 .. Len(wire) :
       i < j /\ wire[i].file = wire[j].file /\ wire[i].pos = wire[j].pos => wire[i].edit < wire[j].edit
  /\ pc = "send" =>
       /\ moved[out[1]] = edits[idx + out[1] - 1][data[out[1]]]
       /\ Fresher(wire, idx + out[1] - 1, data[out[1]], moved[out[1]])

\* In the buffer it is edited by the number of the pass
BufferInv ==
  /\ \A j \in 1 .. Len(wire) : wire[j].edit = wire[j].pass
  /\ pc = "send" => moved[1] = iteration

FreshInv ==
  opt.unique = 1 =>
    /\ CountersInv
    /\ opt.preload => CachedInv
    /\ ~opt.preload /\ ~opt.dual => BufferInv

\* Packets are edited from the second pass on
LEMMA EditingSince ==
  ASSUME iteration \in Nat, CountersInv
  PROVE  Editing <=> opt.unique > 0 /\ iteration > 0
  BY DEF CountersInv, Editing

\* Each file or pair of files is a pass of its own
LEMMA CountersEnd ==
  ASSUME opt.unique = 1, iteration \in Nat, CountersInv, FileEnds
  PROVE  CountersInv'
  <1>1. iteration' = iteration + 1 /\ last' = unique /\ unique' = NextUnique(iteration + 1)
    BY DEF FileEnds
  <1>2. \A n \in Nat : (n * 1000) \div 1000 = n
    OBVIOUS
  <1>3. NextUnique(iteration + 1) = iteration + 2
    <2>1. iteration + 1 \in Nat /\ opt.unique * 1000 = 1000
      OBVIOUS
    <2>2. ((iteration + 1) * 1000) \div 1000 = iteration + 1
      BY <1>2, <2>1
    <2> QED BY <2>1, <2>2 DEF NextUnique
  <1> QED BY <1>1, <1>3 DEF CountersInv

\* Nothing is sent or edited
LEMMA FreshQuiet ==
  ASSUME FreshInv, pc' # "send", UNCHANGED <<opt, wire, edits, iteration, unique, last>>
  PROVE  FreshInv'
  BY DEF FreshInv, CountersInv, CachedInv, BufferInv

\* What the entries of the wire are
LEMMA OnWire ==
  ASSUME NumberInv, WireInv, NEW j \in 1 .. Len(wire)
  PROVE  /\ wire[j].edit \in Nat /\ wire[j].pass \in Nat /\ wire[j].pass <= iteration
         /\ wire[j].file \in 1 .. Len(opt.pcap)
         /\ wire[j].pos \in 1 .. Len(opt.pcap[wire[j].file])
         /\ edits[wire[j].file][wire[j].pos] \in Nat
  <1>1. wire[j] \in Entries /\ Placed(wire[j])
    BY Elements DEF NumberInv, WireInv
  <1>2. /\ wire[j].pass <= iteration
        /\ wire[j].file \in 1 .. Len(opt.pcap)
        /\ wire[j].pos \in 1 .. Len(opt.pcap[wire[j].file])
    BY <1>1 DEF Placed
  <1>3. edits[wire[j].file] \in [1 .. Len(opt.pcap[wire[j].file]) -> Nat]
    BY <1>2 DEF NumberInv, CacheInv
  <1> QED BY <1>1, <1>2, <1>3 DEF Entries

\* A packet of the cache is edited: in the first pass it has not been sent before
LEMMA CachedTaken ==
  ASSUME NumberInv, WireInv, opt.unique = 1, opt.preload, CountersInv, CachedInv,
         NEW k \in 1 .. 2, Prepare(k)
  PROVE  CachedInv'
  <1>1. /\ Take(k) /\ Edit(k, Fetched[k]) /\ pc' = "send" /\ out'[1] = k
        /\ UNCHANGED <<opt, idx, wire, iteration>>
    BY DEF Prepare, count, hist
  <1>2. /\ PlaceInv /\ InFile /\ k \in Sides /\ Done(k) < Len(File(k)) /\ Fetched[k] = Done(k) + 1
        /\ data'[k] = Done(k) + 1
    BY <1>1, TakeIsNext, MoveTaken DEF NumberInv
  <1>3. /\ Len(File(k)) \in Nat /\ Done(k) \in Nat /\ idx + k - 1 \in 1 .. Len(opt.pcap)
        /\ \A h \in Sides : h \in 1 .. 2
    BY <1>2, FilesAtHand
  <1>4. PICK f, i, m : f = idx + k - 1 /\ i = Done(k) + 1 /\ m = moved'[k]
    OBVIOUS
  <1>5. i \in 1 .. Len(opt.pcap[f]) /\ f \in 1 .. Len(opt.pcap)
    BY <1>2, <1>3, <1>4 DEF File
  <1>6. /\ m = edits[f][i] + IF Editing THEN 1 ELSE 0
        /\ \A g \in 1 .. Len(opt.pcap) : \A n \in 1 .. Len(opt.pcap[g]) :
             edits'[g][n] = IF g = f /\ n = i THEN m ELSE edits[g][n]
    <2>1. Fetched[k] \in 1 .. Len(File(k)) /\ Fetched[k] = i
      BY <1>2, <1>3, <1>4
    <2>2. i \in 1 .. Len(File(k)) /\ Edit(k, i) /\ opt' = opt
      BY <2>1, <1>1
    <2>3. /\ moved'[k] = edits[idx + k - 1][i] + IF Editing THEN 1 ELSE 0
          /\ \A g \in 1 .. Len(opt.pcap) : \A n \in 1 .. Len(opt.pcap[g]) :
               edits'[g][n] = IF g = idx + k - 1 /\ n = i THEN moved'[k] ELSE edits[g][n]
      BY <2>2, <1>2, EditMoves
    <2> QED BY <2>3, <1>4
  <1>7. Editing <=> iteration > 0
    BY EditingSince DEF NumberInv
  <1>8. edits[f][i] \in Nat
    BY <1>5 DEF NumberInv, CacheInv
  <1>9. m \in Nat /\ m >= edits[f][i]
    BY <1>6, <1>8
  <1>10. ASSUME NEW j \in 1 .. Len(wire), wire[j].file = f, wire[j].pos = i
         PROVE  wire[j].edit < m
    <2>1. wire[j].edit \in Nat /\ wire[j].pass \in Nat /\ wire[j].pass <= iteration /\ iteration \in Nat
      BY OnWire DEF NumberInv
    <2>2. wire[j].edit <= edits[f][i]
      BY <1>10 DEF CachedInv
    <2>3. CASE iteration > 0
      BY <2>1, <2>2, <2>3, <1>6, <1>7, <1>8
    <2>4. CASE ~(iteration > 0)
      <3>1. wire[j].pass = iteration
        BY <2>1, <2>4
      <3>2. PICK h \in Sides : wire[j].file = idx + h - 1 /\ wire[j].pos <= Done(h)
        BY <3>1 DEF WireInv, Placed
      <3>3. h = k
        <4>1. h \in 1 .. 2 /\ idx \in Nat /\ idx + h - 1 = idx + k - 1
          BY <3>2, <1>2, <1>3, <1>4, <1>10 DEF PlaceInv
        <4> QED BY <4>1
      <3>4. i <= Done(k)
        BY <3>2, <3>3, <1>10
      <3> QED BY <3>4, <1>3, <1>4
    <2> QED BY <2>3, <2>4
  <1>11. ASSUME NEW j \in 1 .. Len(wire)
         PROVE  wire[j].edit <= edits'[wire[j].file][wire[j].pos]
    <2>1. /\ wire[j].edit \in Nat /\ wire[j].file \in 1 .. Len(opt.pcap)
          /\ wire[j].pos \in 1 .. Len(opt.pcap[wire[j].file])
      BY OnWire
    <2>2. CASE wire[j].file = f /\ wire[j].pos = i
      <3>1. edits'[wire[j].file][wire[j].pos] = m
        BY <2>1, <2>2, <1>6
      <3>2. wire[j].edit < m
        BY <2>2, <1>10
      <3> QED BY <2>1, <3>1, <3>2, <1>9
    <2>3. CASE ~(wire[j].file = f /\ wire[j].pos = i)
      <3>1. edits'[wire[j].file][wire[j].pos] = edits[wire[j].file][wire[j].pos]
        BY <2>1, <2>3, <1>6
      <3> QED BY <3>1 DEF CachedInv
    <2> QED BY <2>2, <2>3
  <1>12. Fresher(wire, f, i, m)
    BY <1>10 DEF Fresher
  <1>13. moved'[k] = m /\ m = edits'[f][i] /\ f = idx' + k - 1 /\ i = data'[k]
    BY <1>1, <1>2, <1>4, <1>5, <1>6
  <1> QED BY <1>1, <1>11, <1>12, <1>13 DEF CachedInv

\* A packet of the cache is sent
LEMMA CachedSent ==
  ASSUME NumberInv, WireInv, CachedInv, Transmit
  PROVE  CachedInv'
  <1>1. pc = "send" /\ pc' = "head" /\ edits' = edits
    BY DEF Transmit
  <1>2. PICK k \in 1 .. 2 : k = out[1]
    BY <1>1, AtHand DEF NumberInv
  <1>3. PICK n, e :
          /\ n = Len(wire)
          /\ e = [pass |-> iteration, file |-> idx + k - 1, pos |-> data[k],
                  edit |-> moved[k], at |-> slept]
    OBVIOUS
  <1>4. /\ Len(wire') = n + 1 /\ wire'[n + 1] = e /\ wire' \in Seq(Entries)
        /\ \A j \in 1 .. n : wire'[j] = wire[j]
    BY <1>2, <1>3, Sent
  <1>5. n \in Nat
    BY <1>3, Elements DEF NumberInv
  <1>6. e \in Entries
    BY <1>4, <1>5, Elements
  <1>7. e.edit = edits[e.file][e.pos] /\ Fresher(wire, e.file, e.pos, e.edit) /\ e.edit \in Nat
    BY <1>1, <1>2, <1>3, <1>6 DEF CachedInv, Entries
  <1>8. ASSUME NEW j \in 1 .. Len(wire')
        PROVE  wire'[j].edit <= edits[wire'[j].file][wire'[j].pos]
    <2>1. CASE j \in 1 .. n
      BY <2>1, <1>3, <1>4 DEF CachedInv
    <2>2. CASE j = n + 1
      BY <2>2, <1>4, <1>7
    <2> QED BY <2>1, <2>2, <1>4, <1>5
  <1>9. ASSUME NEW i \in 1 .. Len(wire'), NEW j \in 1 .. Len(wire'), i < j,
               wire'[i].file = wire'[j].file, wire'[i].pos = wire'[j].pos
        PROVE  wire'[i].edit < wire'[j].edit
    <2>1. i \in 1 .. n
      BY <1>4, <1>5, <1>9
    <2>2. CASE j \in 1 .. n
      BY <2>1, <2>2, <1>3, <1>4, <1>9 DEF CachedInv
    <2>3. CASE j = n + 1
      BY <2>1, <2>3, <1>3, <1>4, <1>7, <1>9 DEF Fresher
    <2> QED BY <2>2, <2>3, <1>4, <1>5
  <1> QED BY <1>1, <1>8, <1>9 DEF CachedInv

\* A packet of the buffer is edited by the number of the pass
LEMMA BufferTaken ==
  ASSUME NumberInv, opt.unique = 1, ~opt.preload, ~opt.dual, CountersInv, BufferInv,
         NEW k \in 1 .. 2, Prepare(k)
  PROVE  BufferInv'
  <1>1. /\ Take(k) /\ Edit(k, Fetched[k]) /\ UNCHANGED <<opt, wire, iteration>>
    BY DEF Prepare, count, hist
  <1>2. /\ PlaceInv /\ InFile /\ k \in Sides /\ Done(k) < Len(File(k)) /\ Fetched[k] = Done(k) + 1
    BY <1>1, TakeIsNext DEF NumberInv
  <1>3. k = 1
    BY <1>2, SidesAre DEF PlaceInv
  <1>4. Fetched[k] \in 1 .. Len(File(k))
    BY <1>2, FilesAtHand
  <1>5. moved'[k] = IF Editing THEN unique - 1 ELSE 0
    BY <1>1, <1>2, <1>4, EditMoves
  <1>6. iteration \in Nat
    BY DEF NumberInv
  <1>7. moved'[1] = iteration
    BY <1>3, <1>5, <1>6, EditingSince DEF CountersInv
  <1> QED BY <1>1, <1>7 DEF BufferInv

\* A packet of the buffer is sent
LEMMA BufferSent ==
  ASSUME NumberInv, ~opt.dual, BufferInv, Transmit
  PROVE  BufferInv'
  <1>1. pc = "send" /\ pc' = "head"
    BY DEF Transmit
  <1>2. out[1] = 1
    BY <1>1, AtHand, SidesAre DEF NumberInv, PlaceInv
  <1>3. PICK n, e :
          /\ n = Len(wire)
          /\ e = [pass |-> iteration, file |-> idx + 1 - 1, pos |-> data[1],
                  edit |-> moved[1], at |-> slept]
    OBVIOUS
  <1>4. /\ Len(wire') = n + 1 /\ wire'[n + 1] = e
        /\ \A j \in 1 .. n : wire'[j] = wire[j]
    BY <1>2, <1>3, Sent
  <1>5. n \in Nat
    BY <1>3, Elements DEF NumberInv
  <1>6. e.edit = e.pass
    BY <1>1, <1>3 DEF BufferInv
  <1>7. ASSUME NEW j \in 1 .. Len(wire')
        PROVE  wire'[j].edit = wire'[j].pass
    <2>1. CASE j \in 1 .. n
      BY <2>1, <1>3, <1>4 DEF BufferInv
    <2>2. CASE j = n + 1
      BY <2>2, <1>4, <1>6
    <2> QED BY <2>1, <2>2, <1>4, <1>5
  <1> QED BY <1>1, <1>7 DEF BufferInv

LEMMA FreshInit == Init => FreshInv
  BY DEF Init, FreshInv, CountersInv, CachedInv, BufferInv

LEMMA FreshNext == NumberInv /\ WireInv /\ FreshInv /\ [Next]_vars => FreshInv'
  <1> SUFFICES ASSUME NumberInv, WireInv, FreshInv, [Next]_vars PROVE FreshInv'
    OBVIOUS
  <1>1. CASE Loop
    BY <1>1, FreshQuiet DEF Loop, file, count, hist
  <1>2. CASE OpenFails
    BY <1>2, FreshQuiet DEF OpenFails, Index, file, count, hist
  <1>3. CASE Open
    BY <1>3, FreshQuiet DEF Open, count, hist
  <1>4. CASE IndexEnds
    BY <1>4, FreshQuiet DEF IndexEnds, file, count, hist
  <1>5. ASSUME NEW k \in 1 .. 2, NoSend(k)
        PROVE  FreshInv'
    BY <1>5, FreshQuiet DEF NoSend, Take, count, hist
  <1>6. ASSUME NEW k \in 1 .. 2, EditFails(k)
        PROVE  FreshInv'
    BY <1>6, FreshQuiet DEF EditFails, Take, count
  <1>7. ASSUME NEW k \in 1 .. 2, Prepare(k)
        PROVE  FreshInv'
    <2>1. UNCHANGED <<opt, iteration, unique, last>>
      BY <1>7 DEF Prepare, count
    <2>2. opt.unique = 1 => CountersInv /\ CountersInv'
      BY <2>1 DEF FreshInv, CountersInv
    <2>3. opt.unique = 1 /\ opt.preload => CachedInv'
      BY <1>7, <2>2, CachedTaken DEF FreshInv
    <2>4. opt.unique = 1 /\ ~opt.preload /\ ~opt.dual => BufferInv'
      BY <1>7, <2>2, BufferTaken DEF FreshInv
    <2> QED BY <2>1, <2>2, <2>3, <2>4 DEF FreshInv
  <1>8. CASE FileEnds
    <2>1. UNCHANGED <<opt, wire, edits>> /\ pc' = "index"
      BY <1>8 DEF FileEnds, file
    <2>2. opt.unique = 1 => CountersInv'
      BY <1>8, CountersEnd DEF FreshInv, NumberInv
    <2>3. /\ CachedInv => CachedInv'
          /\ BufferInv => BufferInv'
      BY <2>1 DEF CachedInv, BufferInv
    <2> QED BY <2>1, <2>2, <2>3 DEF FreshInv
  <1>9. CASE Transmit
    <2>1. UNCHANGED <<opt, iteration, unique, last>>
      BY <1>9 DEF Transmit, count
    <2>2. opt.unique = 1 => CountersInv'
      BY <2>1 DEF FreshInv, CountersInv
    <2>3. opt.unique = 1 /\ opt.preload => CachedInv'
      BY <1>9, CachedSent DEF FreshInv
    <2>4. opt.unique = 1 /\ ~opt.preload /\ ~opt.dual => BufferInv'
      BY <1>9, BufferSent DEF FreshInv
    <2> QED BY <2>1, <2>2, <2>3, <2>4 DEF FreshInv
  <1>10. CASE SendFails
    BY <1>10, FreshQuiet DEF SendFails, file, count
  <1>11. CASE AbortStep \/ UNCHANGED vars
    <2>1. UNCHANGED <<opt, pc, idx, data, out, moved, edits, iteration, unique, last, wire>>
      BY <1>11 DEF AbortStep, vars, file, count, hist
    <2> QED BY <2>1 DEF FreshInv, CountersInv, CachedInv, BufferInv
  <1> QED
    BY <1>1, <1>2, <1>3, <1>4, <1>5, <1>6, <1>7, <1>8, <1>9, <1>10, <1>11 DEF Next, Step

\* With --unique-ip no packet has the same addresses in two passes, from the cache, where it
\* is edited on and on, or from one file (increment_iteration, fast_edit_packet).
THEOREM PassesAreFresh == Spec => []FreshEachPass
  <1>1. NumberInv /\ WireInv /\ FreshInv => FreshEachPass
    <2> SUFFICES ASSUME NumberInv, WireInv, FreshInv, opt.unique = 1, ~opt.dual \/ opt.preload,
                        NEW i \in DOMAIN wire, NEW j \in DOMAIN wire, i # j,
                        wire[i].file = wire[j].file, wire[i].pos = wire[j].pos
                 PROVE  wire[i].edit # wire[j].edit
      BY DEF FreshEachPass
    <2>1. i \in 1 .. Len(wire) /\ j \in 1 .. Len(wire) /\ Len(wire) \in Nat
      BY Elements DEF NumberInv
    <2>2. i < j \/ j < i
      BY <2>1
    <2>3. /\ wire[i].edit \in Nat /\ wire[j].edit \in Nat
          /\ wire[i].pos \in Nat /\ wire[j].pos \in Nat
      <3>1. wire[i] \in Entries /\ wire[j] \in Entries
        BY <2>1, Elements DEF NumberInv
      <3> QED BY <3>1 DEF Entries
    <2>4. CASE opt.preload
      <3>1. wire[i].edit < wire[j].edit \/ wire[j].edit < wire[i].edit
        BY <2>1, <2>2, <2>4 DEF FreshInv, CachedInv
      <3> QED BY <2>3, <3>1
    <2>5. CASE ~opt.preload
      <3>1. wire[i].edit = wire[i].pass /\ wire[j].edit = wire[j].pass
        BY <2>1, <2>5 DEF FreshInv, BufferInv
      <3>2. wire[i].pass = wire[j].pass => wire[i].pos < wire[j].pos \/ wire[j].pos < wire[i].pos
        BY <2>1, <2>2 DEF WireInv, InOrder
      <3> QED BY <2>3, <3>1, <3>2
    <2> QED BY <2>4, <2>5
  <1>2. Init => NumberInv /\ WireInv /\ FreshInv
    BY NumberInit, WireInit, FreshInit
  <1>3. NumberInv /\ WireInv /\ FreshInv /\ [Next]_vars => NumberInv' /\ WireInv' /\ FreshInv'
    BY NumberNext, WireNext, FreshNext
  <1> QED BY <1>1, <1>2, <1>3, PTL DEF Spec
================================================================================
