---------------------------- MODULE Forwarding_proofs ----------------------------
(***************************************************************************)
(* Who takes a frame, and what is counted, for any topology, any table     *)
(* order, any frames and any pace of the script that fills the table.      *)
(***************************************************************************)
EXTENDS Forwarding, ModularArithmetic

\* Frames as the switch leaves them are frames, with any ttl
AnyFrame ==
  [ipv4 : BOOLEAN, proto : {"UDP", "other"}, ttl : 0 .. TtlMod - 1, sum : BOOLEAN,
   src : Hosts, dst : Hosts \cup {Far}, dstMac : Hosts \cup {NoMac}]

FromHost == came # CPU_PORT

\* What is on a link: the frame of port 0, of an entry, or of the default entry
OnLink ==
  at = "link" /\ FromHost =>
    \/ port = 0 /\ (settled => ~Parsed(sent))
    \/ /\ Parsed(sent) /\ sent.dst \in Hosts
       /\ port = PortOf[sent.dst] /\ frame = Forwarded(sent, sent.dst)
    \/ Parsed(sent) /\ port = Default /\ frame = Forwarded(sent, NoMac)

FInv ==
  /\ done \in Nat
  /\ at \in {"nowhere", "switch", "link", "host"}
  /\ at # "nowhere" => frame \in AnyFrame /\ sent \in AnyFrame
  /\ at = "switch" => frame = sent
  /\ at \in {"switch", "link"} /\ settled => HasDefault
  /\ at = "host" => \E h \in Hosts : PortOf[h] = port
  /\ at = "link" /\ counted => Parsed(sent)
  /\ OnLink
  /\ TakenByAddressee

LEMMA Topology ==
  /\ TtlMod \in Nat \ {0} /\ Len(Host) \in Nat
  /\ \A k \in 1 .. Len(Host) : Host[k] \in Hosts
  /\ \A h \in Hosts : PortOf[h] \in Nat /\ PortOf[h] # 0 /\ PortOf[h] # CPU_PORT
  /\ Default \in Nat /\ Default # 0
  /\ NoMac \notin Hosts
BY TopologyAssumption

LEMMA FrameIsAny == Frame \subseteq AnyFrame
BY TopologyAssumption DEF Frame, AnyFrame

\* A frame that is forwarded has one hop less: no ttl wraps
LEMMA ForwardedFrame ==
  ASSUME NEW f \in AnyFrame, NEW mac \in Hosts \cup {NoMac}
  PROVE  /\ Forwarded(f, mac) \in AnyFrame
         /\ Parsed(f) => Forwarded(f, mac) = [f EXCEPT !.ttl = @ - 1, !.dstMac = mac, !.sum = TRUE]
<1>1. f.ttl \in 0 .. TtlMod - 1 /\ TtlMod \in Nat \ {0}
  BY Topology DEF AnyFrame
<1>2. (f.ttl - 1) % TtlMod \in 0 .. TtlMod - 1
  <2>1. f.ttl - 1 \in Int
    BY <1>1
  <2> QED
    BY <1>1, <2>1, DivMod
<1>3. f.ttl > 0 => (f.ttl - 1) % TtlMod = f.ttl - 1
  BY <1>1, ModSmall
<1> QED
  BY <1>2, <1>3 DEF Forwarded, AnyFrame, Parsed

LEMMA InitInv == Init => FInv
BY DEF Init, FInv, OnLink, TakenByAddressee

LEMMA StepInv == FInv /\ [Next]_vars => FInv'
<1> SUFFICES ASSUME FInv, [Next]_vars PROVE FInv'
  OBVIOUS
<1> USE DEF FromHost
<1>1. CASE Insert
  <2>1. ~HasDefault
    BY <1>1, Topology DEF Insert, HasDefault
  <2> QED
    BY <1>1, <2>1, Topology DEF Insert, FInv, OnLink, TakenByAddressee, Parsed, Forwarded
<1>2. ASSUME NEW f \in Frame, NEW p \in Ports, Send(f, p) PROVE FInv'
  BY <1>2, FrameIsAny DEF Send, FInv, OnLink, TakenByAddressee, HasDefault
<1>3. CASE Ingress
  <2>1. at = "switch" /\ frame = sent /\ frame \in AnyFrame /\ came # CPU_PORT
    BY <1>3 DEF Ingress, FInv
  <2>2. /\ at' = "link" /\ UNCHANGED <<done, came, sent, settled>>
        /\ counted' => Parsed(sent)
    BY <1>3, <2>1 DEF Ingress
  <2>3. CASE ~Parsed(frame)
    <3>1. port' = 0 /\ frame' = [frame EXCEPT !.sum = @ \/ frame.ipv4]
      BY <1>3, <2>3 DEF Ingress
    <3>2. frame' \in AnyFrame
      BY <3>1, <2>1 DEF AnyFrame
    <3> QED
      BY <2>1, <2>2, <2>3, <3>1, <3>2 DEF FInv, OnLink, TakenByAddressee, HasDefault, Parsed
  <2>4. CASE Parsed(frame) /\ Known(frame.dst)
    <3>1. port' = PortOf[sent.dst] /\ frame' = Forwarded(sent, sent.dst)
      BY <1>3, <2>1, <2>4 DEF Ingress, Lookup
    <3>2. sent.dst \in Hosts
      BY <2>1, <2>4, Topology DEF Known, FInv
    <3>3. frame' \in AnyFrame
      BY <3>1, <3>2, <2>1, ForwardedFrame
    <3>4. OnLink'
      BY <2>1, <2>2, <2>4, <3>1, <3>2 DEF OnLink, Parsed, Forwarded
    <3> QED
      BY <2>1, <2>2, <3>3, <3>4 DEF FInv, TakenByAddressee, HasDefault, Parsed
  <2>5. CASE Parsed(frame) /\ ~Known(frame.dst) /\ HasDefault
    <3>1. port' = Default /\ frame' = Forwarded(sent, NoMac)
      BY <1>3, <2>1, <2>5 DEF Ingress, Lookup
    <3>2. frame' \in AnyFrame
      BY <3>1, <2>1, ForwardedFrame
    <3>3. OnLink'
      BY <2>1, <2>2, <2>5, <3>1 DEF OnLink, Parsed, Forwarded
    <3> QED
      BY <2>1, <2>2, <3>2, <3>3 DEF FInv, TakenByAddressee, HasDefault, Parsed
  <2>6. CASE Parsed(frame) /\ ~Known(frame.dst) /\ ~HasDefault
    <3>1. port' = 0 /\ frame' = [frame EXCEPT !.sum = TRUE]
      BY <1>3, <2>6 DEF Ingress, Lookup
    <3>2. frame' \in AnyFrame
      BY <3>1, <2>1 DEF AnyFrame
    <3>3. ~settled
      BY <2>1, <2>6 DEF FInv
    <3> QED
      BY <2>1, <2>2, <3>1, <3>2, <3>3 DEF FInv, OnLink, TakenByAddressee, HasDefault, Parsed
  <2> QED
    BY <2>3, <2>4, <2>5, <2>6
<1>4. ASSUME NEW p \in Ports \cup {0}, IngressFromCpu(p) PROVE FInv'
  <2>1. frame' \in AnyFrame /\ sent' \in AnyFrame
    BY <1>4 DEF IngressFromCpu, FInv, AnyFrame
  <2> QED
    BY <1>4, <2>1 DEF IngressFromCpu, FInv, OnLink, TakenByAddressee, HasDefault, Parsed
<1>5. CASE Receive
  <2>1. PICK h \in Hosts : PortOf[h] = port /\ frame.dstMac = h
    BY <1>5 DEF Receive
  <2>2. at = "link" /\ at' = "host" /\ UNCHANGED <<done, came, port, frame, sent, settled, counted>>
    BY <1>5 DEF Receive
  <2>3. came # CPU_PORT =>
          /\ sent.dst \in Hosts /\ PortOf[sent.dst] = port
          /\ frame = [sent EXCEPT !.ttl = @ - 1, !.dstMac = sent.dst, !.sum = TRUE]
    <3> SUFFICES ASSUME came # CPU_PORT
                 PROVE  /\ sent.dst \in Hosts /\ PortOf[sent.dst] = port
                        /\ frame = [sent EXCEPT !.ttl = @ - 1, !.dstMac = sent.dst, !.sum = TRUE]
      OBVIOUS
    <3>1. sent \in AnyFrame
      BY <2>2 DEF FInv
    <3>2. port # 0
      BY <2>1, Topology
    <3>3. Forwarded(sent, NoMac).dstMac = NoMac
      BY <3>1 DEF Forwarded, AnyFrame
    <3>4. frame # Forwarded(sent, NoMac)
      BY <3>3, <2>1, Topology
    <3>5. /\ Parsed(sent) /\ sent.dst \in Hosts
          /\ port = PortOf[sent.dst] /\ frame = Forwarded(sent, sent.dst)
      BY <2>2, <3>2, <3>4 DEF FInv, OnLink
    <3> QED
      BY <3>1, <3>5, ForwardedFrame
  <2> QED
    BY <2>1, <2>2, <2>3 DEF FInv, OnLink, TakenByAddressee
<1>6. CASE Lost
  BY <1>6 DEF Lost, FInv, OnLink, TakenByAddressee
<1>7. CASE Keep
  BY <1>7 DEF Keep, FInv, OnLink, TakenByAddressee
<1>8. ASSUME NEW ttl \in Ttl, Reply(ttl) PROVE FInv'
  <2> DEFINE h == CHOOSE x \in Hosts : PortOf[x] = port
  <2>1. h \in Hosts /\ frame \in AnyFrame
    BY <1>8 DEF Reply, FInv
  <2>2. /\ frame' = [frame EXCEPT !.src = h, !.dst = frame.src, !.dstMac = NoMac, !.ttl = ttl]
        /\ sent' = frame' /\ at' = "switch" /\ settled' = HasDefault /\ done' = done
        /\ counted' = FALSE
    BY <1>8 DEF Reply
  <2>3. frame' \in AnyFrame
    BY <2>1, <2>2, TopologyAssumption DEF AnyFrame
  <2> QED
    BY <2>2, <2>3 DEF FInv, OnLink, TakenByAddressee, HasDefault
<1>9. CASE UNCHANGED vars
  BY <1>9 DEF vars, FInv, OnLink, TakenByAddressee, HasDefault, Parsed, Forwarded
<1> QED
  BY <1>1, <1>2, <1>3, <1>4, <1>5, <1>6, <1>7, <1>8, <1>9 DEF Next, Switch

LEMMA InvHolds == Spec => []FInv
BY InitInv, StepInv, PTL DEF Spec

\* Only the host a frame is addressed to takes it, with one hop less, its own address and
\* a right checksum, whatever entries the table of ipv4_lpm has by then.
THEOREM FramesReachNobodyElse == Spec => []TakenByAddressee
<1>1. FInv => TakenByAddressee
  BY DEF FInv
<1> QED
  BY <1>1, InvHolds, PTL

\* What the flow tracker counts of a host's frames sent when the table is complete leaves
\* by a port with a host on it (ipv4_lpm with its default entry).
THEOREM CountedIsForwarded == Spec => []CountedFramesPass
<1>1. FInv => CountedFramesPass
  BY Topology DEF FInv, OnLink, FromHost, CountedFramesPass
<1> QED
  BY <1>1, InvHolds, PTL
================================================================================
