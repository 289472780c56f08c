------------------------------- MODULE Forwarding -------------------------------
(***************************************************************************)
(* The path of one frame through the switch and back: parser, the ttl test *)
(* of the ingress control, ipv4_forwarding, packetio_egress, the checksum  *)
(* and the deparser, between hosts on the ports that main.py's topology    *)
(* gives them.  The forwarding entries are inserted one by one while       *)
(* frames already come in.  The switch handles a frame in one step.        *)
(***************************************************************************)
EXTENDS Integers, Sequences

CONSTANTS
  Host,     \* the hosts, in the order main.py inserts their entries
  PortOf,   \* PortOf[h]: the port of the link to host h
  Default,  \* the port of the default entry
  Far,      \* an address that is no host's
  NoMac,    \* 00:00:00:00:00:00
  CPU_PORT, \* the port of the controller
  TtlMod,   \* 2^8, the width of hdr.ipv4.ttl
  Ttl,      \* values of ttl that hosts send
  NoFrame

Hosts == {Host[k] : k \in DOMAIN Host}
Ports == {PortOf[h] : h \in Hosts} \cup {CPU_PORT}

ASSUME TopologyAssumption ==
  /\ Host \in Seq(Hosts)
  /\ PortOf \in [Hosts -> Nat \ {0}]
  /\ Default \in {PortOf[h] : h \in Hosts}
  /\ CPU_PORT \notin {PortOf[h] : h \in Hosts} \cup {0}
  /\ Far \notin Hosts /\ NoMac \notin Hosts
  /\ TtlMod \in Nat \ {0}
  /\ Ttl \subseteq 0 .. TtlMod - 1

VARIABLES
  done,   \* the forwarding entries main.py has inserted
  at,     \* where the frame is: "nowhere", "switch", "link" or "host"
  came,   \* the port it came in by; 0 before there is a frame
  port,   \* the port it leaves by; 0 leads nowhere
  frame,
  sent,   \* the frame as its sender made it
  settled,\* all entries were there when it was sent
  counted \* the flow tracker has counted it

vars == <<done, at, came, port, frame, sent, settled, counted>>

\* What may come in.  A MAC address is the host that has it; sum says whether
\* hdrChecksum is right.
Frame ==
  [ipv4 : BOOLEAN, proto : {"UDP", "other"}, ttl : Ttl, sum : BOOLEAN,
   src : Hosts, dst : Hosts \cup {Far}, dstMac : Hosts \cup {NoMac}]

--------------------------------------------------------------------------------
(* main.py: one entry for each host, then the default action *)

Insert ==
  /\ done <= Len(Host)
  /\ done' = done + 1
  /\ UNCHANGED <<at, came, port, frame, sent, settled, counted>>

Known(a) == \E k \in 1 .. done : k <= Len(Host) /\ Host[k] = a

HasDefault == done = Len(Host) + 1

--------------------------------------------------------------------------------
(* The ingress control *)

Parsed(f) == f.ipv4 /\ f.ttl > 0

\* Mutant: the frame goes out with the address it came with
KeptMac(f, mac) == [f EXCEPT !.ttl = (@ - 1) % TtlMod, !.sum = TRUE]

\* ipv4_forward, and the checksum that is computed on the way out
Forwarded(f, mac) == [f EXCEPT !.ttl = (@ - 1) % TtlMod, !.dstMac = mac, !.sum = TRUE]

\* Mutant: the default entry is not installed as the default
LookupExactOnly(f) ==
  IF Known(f.dst) THEN [port |-> PortOf[f.dst], frame |-> Forwarded(f, f.dst)]
  ELSE [port |-> 0, frame |-> [f EXCEPT !.sum = TRUE]]

\* The table: an entry, the default entry, or the empty drop(), which leaves egress_spec
\* at 0 and the header as it is
Lookup(f) ==
  IF Known(f.dst) THEN [port |-> PortOf[f.dst], frame |-> Forwarded(f, f.dst)]
  ELSE IF HasDefault THEN [port |-> Default, frame |-> Forwarded(f, NoMac)]
  ELSE [port |-> 0, frame |-> [f EXCEPT !.sum = TRUE]]

\* Mutant: the test of ttl is dropped
IngressAnyTtl ==
  /\ at = "switch" /\ came # CPU_PORT
  /\ LET r == IF frame.ipv4 THEN Lookup(frame) ELSE [port |-> 0, frame |-> frame]
     IN  port' = r.port /\ frame' = r.frame
  /\ counted' = (frame.ipv4 /\ frame.proto = "UDP")
  /\ at' = "link"
  /\ UNCHANGED <<done, came, sent, settled>>

\* A frame from a host.  What is not IPv4, or has no ttl left, is not forwarded, but
\* its checksum is computed too; UDP goes on to the flow tracker
Ingress ==
  /\ at = "switch" /\ came # CPU_PORT
  /\ LET r == IF Parsed(frame) THEN Lookup(frame)
              ELSE [port |-> 0, frame |-> [frame EXCEPT !.sum = @ \/ frame.ipv4]]
     IN  port' = r.port /\ frame' = r.frame
  /\ counted' = (Parsed(frame) /\ frame.proto = "UDP")
  /\ at' = "link"
  /\ UNCHANGED <<done, came, sent, settled>>

\* A frame from the controller: its packet_out header names the port
IngressFromCpu(p) ==
  /\ at = "switch" /\ came = CPU_PORT
  /\ port' = IF Parsed(frame) THEN p ELSE 0
  /\ frame' = [frame EXCEPT !.sum = @ \/ frame.ipv4]
  /\ counted' = (Parsed(frame) /\ frame.proto = "UDP")
  /\ at' = "link"
  /\ UNCHANGED <<done, came, sent, settled>>

--------------------------------------------------------------------------------
(* Hosts *)

Send(f, p) ==
  /\ at = "nowhere"
  /\ at' = "switch"
  /\ came' = p
  /\ frame' = f /\ sent' = f
  /\ settled' = HasDefault
  /\ UNCHANGED <<done, port, counted>>

\* The host on the port takes the frame if it has its MAC; port 0 leads nowhere
Receive ==
  /\ at = "link"
  /\ \E h \in Hosts : PortOf[h] = port /\ frame.dstMac = h
  /\ at' = "host"
  /\ UNCHANGED <<done, came, port, frame, sent, settled, counted>>

Lost ==
  /\ at = "link"
  /\ \A h \in Hosts : PortOf[h] # port \/ frame.dstMac # h
  /\ at' = "nowhere" /\ came' = 0 /\ port' = 0
  /\ frame' = NoFrame /\ sent' = NoFrame
  /\ settled' = FALSE /\ counted' = FALSE
  /\ UNCHANGED done

\* The host answers to the address the frame came from
Reply(ttl) ==
  /\ at = "host"
  /\ LET h == CHOOSE x \in Hosts : PortOf[x] = port
         r == [frame EXCEPT !.src = h, !.dst = frame.src, !.dstMac = NoMac, !.ttl = ttl]
     IN  frame' = r /\ sent' = r
  /\ at' = "switch" /\ came' = port /\ port' = 0
  /\ settled' = HasDefault
  /\ counted' = FALSE
  /\ UNCHANGED done

Keep ==
  /\ at = "host"
  /\ at' = "nowhere" /\ came' = 0 /\ port' = 0
  /\ frame' = NoFrame /\ sent' = NoFrame
  /\ settled' = FALSE /\ counted' = FALSE
  /\ UNCHANGED done

Init ==
  /\ done = 0
  /\ at = "nowhere" /\ came = 0 /\ port = 0
  /\ frame = NoFrame /\ sent = NoFrame
  /\ settled = FALSE /\ counted = FALSE

Switch == Ingress \/ \E p \in Ports \cup {0} : IngressFromCpu(p)

Next ==
  \/ Insert
  \/ \E f \in Frame, p \in Ports : p \in {CPU_PORT, PortOf[f.src]} /\ Send(f, p)
  \/ Switch
  \/ Receive \/ Lost \/ Keep
  \/ \E ttl \in Ttl : Reply(ttl)

\* The switch handles what came in and a link delivers; hosts need not send or answer,
\* and the tables may be filled as slowly as they like
Spec == Init /\ [][Next]_vars /\ WF_vars(Switch) /\ WF_vars(Receive)

--------------------------------------------------------------------------------
(* Properties *)

\* A host that takes a frame of another host is the one it is addressed to, and gets it
\* with one hop less, its own address and a right checksum, however many entries were
\* there: a half-filled table (main.py:54-91) hands nobody's frame to somebody else.
TakenByAddressee ==
  at = "host" /\ came # CPU_PORT =>
    /\ sent.dst \in Hosts /\ PortOf[sent.dst] = port
    /\ frame = [sent EXCEPT !.ttl = @ - 1, !.dstMac = sent.dst, !.sum = TRUE]

\* Once the entries are there, every frame of a host that the flow tracker counts also
\* leaves to a host, whatever its destination: windows describe traffic that passed.
\* Before, drop() lets what it should drop reach the tracker (actions.p4:6).
CountedFramesPass ==
  at = "link" /\ counted /\ settled /\ came # CPU_PORT => port # 0

\* Once the entries are there, a frame that has a ttl left reaches the host it is
\* addressed to.
Delivery ==
  \A h \in Hosts :
    (at = "switch" /\ settled /\ came # CPU_PORT /\ Parsed(frame) /\ frame.dst = h)
      ~> (at = "host" /\ port = PortOf[h])
================================================================================
