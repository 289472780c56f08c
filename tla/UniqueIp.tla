-------------------------------- MODULE UniqueIp --------------------------------
(***************************************************************************)
(* fast_edit_packet of tcpreplay: with --unique-ip, the source and the     *)
(* destination of a packet move apart, or towards each other, by as much,  *)
(* so that every pass of a capture is a new set of conversations and no    *)
(* checksum has to be computed anew.  One packet of one file, sent pass by *)
(* pass, edited in the file's buffer or, with --preload-pcap, in place in  *)
(* the cache.  The last 32 bits of an IPv6 address are treated alike.      *)
(***************************************************************************)
EXTENDS Integers, Sequences

CONSTANTS
  Word,      \* 2^16, the modulus of a checksum's words
  CountMod,  \* 2^64, the width of COUNTER
  Addr,      \* the addresses packets come with
  Loops,     \* values of --unique-ip-loops
  MaxPass    \* bounds the passes

AddrMod == Word * Word

ASSUME WidthAssumption ==
  /\ Word \in Nat /\ Word > 1
  /\ CountMod \in Nat /\ CountMod >= AddrMod
  /\ Addr \subseteq 0 .. AddrMod - 1
  /\ Loops \subseteq Nat \ {0}
  /\ MaxPass \in Nat

VARIABLES
  cached,    \* edits are made in place
  loops,
  orig, mem, \* the packet of the capture, and of the cache
  iteration, unique, last,
  wire       \* history: what each pass has sent

vars == <<cached, loops, orig, mem, iteration, unique, last, wire>>

Packet == [src : 0 .. AddrMod - 1, dst : 0 .. AddrMod - 1]

--------------------------------------------------------------------------------
(* fast_edit_packet *)

\* Is it the source that gives?  The second test is done in the width of COUNTER.
SourceGives(p, i, inPlace) ==
  IF inPlace THEN (p.dst - i) % CountMod > (((p.src - 1) % AddrMod) - i) % CountMod
  ELSE p.dst > p.src

\* Mutant: the carry of a wrap is not made up for
MoveUncompensated(a, b, n) == [giver |-> (a - n) % AddrMod, taker |-> (b + n) % AddrMod]

\* a gives n to b.  If one address wraps, the ones' complement sum changes by one, and
\* that is made up for
Move(a, b, n) ==
  LET x == (a - n) % AddrMod
      y == (b + n) % AddrMod
  IN  [giver |-> IF x > a /\ y > b THEN x - 1 ELSE x,
       taker |-> IF x < a /\ y < b THEN y + 1 ELSE y]

Edited(p, i, inPlace) ==
  LET n == IF inPlace THEN 1 ELSE i IN
  IF SourceGives(p, i, inPlace)
  THEN LET m == Move(p.src, p.dst, n) IN [src |-> m.giver, dst |-> m.taker]
  ELSE LET m == Move(p.dst, p.src, n) IN [src |-> m.taker, dst |-> m.giver]

--------------------------------------------------------------------------------
(* send_packets and increment_iteration, for one file with one packet *)

Editing == unique > last

\* Mutant: one edit for two passes
NextUniqueHalf(n) == (n * 1000) \div (2 * loops * 1000) + 1

NextUnique(n) == (n * 1000) \div (loops * 1000) + 1

Pass ==
  /\ iteration < MaxPass
  /\ LET p == IF Editing THEN Edited(mem, unique - 1, cached) ELSE mem
     IN  /\ wire' = Append(wire, p)
         /\ mem' = IF cached THEN p ELSE mem
  /\ last' = unique
  /\ iteration' = iteration + 1
  /\ unique' = NextUnique(iteration + 1)
  /\ UNCHANGED <<cached, loops, orig>>

Init ==
  /\ cached \in BOOLEAN /\ loops \in Loops
  /\ orig \in [src : Addr, dst : Addr] /\ mem = orig
  /\ iteration = 0 /\ unique = 0 /\ last = 0
  /\ wire = <<>>

Next == Pass

Spec == Init /\ [][Next]_vars

--------------------------------------------------------------------------------
(* Properties *)

TypeOK ==
  /\ cached \in BOOLEAN /\ loops \in Loops
  /\ orig \in Packet /\ mem \in Packet
  /\ iteration \in Nat /\ unique \in Nat /\ last \in Nat
  /\ wire \in Seq(Packet)

\* An address of two words is, modulo Word - 1, the sum of its words
SameSum(p, q) == (p.src + p.dst) % (Word - 1) = (q.src + q.dst) % (Word - 1)

\* What is sent has the checksum of the capture's packet, however far the addresses have
\* moved and whatever has wrapped (tcpreplay_opts.def:482).
ChecksumKept == \A k \in DOMAIN wire : SameSum(wire[k], orig)

\* Passes in which the sense of direction of edits in place cannot change: the code tests
\* addresses that have moved by k - 1 against each other after taking off another k
Steady(n) == 2 * n < orig.src /\ 2 * n < orig.dst

\* With a new edit for each pass no two passes send the same addresses: from the file until
\* the passes are as many as there are addresses, in the cache as long as the addresses are
\* larger than twice the passes (tcpreplay_opts.def:481).
UniqueEachPass ==
  loops = 1 /\ (IF cached THEN Steady(Len(wire)) ELSE Len(wire) <= AddrMod) =>
    \A k, l \in DOMAIN wire : wire[k] = wire[l] => k = l
================================================================================
