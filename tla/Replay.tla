--------------------------------- MODULE Replay ---------------------------------
(***************************************************************************)
(* The send loops of tcpreplay, the program that puts the traces on the    *)
(* network: tcpreplay_replay, tcpr_replay_index, send_packets and          *)
(* send_dual_packets, with the packet cache (--preload-pcap), the split of *)
(* a capture over two interfaces (--cachefile), the pace of the capture    *)
(* (--multiplier=1.0), the limits, fresh addresses for each pass           *)
(* (--unique-ip), sends that fail, and tcpreplay_abort in another thread.  *)
(* What fresh addresses are is the subject of UniqueIp; here an edit is    *)
(* the number by which the addresses have moved.                           *)
(***************************************************************************)
EXTENDS Integers, Sequences, FiniteSets, SequencesExt

CONSTANTS
  Options,  \* the command lines
  MaxFails, \* bounds how often an interface fails to send what it could send
  MaxCount  \* where the counters of failures stop

\* A packet has a time stamp after 0.  Its kind is "ip", or "arp", which cannot be given
\* a fresh address, or "refused": empty, or longer than the interface takes.
Kind == {"ip", "arp", "refused"}

ASSUME OptionsAssumption == \A o \in Options :
  /\ o.dual \in BOOLEAN          \* --dualfile: two files at a time
  /\ o.preload \in BOOLEAN       \* --preload-pcap: every file is cached at the start
  /\ o.loop \in Nat              \* --loop, 0 for ever
  /\ o.limit \in Nat             \* --limit, 0 for none
  /\ o.timed \in BOOLEAN         \* --duration
  /\ o.unique \in Nat            \* --unique-ip-loops, 0 without --unique-ip
  /\ o.route \in Seq(0 .. 2)     \* --cachefile: an interface for each packet or 0
  /\ o.warn \in BOOLEAN          \* the captures have a short snaplen
  /\ o.pcap \in Seq(Seq([ts : Nat \ {0}, kind : Kind]))
  /\ o.missing \subseteq DOMAIN o.pcap    \* files that cannot be opened
  /\ o.dual => Len(o.pcap) % 2 = 0 /\ o.route = <<>>

VARIABLES
  opt,     \* the options of this run
  pc,      \* "loop", "index", "head", "send" or "done"
  left,    \* options->loop; -1 is 2^64 - 1
  idx, rcode,
  pos,     \* for each of two files: the packet the file or the cache is at
  data,    \* pktdata1, pktdata2: the packet at hand, 0 is NULL
  out,     \* the side and the interface of the packet being sent
  moved,   \* by how much the packet at hand has been edited
  edits,   \* edits[k][i]: edits of packet i of file k in the cache
  iteration, unique, last,
  abort,   \* ctx->abort
  spAbort, \* sp->abort of both interfaces
  caller,  \* the thread in tcpreplay_abort: "idle", "intf1", "intf2" or "back"
  sent, failed,         \* of stats
  spSent, spFailed,     \* of both interfaces
  tsDelta, timeDelta, lastTs, first,
  slept,   \* history: all naps together
  wire,    \* history: what was sent
  lost,    \* history: what was given up
  full,    \* history: the passes that were not cut short
  late     \* history: packets sent after the abort

file  == <<pos, data, out, moved, edits>>
count == <<iteration, unique, last>>
stop  == <<abort, spAbort, caller>>
stats == <<sent, failed, spSent, spFailed>>
pace  == <<tsDelta, timeDelta, lastTs, first, slept>>
hist  == <<wire, lost, full, late>>
vars  == <<opt, pc, left, idx, rcode, file, count, stop, stats, pace, hist>>

Counted(n) == IF n < MaxCount THEN n + 1 ELSE n

Sides == 1 .. IF opt.dual THEN 2 ELSE 1

File(k) == opt.pcap[idx + k - 1]

--------------------------------------------------------------------------------
(* get_next_packet *)

\* The cache restarts after its end, a file does not
Ahead(k, p) ==
  LET n == Len(File(k)) IN
  IF p < n THEN [pos |-> p + 1, data |-> p + 1]
  ELSE [pos |-> IF opt.preload THEN 0 ELSE p, data |-> 0]

\* send_packets fetches at the head of its loop, send_dual_packets after a send
Fetched == IF opt.dual THEN data ELSE [data EXCEPT ![1] = Ahead(1, pos[1]).data]

HasPacket == \E k \in Sides : Fetched[k] # 0

\* The side that is next, by time stamp when both files have a packet
Merge ==
  IF ~opt.dual \/ Fetched[2] = 0 THEN 1
  ELSE IF Fetched[1] = 0 THEN 2
  ELSE IF File(1)[Fetched[1]].ts <= File(2)[Fetched[2]].ts THEN 1 ELSE 2

Interface(k, i) ==
  CASE opt.dual -> k
    [] opt.route = <<>> -> 1
    [] OTHER -> IF i <= Len(opt.route) THEN opt.route[i] ELSE 0

--------------------------------------------------------------------------------
(* tcpreplay_replay and tcpr_replay_index *)

Loop ==
  /\ pc = "loop"
  /\ left' = IF opt.loop = 0 THEN left ELSE left - 1
  /\ IF (opt.loop = 0 \/ left # 0) /\ ~abort
     THEN pc' = "index" /\ idx' = 1 /\ rcode' = 0
     ELSE pc' = "done" /\ UNCHANGED <<idx, rcode>>
  /\ UNCHANGED <<opt, file, count, stop, stats, pace, hist>>

Index == pc = "index" /\ idx <= Len(opt.pcap) /\ ~abort

CannotOpen == ~opt.preload /\ \E k \in Sides : idx + k - 1 \in opt.missing

\* The error is kept in rcode, and the next file is tried
OpenFails ==
  /\ Index /\ CannotOpen
  /\ rcode' = -1 /\ idx' = idx + Cardinality(Sides)
  /\ UNCHANGED <<opt, pc, left, file, count, stop, stats, pace, hist>>

Open ==
  /\ Index /\ ~CannotOpen
  /\ pc' = "head"
  /\ rcode' = IF opt.dual /\ opt.warn /\ ~opt.preload THEN -2 ELSE 0
  /\ pos' = [k \in 1 .. 2 |-> IF opt.dual THEN Ahead(k, 0).pos ELSE 0]
  /\ data' = [k \in 1 .. 2 |-> IF opt.dual THEN Ahead(k, 0).data ELSE 0]
  /\ moved' = <<0, 0>>
  /\ lastTs' = 0
  /\ UNCHANGED <<opt, left, idx, out, edits, count, stop, stats, tsDelta, timeDelta, first, slept, hist>>

IndexEnds ==
  /\ pc = "index" /\ (idx > Len(opt.pcap) \/ abort)
  /\ pc' = IF rcode < 0 THEN "done" ELSE "loop"
  /\ UNCHANGED <<opt, left, idx, rcode, file, count, stop, stats, pace, hist>>

--------------------------------------------------------------------------------
(* The head of both send loops, up to sendpacket *)

Take(k) ==
  /\ pc = "head" /\ ~abort /\ HasPacket
  /\ k = Merge
  /\ pos' = IF opt.dual THEN pos ELSE [pos EXCEPT ![1] = Ahead(1, @).pos]
  /\ data' = Fetched

Editing == opt.unique > 0 /\ unique > last

Lose(k, i) == lost' = IF opt.dual THEN lost ELSE lost \cup {<<iteration, idx + k - 1, i>>}

NoSend(k) ==
  /\ Take(k)
  /\ Interface(k, Fetched[k]) = 0
  /\ moved' = [moved EXCEPT ![k] = 0]
  /\ UNCHANGED <<opt, pc, left, idx, rcode, out, edits, count, stop, stats, pace, hist>>

\* send_dual_packets does not fetch: the same packet is next
EditFails(k) ==
  /\ Take(k)
  /\ Interface(k, Fetched[k]) # 0
  /\ Editing /\ File(k)[Fetched[k]].kind = "arp"
  /\ failed' = Counted(failed)
  /\ Lose(k, Fetched[k])
  /\ moved' = [moved EXCEPT ![k] = 0]
  /\ UNCHANGED <<opt, pc, left, idx, rcode, out, edits, count, stop, sent, spSent, spFailed, pace, wire, full, late>>

\* The edit is made in the cache, by one, or in the buffer, by the iteration; a packet that
\* is sent again is edited again
Edit(k, i) ==
  LET f == idx + k - 1
      e == IF Editing THEN (IF opt.preload THEN 1 ELSE unique - 1) ELSE 0
      m == (IF opt.preload THEN edits[f][i] ELSE IF opt.dual THEN moved[k] ELSE 0) + e
  IN  /\ moved' = [moved EXCEPT ![k] = m]
      /\ edits' = IF opt.preload THEN [edits EXCEPT ![f][i] = m] ELSE edits

\* Mutant: a time stamp that goes back is the new last one
PaceBack(ts) ==
  LET delta == IF lastTs # 0 /\ ts > lastTs THEN tsDelta + ts - lastTs ELSE tsDelta
  IN  /\ tsDelta' = delta
      /\ lastTs' = ts
      /\ slept' = slept + (IF first \/ delta <= timeDelta THEN 0 ELSE delta - timeDelta)
      /\ timeDelta' = delta
      /\ first' = FALSE

\* calc_sleep_time and tcpr_sleep at the speed of the capture
Pace(ts) ==
  LET ahead == lastTs # 0 /\ ts > lastTs
      delta == IF ahead THEN tsDelta + ts - lastTs ELSE tsDelta
  IN  /\ tsDelta' = delta
      /\ lastTs' = IF lastTs = 0 \/ ahead THEN ts ELSE lastTs
      /\ slept' = slept + (IF first \/ delta <= timeDelta THEN 0 ELSE delta - timeDelta)
      /\ timeDelta' = IF timeDelta < delta THEN delta ELSE timeDelta
      /\ first' = FALSE

Prepare(k) ==
  /\ Take(k)
  /\ Interface(k, Fetched[k]) # 0
  /\ ~(Editing /\ File(k)[Fetched[k]].kind = "arp")
  /\ Edit(k, Fetched[k])
  /\ Pace(File(k)[Fetched[k]].ts)
  /\ out' = <<k, Interface(k, Fetched[k])>>
  /\ pc' = "send"
  /\ UNCHANGED <<opt, left, idx, rcode, count, stop, stats, hist>>

\* Mutant: the first pass is counted as one that was edited
NextUniqueLate(n) == (n * 1000) \div (opt.unique * 1000)

\* increment_iteration: it counts the files, not the loops
NextUnique(n) == (n * 1000) \div (opt.unique * 1000) + 1

FileEnds ==
  /\ pc = "head" /\ (abort \/ ~HasPacket)
  /\ pc' = "index"
  /\ idx' = idx + Cardinality(Sides)
  /\ last' = unique
  /\ iteration' = iteration + 1
  /\ unique' = IF opt.unique > 0 THEN NextUnique(iteration + 1) ELSE unique
  /\ full' = IF abort THEN full ELSE full \cup {<<iteration, idx + k - 1>> : k \in Sides}
  /\ UNCHANGED <<opt, left, rcode, file, stop, stats, pace, wire, lost, late>>

--------------------------------------------------------------------------------
(* sendpacket and what follows it.  Retries after EAGAIN and ENOBUFS are stuttering. *)

Packet == File(out[1])[data[out[1]]]

\* Mutant: the limit is tested before the packet is counted
LimitReachedLate(n) == opt.limit > 0 /\ n > opt.limit

LimitReached(n) == opt.limit > 0 /\ n >= opt.limit

\* An interface that is told to abort still sends, but no longer counts
Transmit ==
  LET k == out[1]  s == out[2] IN
  /\ pc = "send" /\ Packet.kind # "refused"
  /\ pc' = "head"
  /\ spSent' = IF spAbort[s] THEN spSent ELSE [spSent EXCEPT ![s] = @ + 1]
  /\ sent' = sent + 1
  /\ IF opt.dual
     THEN /\ pos' = [pos EXCEPT ![k] = Ahead(k, @).pos]
          /\ data' = [data EXCEPT ![k] = Ahead(k, pos[k]).data]
          /\ moved' = [moved EXCEPT ![k] = 0]
     ELSE UNCHANGED <<pos, data, moved>>
  /\ \E expired \in {FALSE, opt.timed} : abort' = (abort \/ expired \/ LimitReached(sent + 1))
  /\ wire' = Append(wire, [pass |-> iteration, file |-> idx + k - 1, pos |-> data[k],
                           edit |-> moved[k], at |-> slept])
  /\ late' = IF abort THEN late + 1 ELSE late
  /\ UNCHANGED <<opt, left, idx, rcode, out, edits, count, spAbort, caller, failed, spFailed, pace, lost, full>>

\* Mutant: send_dual_packets goes on to the next packet of the side
SendFailsOn ==
  LET k == out[1]  s == out[2] IN
  /\ pc = "send" /\ (Packet.kind = "refused" \/ spFailed[1] + spFailed[2] < MaxFails)
  /\ pc' = "head"
  /\ spFailed' = [spFailed EXCEPT ![s] = Counted(@)]
  /\ Lose(k, data[k])
  /\ pos' = IF opt.dual THEN [pos EXCEPT ![k] = Ahead(k, @).pos] ELSE pos
  /\ data' = IF opt.dual THEN [data EXCEPT ![k] = Ahead(k, pos[k]).data] ELSE data
  /\ UNCHANGED <<opt, left, idx, rcode, out, moved, edits, count, stop, sent, failed, spSent, pace, wire, full, late>>

\* Mutant: the packet is tried again at once, whatever the error
SendFailsAgain ==
  LET k == out[1]  s == out[2] IN
  /\ pc = "send" /\ (Packet.kind = "refused" \/ spFailed[1] + spFailed[2] < MaxFails)
  /\ spFailed' = [spFailed EXCEPT ![s] = Counted(@)]
  /\ UNCHANGED <<opt, pc, left, idx, rcode, file, count, stop, sent, failed, spSent, pace, hist>>

\* send_packets gives the packet up; send_dual_packets has it at hand still
SendFails ==
  LET k == out[1]  s == out[2] IN
  /\ pc = "send" /\ (Packet.kind = "refused" \/ spFailed[1] + spFailed[2] < MaxFails)
  /\ pc' = "head"
  /\ spFailed' = [spFailed EXCEPT ![s] = Counted(@)]
  /\ Lose(k, data[k])
  /\ UNCHANGED <<opt, left, idx, rcode, file, count, stop, sent, failed, spSent, pace, wire, full, late>>

--------------------------------------------------------------------------------
(* tcpreplay_abort, called in another thread or by the handler of SIGINT *)

\* Mutant: the interfaces are told first
AbortInterfacesFirst ==
  \/ /\ caller = "idle" /\ pc # "done"
     /\ caller' = "intf1" /\ spAbort' = <<TRUE, TRUE>> /\ abort' = abort
  \/ /\ caller = "intf1"
     /\ caller' = "back" /\ abort' = TRUE /\ UNCHANGED spAbort

Abort ==
  \/ /\ caller = "idle" /\ pc # "done"
     /\ caller' = "intf1" /\ abort' = TRUE /\ UNCHANGED spAbort
  \/ /\ caller = "intf1"
     /\ caller' = "intf2" /\ spAbort' = [spAbort EXCEPT ![1] = TRUE] /\ UNCHANGED abort
  \/ /\ caller = "intf2"
     /\ caller' = "back" /\ spAbort' = [spAbort EXCEPT ![2] = TRUE] /\ UNCHANGED abort

AbortStep ==
  /\ Abort
  /\ UNCHANGED <<opt, pc, left, idx, rcode, file, count, stats, pace, hist>>

Init ==
  /\ opt \in Options
  /\ pc = "loop" /\ left = opt.loop /\ idx = 1 /\ rcode = 0
  /\ pos = <<0, 0>> /\ data = <<0, 0>> /\ out = <<1, 1>> /\ moved = <<0, 0>>
  /\ edits = [k \in DOMAIN opt.pcap |-> [i \in DOMAIN opt.pcap[k] |-> 0]]
  /\ iteration = 0 /\ unique = 0 /\ last = 0
  /\ abort = FALSE /\ spAbort = <<FALSE, FALSE>> /\ caller = "idle"
  /\ sent = 0 /\ failed = 0 /\ spSent = <<0, 0>> /\ spFailed = <<0, 0>>
  /\ tsDelta = 0 /\ timeDelta = 0 /\ lastTs = 0 /\ first = TRUE /\ slept = 0
  /\ wire = <<>> /\ lost = {} /\ full = {} /\ late = 0

Step ==
  \/ Loop \/ OpenFails \/ Open \/ IndexEnds
  \/ \E k \in 1 .. 2 : NoSend(k) \/ EditFails(k) \/ Prepare(k)
  \/ FileEnds
  \/ Transmit \/ SendFails

Next == Step \/ AbortStep

\* tcpreplay runs on; nobody need abort it
Spec == Init /\ [][Next]_vars /\ WF_vars(Step)

--------------------------------------------------------------------------------
(* Properties *)

Ts(e) == opt.pcap[e.file][e.pos].ts

\* In every pass each file is sent in its order and no packet twice, from the file and
\* from the cache alike.  A pass that was not cut short has sent all packets but those
\* the cache file leaves out and, in send_packets, those that were given up:
\* send_dual_packets gives up none.
WireIsReplay ==
  /\ \A i, j \in DOMAIN wire :
       i < j /\ wire[i].pass = wire[j].pass /\ wire[i].file = wire[j].file => wire[i].pos < wire[j].pos
  /\ \A f \in full : \A i \in DOMAIN opt.pcap[f[2]] :
       \/ Interface(1, i) = 0
       \/ <<f[1], f[2], i>> \in lost
       \/ \E e \in ToSet(wire) : e.pass = f[1] /\ e.file = f[2] /\ e.pos = i

\* After an abort at most the packet at hand is sent, and --limit is never exceeded, on
\* two interfaces and in two files at a time as well (send_packets.c:526, 806).
AbortIsPrompt == late <= 1 /\ (opt.limit > 0 => sent <= opt.limit)

\* The total that is printed is the sum of what the interfaces print, but for the one
\* packet an aborted interface sends without counting it (sendpacket.c:454).
StatsAgree ==
  /\ sent - spSent[1] - spSent[2] \in 0 .. 1
  /\ sent # spSent[1] + spSent[2] => caller # "idle"

Ascending(k) == \A i, j \in DOMAIN opt.pcap[k] : i < j => opt.pcap[k][i].ts <= opt.pcap[k][j].ts

Stamps(k) == {opt.pcap[k][i].ts : i \in DOMAIN opt.pcap[k]}

\* Two packets of a pass are as far apart as in the captures when time stamps ascend,
\* whatever failed or was left out in between, hence two files are merged by time; when
\* stamps go back, no time is slept twice: a packet is never sent later than the latest
\* of its file would be (send_packets.c:464-469).
Paced ==
  \A i, j \in DOMAIN wire :
    i < j /\ wire[i].pass = wire[j].pass =>
      LET a == wire[i]  b == wire[j] IN
      /\ Ascending(a.file) /\ Ascending(b.file) => b.at - a.at = Ts(b) - Ts(a)
      /\ \E x \in Stamps(b.file) : b.at - a.at <= x - Ts(a)

\* With --unique-ip, a packet never has the same edit in two passes: in one file, or from
\* the cache.  (Of two files, a packet that is sent again is edited twice.)
FreshEachPass ==
  opt.unique = 1 /\ (~opt.dual \/ opt.preload) =>
    \A i, j \in DOMAIN wire :
      i # j /\ wire[i].file = wire[j].file /\ wire[i].pos = wire[j].pos => wire[i].edit # wire[j].edit

\* A replay with a number of loops comes to its end.
Completes == opt.loop > 0 ~> pc = "done"

\* It does if there are no two files at a time or every packet can be sent; and whatever
\* is replayed, it ends after an abort.
CompletesIfSendable ==
  \/ abort
  \/ /\ opt.loop > 0
     /\ opt.dual => \A k \in DOMAIN opt.pcap : \A i \in DOMAIN opt.pcap[k] : opt.pcap[k][i].kind = "ip"
  ~> pc = "done"
================================================================================
