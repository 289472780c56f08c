-------------------------------- MODULE MCReplay --------------------------------
(* Command lines and captures for TLC. *)
EXTENDS Replay

Ip(ts)   == [ts |-> ts, kind |-> "ip"]
Arp(ts)  == [ts |-> ts, kind |-> "arp"]
Bad(ts) == [ts |-> ts, kind |-> "refused"]

Plain ==
  [dual |-> FALSE, preload |-> FALSE, loop |-> 2, limit |-> 0, timed |-> FALSE, unique |-> 0,
   route |-> <<>>, warn |-> FALSE, pcap |-> <<>>, missing |-> {}]

\* Two files, the second with stamps that go back and with what cannot be edited or sent
TwoFiles == <<<<Ip(2), Ip(4)>>, <<Ip(5), Arp(1), Bad(5), Ip(5)>>>>

\* Two directions of one conversation
Tap == <<<<Ip(1), Ip(4)>>, <<Ip(2), Ip(3), Ip(6)>>>>

Single ==
  {[Plain EXCEPT !.pcap = TwoFiles, !.preload = p, !.unique = u] : p \in BOOLEAN, u \in {0, 1}}
    \cup {[Plain EXCEPT !.pcap = TwoFiles, !.loop = 0, !.limit = 5, !.timed = t] : t \in BOOLEAN}
    \cup {[Plain EXCEPT !.pcap = <<<<Ip(2), Ip(4), Ip(7), Ip(7)>>>>, !.route = <<1, 0, 2>>, !.preload = p] : p \in BOOLEAN}
    \cup {[Plain EXCEPT !.pcap = <<<<Ip(2), Ip(4)>>>>, !.loop = 3, !.unique = 1, !.preload = p] : p \in BOOLEAN}
    \cup {[Plain EXCEPT !.pcap = TwoFiles, !.missing = m] : m \in {{1}, {2}}}

Dual ==
  {[Plain EXCEPT !.dual = TRUE, !.pcap = Tap, !.preload = p] : p \in BOOLEAN}
    \cup {[Plain EXCEPT !.dual = TRUE, !.pcap = <<<<Ip(1), Ip(4)>>, <<Ip(2)>>>>, !.preload = TRUE, !.unique = 1, !.loop = 3]}
    \cup {[Plain EXCEPT !.dual = TRUE, !.pcap = Tap, !.limit = 6, !.warn = w] : w \in BOOLEAN}
    \cup {[Plain EXCEPT !.dual = TRUE, !.pcap = Tap, !.missing = {2}]}

\* One side has a packet the interface does not take, or one that is not IP
Blocked(p, u) ==
  [Plain EXCEPT !.dual = TRUE, !.unique = u, !.pcap = <<<<Ip(1), p>>, <<Ip(2)>>>>]

MCOptions == Single \cup Dual \cup {Blocked(Bad(3), 0), Blocked(Arp(3), 1)}

MCStuck == {Blocked(Bad(3), 0)}
================================================================================
