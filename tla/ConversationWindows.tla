-------------------------- MODULE ConversationWindows --------------------------
(***************************************************************************)
(* What the flow tracker promises, without hashing, registers or sentinel  *)
(* values: every conversation has its own window; a packet joins it when   *)
(* it arrives within WinSze of the window's first packet, otherwise the    *)
(* window closes with exactly one report and the packet opens the next     *)
(* one.  Counts are true counts; a report gives them modulo the width of   *)
(* its fields.                                                             *)
(***************************************************************************)
EXTENDS Integers

CONSTANTS
  Conv,      \* conversations
  Id,        \* identifier of a conversation in a report
  Dir,       \* directions of a packet
  Size,      \* packet sizes
  Gap,       \* microseconds between two consecutive packets
  WinSze,    \* length of a window
  CountMod,  \* a reported count is modulo this
  SizeMod,   \* a reported sum is modulo this
  NoWindow, NoReport,
  Horizon    \* bound: last arrival time

VARIABLES clock, win, report

vars == <<clock, win, report>>

\* A window holding a single packet
Fresh(d, s, t) ==
  [start |-> t,
   count |-> [e \in Dir |-> IF e = d THEN 1 ELSE 0],
   bytes |-> [e \in Dir |-> IF e = d THEN s ELSE 0]]

Joined(w, d, s) ==
  [start |-> w.start,
   count |-> [e \in Dir |-> IF e = d THEN w.count[e] + 1 ELSE w.count[e]],
   bytes |-> [e \in Dir |-> IF e = d THEN w.bytes[e] + s ELSE w.bytes[e]]]

ReportOf(c, w) ==
  [id  |-> Id[c],
   nb  |-> [e \in Dir |-> w.count[e] % CountMod],
   sum |-> [e \in Dir |-> w.bytes[e] % SizeMod]]

Open(c, d, s, t) ==
  /\ win[c] = NoWindow
  /\ win' = [win EXCEPT ![c] = Fresh(d, s, t)]
  /\ report' = NoReport

Join(c, d, s, t) ==
  /\ win[c] # NoWindow
  /\ t <= win[c].start + WinSze
  /\ win' = [win EXCEPT ![c] = Joined(win[c], d, s)]
  /\ report' = NoReport

Close(c, d, s, t) ==
  /\ win[c] # NoWindow
  /\ t > win[c].start + WinSze
  /\ win' = [win EXCEPT ![c] = Fresh(d, s, t)]
  /\ report' = ReportOf(c, win[c])

Arrive(c, d, s, gap) ==
  /\ clock + gap <= Horizon
  /\ clock' = clock + gap
  /\ \/ Open(c, d, s, clock + gap)
     \/ Join(c, d, s, clock + gap)
     \/ Close(c, d, s, clock + gap)

Init ==
  /\ clock = 1
  /\ win = [c \in Conv |-> NoWindow]
  /\ report = NoReport

Next == \E c \in Conv, d \in Dir, s \in Size, gap \in Gap : Arrive(c, d, s, gap)

Spec == Init /\ [][Next]_vars
================================================================================
