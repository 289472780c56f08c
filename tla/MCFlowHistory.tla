----------------------------- MODULE MCFlowHistory -----------------------------
(***************************************************************************)
(* Small instances of FlowHistory for TLC: one LAN host, two WAN hosts.    *)
(***************************************************************************)
EXTENDS FlowHistory, TLC

CONSTANTS l1, w1, w2, s1, s2

MCAddr == {l1, w1, w2}
MCLan  == {l1}

OneConversation  == {<<l1, w1>>, <<w1, l1>>}
TwoConversations == OneConversation \cup {<<w2, l1>>, <<l1, w2>>}

\* The two conversations in slots of their own; the slot of an address pair in
\* the other order is unrelated, as it is with crc16
HashApart ==
  [c \in MCAddr \X MCAddr |-> IF c[1] = l1 /\ c[2] # w2 THEN s1 ELSE s2]

\* Both conversations in slot s1
HashShared == [c \in MCAddr \X MCAddr |-> IF c[1] = l1 THEN s1 ELSE s2]

MCKey ==
  [c \in MCAddr \X MCAddr |->
    CASE c = <<l1, w1>> -> 1 [] c = <<w1, l1>> -> 2 [] c = <<l1, w2>> -> 3 [] OTHER -> 4]

\* A shift by 255 leaves nothing of a 48-bit register: a divisor no value reaches
Never == 1048576

\* The entries expo.c computes for the counts 1, 2 and 3
MCRecip ==
  [n \in 1..3 |-> CASE n = 1 -> <<1, Never, Never>>
                    [] n = 2 -> <<2, Never, Never>>
                    [] n = 3 -> <<4, 16, 64>>]

\* The conditions the theorems are stated under hold in the instances
ASSUME TheoremAssumptions == RecipSound /\ RecipComplete /\ NoTimeWrap /\ NoneIsApart

MCIsCG(f) == f["DW"].meanSZ > f["UP"].meanSZ
================================================================================
