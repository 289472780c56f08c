---------------------------- MODULE MCDecisionRules ----------------------------
(***************************************************************************)
(* Instances of DecisionRules for TLC: every tree of up to nine nodes      *)
(* over two features whose thresholds are nested as a training leaves      *)
(* them, and the one-split tree on a mean inter-arrival time.              *)
(***************************************************************************)
EXTENDS DecisionRules

\* 2.5, 2.75 and 4.5, in quarters: two of them are cut to the same integer
Thresholds == {10, 11, 18}

Leaf(cg) == [ft |-> -2, thr |-> -8, left |-> -1, right |-> -1, cg |-> cg]

Split(n, f, thr) == [ft |-> f, thr |-> thr, left |-> 2 * n + 1, right |-> 2 * n + 2, cg |-> FALSE]

Nodes(n) ==
  {Leaf(cg) : cg \in BOOLEAN} \cup
  (IF n > 3 THEN {} ELSE {Split(n, f, thr) : f \in {0, 1}, thr \in Thresholds})

\* A node below a split on the same feature splits what is left of its range
Nested(up, low, side) ==
  up.ft >= 0 /\ up.ft = low.ft => IF side = "left" THEN low.thr < up.thr ELSE low.thr > up.thr

Below == [n \in 4 .. 8 |-> Leaf(n % 2 = 0)]

SmallTrees ==
  {(0 :> x[1]) @@ (1 :> x[2]) @@ (2 :> x[3]) @@ (3 :> x[4]) @@ Below :
     x \in {y \in Nodes(0) \X Nodes(1) \X Nodes(2) \X Nodes(3) :
              /\ y[1].ft >= 0
              /\ y[2].ft < 0 => y[4] = Leaf(TRUE)
              /\ Nested(y[1], y[2], "left")
              /\ Nested(y[1], y[3], "right")
              /\ Nested(y[1], y[4], "left")
              /\ Nested(y[2], y[4], "left")}}

SmallMax     == [f \in {0, 1} |-> 7]
SmallVectors == [{0, 1} -> 0 .. 8]

\* Feature 2, the mean inter-arrival time of the downlink: WIN_SZE shifted by k, for
\* a window of 2^k packets
MeanIat == [{2} -> {33000 \div 2^k : k \in 0 .. 6}]

IatMax == [f \in {2} |-> 2^14 - 1]

IatTree == {(0 :> Split(0, 2, 4 * 5000 + 2)) @@ (1 :> Leaf(TRUE)) @@ (2 :> Leaf(FALSE))}
================================================================================
