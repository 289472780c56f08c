------------------------------ MODULE MCDeployment ------------------------------
(***************************************************************************)
(* Deployment for TLC: trees over the mean packet sizes of the downlink    *)
(* (feature 0) and of the uplink (feature 6), which share the scratch      *)
(* metadata of the two divisions.                                          *)
(***************************************************************************)
EXTENDS Deployment

Leaf(cg) == [ft |-> -2, thr |-> -8, left |-> -1, right |-> -1, cg |-> cg]

Split(n, f, thr) == [ft |-> f, thr |-> thr, left |-> 2 * n + 1, right |-> 2 * n + 2, cg |-> FALSE]

\* Two splits, on the same feature or on both, and leaves that are not all alike
TwoSplits ==
  {(0 :> Split(0, f, 9)) @@ (1 :> Split(1, g, 3)) @@ (2 :> Leaf(l[1])) @@ (3 :> Leaf(l[2])) @@ (4 :> Leaf(l[3])) :
     f \in {0, 6}, g \in {0, 6},
     l \in {x \in BOOLEAN \X BOOLEAN \X BOOLEAN : x[1] # x[2] \/ x[2] # x[3]}}

MeanMax     == [f \in {0, 6} |-> 7]
MeanVectors == [{0, 6} -> {0, 3, 6}]
================================================================================
