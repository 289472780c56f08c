---------------------------- MODULE MCDivisionTable ----------------------------
(***************************************************************************)
(* DivisionTable for TLC: the division tables of windows of up to 4095     *)
(* packets, computed and loaded in full.                                   *)
(***************************************************************************)
EXTENDS DivisionTable

MCLimits == {1, 2, 3, 16, 17, 4095}
================================================================================
