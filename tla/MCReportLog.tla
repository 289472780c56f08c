------------------------------ MODULE MCReportLog ------------------------------
(***************************************************************************)
(* ReportLog for TLC: identifiers 1 and 10, so that 10 cut short reads 1,  *)
(* and 1 is also the text of a positive verdict.                           *)
(***************************************************************************)
EXTENDS ReportLog

MCCut == [n \in {0, 1, 10} |-> IF n = 10 THEN {1} ELSE {}]
================================================================================
