------------------------------- MODULE ReportLog -------------------------------
(***************************************************************************)
(* The way of a report from the switch to a percentage.  The switch writes *)
(* the twelve features of a closed window, its identifier and its verdict  *)
(* to debug registers, one line of the log for each write.  FtsFromLog.sh  *)
(* reads that log at any moment, cuts it into groups of fourteen, and      *)
(* keeps the rows of one identifier; Percent.awk counts them.              *)
(*                                                                         *)
(* Packets pass ingress one after the other, so the writes of two reports  *)
(* do not mix; but the log may end anywhere, even inside of a line.        *)
(***************************************************************************)
EXTENDS Integers, Sequences, FiniteSets

CONSTANTS
  Idf,         \* identifiers of conversations: register indexes
  Cut,         \* Cut[n]: the numbers that are left of number n when its end is missing
  MaxReports   \* bound of the model: windows that are closed

ASSUME LogAssumption ==
  /\ Idf \subseteq Nat
  /\ \A n \in Idf \cup {0, 1} : Cut[n] \subseteq Nat
  /\ Cut[0] = {} /\ Cut[1] = {}   \* nothing is left of one digit
  /\ MaxReports \in Nat

VARIABLES
  reports,  \* the closed windows so far: identifier and verdict
  log,      \* the numbers written to the debug registers
  stage,    \* what FtsFromLog.sh does: "idle", "rows", "filtering", "counting" or "counted"
  VLS,      \* the numbers it has read
  out,      \* out.csv
  keep,     \* the identifier that was typed
  temp,     \* Temp.csv
  next,     \* the row of out.csv that grep or awk reads next
  lines, nb_CG  \* the variables of Percent.awk

script == <<stage, VLS, out, keep, temp, next, lines, nb_CG>>
vars   == <<reports, log, script>>

Fields == 14

\* A number of the log: the field it was written for, and its value
Number(k, pos, n) == [report |-> k, pos |-> pos, n |-> n]

\* What an unset element of a bash array expands to
Blank == Number(0, 0, -1)

TypeOK ==
  /\ reports \in Seq([idf : Idf, cg : {0, 1}]) /\ Len(reports) <= MaxReports
  /\ Len(log) \in Fields * Len(reports) - Fields + 1 .. Fields * Len(reports)
  /\ stage \in {"idle", "rows", "filtering", "counting", "counted"}
  /\ \A k \in DOMAIN out : DOMAIN out[k] = 1 .. Fields
  /\ next \in 1 .. Len(out) + 1
  /\ nb_CG <= lines

--------------------------------------------------------------------------------
(* The debug writes of the apply block *)

\* The fourteen numbers of report k, in the order of the code; features are all 0 here
Written(k) ==
  [pos \in 1 .. Fields |->
     Number(k, pos, IF pos = 13 THEN reports[k].idf ELSE IF pos = 14 THEN reports[k].cg ELSE 0)]

LastDone == Len(log) = Fields * Len(reports)

\* Mutant: the next report starts before the last one is written
CloseWindowEarly(idf, cg) ==
  /\ Len(reports) < MaxReports
  /\ reports' = Append(reports, [idf |-> idf, cg |-> cg])
  /\ log' = Append(log, Number(Len(reports) + 1, 1, 0))
  /\ UNCHANGED script

\* A window closes, and its first feature is written
CloseWindow(idf, cg) ==
  /\ LastDone
  /\ Len(reports) < MaxReports
  /\ reports' = Append(reports, [idf |-> idf, cg |-> cg])
  /\ log' = Append(log, Number(Len(reports) + 1, 1, 0))
  /\ UNCHANGED script

WriteNext ==
  /\ ~LastDone
  /\ LET k == Len(reports)
     IN  log' = Append(log, Written(k)[Len(log) - Fields * (k - 1) + 1])
  /\ UNCHANGED <<reports, script>>

--------------------------------------------------------------------------------
(* FtsFromLog.sh *)

\* cat, grep and cut: whole lines up to n, and what is left of the number after them
ReadLog(n) ==
  /\ stage = "idle"
  /\ \/ VLS' = SubSeq(log, 1, n)
     \/ /\ n < Len(log)
        /\ \E c \in Cut[log[n + 1].n] : VLS' = Append(SubSeq(log, 1, n), [log[n + 1] EXCEPT !.n = c])
  /\ stage' = "rows"
  /\ out' = <<>>
  /\ UNCHANGED <<reports, log, keep, temp, next, lines, nb_CG>>

At(i) == IF i <= Len(VLS) THEN VLS[i] ELSE Blank

\* Mutant: rows are taken one number short
RowAtShort(i) == [c \in 1 .. Fields |-> At(i + (IF c = 13 THEN 12 ELSE IF c = 14 THEN 11 ELSE c - 1))]

\* Mutant: the last two numbers keep the order of the log
RowAtUnswapped(i) == [c \in 1 .. Fields |-> At(i + c - 1)]

\* The row that starts at number i, with the verdict before the identifier
RowAt(i) == [c \in 1 .. Fields |-> At(i + (IF c = 13 THEN 13 ELSE IF c = 14 THEN 12 ELSE c - 1))]

\* One turn of the loop over VLS
AddRow ==
  /\ stage = "rows"
  /\ Fields * Len(out) < Len(VLS)
  /\ out' = Append(out, RowAt(Fields * Len(out) + 1))
  /\ UNCHANGED <<reports, log, stage, VLS, keep, temp, next, lines, nb_CG>>

\* read IDF
Ask(idf) ==
  /\ stage = "rows"
  /\ Fields * Len(out) >= Len(VLS)
  /\ keep' = idf
  /\ next' = 1
  /\ stage' = "filtering"
  /\ UNCHANGED <<reports, log, VLS, out, temp, lines, nb_CG>>

\* grep ",IDF$", row by row
Grep ==
  /\ stage = "filtering" /\ next <= Len(out)
  /\ temp' = IF out[next][14].n = keep THEN Append(temp, out[next]) ELSE temp
  /\ next' = next + 1
  /\ UNCHANGED <<reports, log, stage, VLS, out, keep, lines, nb_CG>>

\* The end of grep, and mv
Move ==
  /\ stage = "filtering" /\ next > Len(out)
  /\ out' = temp /\ temp' = <<>>
  /\ next' = 1
  /\ stage' = "counting"
  /\ UNCHANGED <<reports, log, VLS, keep, lines, nb_CG>>

\* Percent.awk, row by row
Count ==
  /\ stage = "counting" /\ next <= Len(out)
  /\ lines' = lines + 1
  /\ nb_CG' = IF out[next][13].n = 1 THEN nb_CG + 1 ELSE nb_CG
  /\ next' = next + 1
  /\ UNCHANGED <<reports, log, stage, VLS, out, keep, temp>>

\* END
AwkEnds ==
  /\ stage = "counting" /\ next > Len(out)
  /\ stage' = "counted"
  /\ UNCHANGED <<reports, log, VLS, out, keep, temp, next, lines, nb_CG>>

\* The script ends; it may be started again, on a longer log
Again ==
  /\ stage = "counted"
  /\ stage' = "idle" /\ VLS' = <<>> /\ out' = <<>>
  /\ keep' = 0 /\ next' = 1 /\ lines' = 0 /\ nb_CG' = 0
  /\ UNCHANGED <<reports, log, temp>>

Init ==
  /\ reports = <<>> /\ log = <<>>
  /\ stage = "idle" /\ VLS = <<>> /\ out = <<>>
  /\ keep = 0 /\ temp = <<>> /\ next = 1 /\ lines = 0 /\ nb_CG = 0

Next ==
  \/ \E idf \in Idf, cg \in {0, 1} : CloseWindow(idf, cg)
  \/ WriteNext
  \/ \E n \in 0 .. Len(log) : ReadLog(n)
  \/ AddRow
  \/ \E idf \in Idf : Ask(idf)
  \/ Grep \/ Move
  \/ Count \/ AwkEnds
  \/ Again

Spec == Init /\ [][Next]_vars

--------------------------------------------------------------------------------
(* Properties *)

Swapped(row) == [row EXCEPT ![13] = row[14], ![14] = row[13]]

\* A row without blanks is one report, whole and unaltered, its verdict and identifier
\* in the columns the readers expect; the k-th row is the k-th report, and only the
\* last row can have blanks (the loop over VLS, cut into groups of fourteen).
RowsAreReports ==
  stage = "rows" =>
    \A k \in DOMAIN out :
      \/ out[k] = Swapped(Written(k))
      \/ k = Len(out) /\ Fields * k > Len(VLS) /\ \E c \in 1 .. Fields : out[k][c] = Blank

\* The reports of the identifier that was typed, among those the script read in full
Read == {k \in 1 .. Len(VLS) \div Fields : reports[k].idf = keep}

\* Percent.awk counts every report of the conversation once and every verdict as it was
\* given; a report cut off by the end of the log adds at most one row to the total and
\* none to the verdicts, whatever conversation it seems to belong to.
CountsOffByOneRow ==
  stage = "counted" =>
    /\ nb_CG = Cardinality({k \in Read : reports[k].cg = 1})
    /\ lines - Cardinality(Read) \in 0 .. IF Len(VLS) % Fields = 0 THEN 0 ELSE 1
================================================================================
