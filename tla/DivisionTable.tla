----------------------------- MODULE DivisionTable -----------------------------
(***************************************************************************)
(* The table that replaces division on the switch: Utils/Approx/expo.c     *)
(* writes 1/n, for n = 1 .. Ymax, as a sum of at most MAXSUM powers of     *)
(* 1/2 (Out.csv), and main.py merges equal rows into ranges of counts and  *)
(* installs them in Divide1 and Divide2.                                   *)
(*                                                                         *)
(* A power 1/2^e is represented by its divisor 2^e.  The doubles of expo.c *)
(* are sums of powers of 1/2 and are compared here exactly, as fractions.  *)
(***************************************************************************)
EXTENDS Integers, Sequences, SequencesExt

CONSTANTS
  Limits,  \* the values of Ymax that may be typed
  Never    \* 2^255: a register shifted by 255 is 0

MAXSUM == 3

ASSUME LimitAssumption == Limits \subseteq Nat \ {0}

ASSUME NeverAssumption == Never \in Nat \ {0}

VARIABLES
  phase,     \* "approximating", "loading" or "ready"
  Ymax,      \* the value typed
  elem,      \* the count whose inverse is being approximated
  Pow2Gen,   \* the least power of two that is >= elem
  Tab,       \* the divisors chosen so far
  num, unit, \* sum = num / unit, and the next candidate is 1 / (2 * unit)
  csv,       \* the rows of Out.csv
  line,      \* the row that main.py reads next
  oldPow,    \* the powers of the rows read last
  Rng,       \* and the counts they stand for
  entries    \* what is installed in Divide1 and Divide2

approx == <<elem, Pow2Gen, Tab, num, unit>>
loader == <<line, oldPow, Rng, entries>>
vars   == <<phase, Ymax, approx, csv, loader>>

Pad(row) == row \o [k \in 1 .. MAXSUM - Len(row) |-> Never]

TypeOK ==
  /\ phase \in {"approximating", "loading", "ready"}
  /\ Ymax \in Limits
  /\ elem \in 1 .. Ymax
  /\ Pow2Gen \in Nat /\ num \in Nat /\ unit \in Nat
  /\ Len(Tab) \in 1 .. MAXSUM
  /\ Len(csv) \in 0 .. Ymax
  /\ line \in 1 .. Ymax + 1
  /\ Rng \in Nat \X Nat
  /\ \A e \in entries : e.lo \in 1 .. e.hi /\ e.hi \in 1 .. Ymax

--------------------------------------------------------------------------------
(* Handle_Element *)

\* prec < PREC, PREC = 0.95
Imprecise == 20 * num * elem < 19 * unit

\* Mutant: the bound on the number of powers is dropped
UnfinishedUnbounded == phase = "approximating" /\ Imprecise

\* The while loop of Handle_Element goes on
Unfinished == phase = "approximating" /\ Len(Tab) < MAXSUM /\ Imprecise

\* Mutant: the sum is compared before the power is added
FitsBefore == 2 * num * elem <= 2 * unit

\* sum + 1/Pow2Loc <= 1/elem
Fits == (2 * num + 1) * elem <= 2 * unit

AddPower ==
  /\ Unfinished
  /\ Fits
  /\ Tab' = Append(Tab, 2 * unit)
  /\ num' = 2 * num + 1
  /\ unit' = 2 * unit
  /\ UNCHANGED <<phase, Ymax, elem, Pow2Gen, csv, loader>>

\* Mutant: the next power is not tried
SkipPowerStuck ==
  /\ Unfinished
  /\ ~Fits
  /\ UNCHANGED vars

SkipPower ==
  /\ Unfinished
  /\ ~Fits
  /\ num' = 2 * num
  /\ unit' = 2 * unit
  /\ UNCHANGED <<phase, Ymax, elem, Pow2Gen, Tab, csv, loader>>

\* The first power of element n, when the previous element's was p
FirstPower(n, p) == IF p < n THEN 2 * p ELSE p

\* Handle_Element returns and main calls it for the next element, or exports
EndElement ==
  /\ phase = "approximating"
  /\ ~Unfinished
  /\ csv' = Append(csv, Tab)
  /\ IF elem < Ymax
     THEN LET p == FirstPower(elem + 1, Pow2Gen)
          IN  /\ elem' = elem + 1
              /\ Pow2Gen' = p
              /\ Tab' = <<p>>
              /\ num' = 1
              /\ unit' = p
              /\ UNCHANGED phase
     ELSE /\ phase' = "loading"
          /\ UNCHANGED approx
  /\ UNCHANGED <<Ymax, loader>>

--------------------------------------------------------------------------------
(* write_appr_rule *)

Installed(range, pow) == entries \cup {[lo |-> range[1], hi |-> range[2], pow |-> pow]}

\* The next row has the powers of the rows before it
ExtendRange ==
  /\ phase = "loading" /\ line <= Len(csv)
  /\ Pad(csv[line]) = oldPow
  /\ Rng' = <<Rng[1], line>>
  /\ line' = line + 1
  /\ UNCHANGED <<phase, Ymax, approx, csv, oldPow, entries>>

\* The next row has other powers: what was read so far is installed
StartRange ==
  /\ phase = "loading" /\ line <= Len(csv)
  /\ Pad(csv[line]) # oldPow
  /\ entries' = Installed(Rng, oldPow)
  /\ oldPow' = Pad(csv[line])
  /\ Rng' = <<line, line>>
  /\ line' = line + 1
  /\ UNCHANGED <<phase, Ymax, approx, csv>>

\* Mutant: the last range is not installed
EndLoadUnflushed ==
  /\ phase = "loading" /\ line > Len(csv)
  /\ phase' = "ready"
  /\ UNCHANGED <<Ymax, approx, csv, loader>>

\* No row is left: the last range is installed
EndLoad ==
  /\ phase = "loading" /\ line > Len(csv)
  /\ entries' = Installed(Rng, oldPow)
  /\ phase' = "ready"
  /\ UNCHANGED <<Ymax, approx, csv, line, oldPow, Rng>>

--------------------------------------------------------------------------------

Init ==
  /\ phase = "approximating"
  /\ Ymax \in Limits
  /\ elem = 1 /\ Pow2Gen = 1 /\ Tab = <<1>> /\ num = 1 /\ unit = 1
  /\ csv = <<>>
  /\ line = 1
  /\ oldPow = Pad(<<1>>)
  /\ Rng = <<1, 1>>
  /\ entries = {}

Next ==
  \/ AddPower \/ SkipPower \/ EndElement
  \/ ExtendRange \/ StartRange \/ EndLoad

Spec == Init /\ [][Next]_vars /\ WF_vars(Next)

--------------------------------------------------------------------------------
(* Properties *)

\* The sum of 1/row[k], in units of 1/u
Share(row, u, k) == IF k <= Len(row) THEN u \div row[k] ELSE 0

RowSum(row, u) == Share(row, u, 1) + Share(row, u, 2) + Share(row, u, 3)

\* A finished row never exceeds the inverse it stands for and is short of it by less
\* than an eighth: a mean on the switch is at most the true mean, and more than 7/8
\* of it before the truncation of the shifts (Handle_Element).
RowApproximates(n) ==
  LET u == Last(csv[n])
      s == RowSum(csv[n], u)
  IN  n * s <= u /\ 8 * n * s > 7 * u

RowsApproximate ==
  phase = "ready" => \A n \in 1 .. Len(csv) : RowApproximates(n)

\* The merged ranges the switch gets answer every count from 1 to Ymax with its own
\* row, and only once: equal priorities never have to decide (write_appr_rule).
TableExact ==
  phase = "ready" =>
    \A n \in 1 .. Ymax :
      LET hits == {e \in entries : n \in e.lo .. e.hi}
      IN  \E e \in hits : hits = {e} /\ e.pow = Pad(csv[n])

\* The search for the next power always ends, and the table gets installed: the
\* loop of Handle_Element has no bound on the exponent.
Termination == <>(phase = "ready")
================================================================================
