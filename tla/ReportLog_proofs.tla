---------------------------- MODULE ReportLog_proofs ----------------------------
(***************************************************************************)
(* ReportLog for any identifiers and any number of reports.  The argument  *)
(* follows a report from the log to the percentage:                        *)
(*                                                                         *)
(*   LogInv    the log holds the reports number by number;                 *)
(*   ReadInv   what the script has read is a prefix of it, up to one       *)
(*             identifier that may be cut short;                           *)
(*   RowsInv   a row of out.csv is a report, or is the last one and has no *)
(*             verdict;                                                    *)
(*   GrepInv   grep has kept the rows of the identifier among those read;  *)
(*   TotalsInv hence out.csv has the right length and verdicts when awk    *)
(*             starts, and AwkInv says that awk has counted them so far.   *)
(***************************************************************************)
EXTENDS ReportLog, FiniteSetTheorems, TLAPS

Numbers == [report : Nat, pos : Nat, n : Int]
RowSet  == [1 .. Fields -> Numbers]
Reports == [idf : Idf, cg : {0, 1}]

\* Number pos of report k, by the list of reports
NumberOf(rs, k, pos) ==
  Number(k, pos, IF pos = 13 THEN rs[k].idf ELSE IF pos = 14 THEN rs[k].cg ELSE 0)

Place(k, pos) == Fields * (k - 1) + pos

LogInv ==
  /\ reports \in Seq(Reports) /\ Len(reports) <= MaxReports
  /\ log \in Seq(Numbers)
  /\ Len(log) >= Fields * Len(reports) - Fields + 1 /\ Len(log) <= Fields * Len(reports)
  /\ \A k \in 1 .. Len(reports), pos \in 1 .. Fields :
       Place(k, pos) <= Len(log) => log[Place(k, pos)] = NumberOf(reports, k, pos)

\* What is in v is a prefix of the numbers of rs, but for an identifier at its end
Prefix(rs, v) ==
  /\ v \in Seq(Numbers)
  /\ Len(v) <= Fields * Len(rs)
  /\ \A k \in 1 .. Len(rs), pos \in 1 .. Fields :
       Place(k, pos) <= Len(v) =>
         \/ v[Place(k, pos)] = NumberOf(rs, k, pos)
         \/ Place(k, pos) = Len(v) /\ pos = 13

ReadInv == Prefix(reports, VLS)

\* Row k of out.csv, by the reports and the number of numbers that were read
RowIs(rs, m, k, row) ==
  /\ row \in RowSet
  /\ k <= Len(rs)
  /\ Fields * k <= m => row = Swapped([pos \in 1 .. Fields |-> NumberOf(rs, k, pos)])
  /\ Fields * k > m => row[13] = Blank

RowsInv ==
  stage \in {"rows", "filtering"} =>
    /\ out \in Seq(RowSet)
    /\ Fields * Len(out) < Len(VLS) + Fields
    /\ stage = "filtering" => Fields * Len(out) >= Len(VLS)
    /\ \A k \in 1 .. Len(out) : RowIs(reports, Len(VLS), k, out[k])

\* Rows of an identifier, and rows with a positive verdict
Kept(rows, idf) == {k \in 1 .. Len(rows) : rows[k][14].n = idf}
Positive(rows)  == {k \in 1 .. Len(rows) : rows[k][13].n = 1}

GrepInv ==
  stage = "filtering" =>
    /\ Len(temp) = Cardinality(Kept(out, keep) \cap 1 .. (next - 1))
    /\ Cardinality(Positive(temp)) =
         Cardinality((Kept(out, keep) \cap Positive(out)) \cap 1 .. (next - 1))

\* The reports of an identifier among those read in full, by the number of numbers
Whole(rs, m, idf)    == {k \in 1 .. Len(rs) : Fields * k <= m /\ rs[k].idf = idf}
Verdicts(rs, m, idf) == {k \in Whole(rs, m, idf) : rs[k].cg = 1}

\* The counts agree with the reports
Agree(rs, m, idf, total, positive) ==
  /\ positive = Cardinality(Verdicts(rs, m, idf))
  /\ total >= Cardinality(Whole(rs, m, idf))
  /\ total <= Cardinality(Whole(rs, m, idf)) + 1
  /\ total # Cardinality(Whole(rs, m, idf)) => \A k \in Nat : Fields * k # m

TotalsInv ==
  stage = "counting" => Agree(reports, Len(VLS), keep, Len(out), Cardinality(Positive(out)))

AwkInv ==
  /\ stage \in {"idle", "rows", "filtering"} => lines = 0 /\ nb_CG = 0
  /\ stage = "counting" =>
       lines = next - 1 /\ nb_CG = Cardinality(Positive(out) \cap 1 .. (next - 1))
  /\ stage = "counted" => Agree(reports, Len(VLS), keep, lines, nb_CG)

Shape ==
  /\ stage \in {"idle", "rows", "filtering", "counting", "counted"}
  /\ keep \in Nat
  /\ out \in Seq(RowSet) /\ temp \in Seq(RowSet)
  /\ stage # "filtering" => temp = <<>>
  /\ stage \in {"idle", "rows"} => next = 1
  /\ next \in 1 .. Len(out) + 1
  /\ lines \in Nat /\ nb_CG \in Nat /\ nb_CG <= lines

Inv == Shape /\ LogInv /\ ReadInv /\ RowsInv /\ GrepInv /\ TotalsInv /\ AwkInv

--------------------------------------------------------------------------------
(* Cardinalities of the sets above *)

\* Counting one place more
LEMMA OneMore ==
  ASSUME NEW S, NEW m \in Nat
  PROVE  /\ IsFiniteSet(S \cap 1 .. m) /\ Cardinality(S \cap 1 .. m) \in Nat
         /\ (m + 1) \in S => Cardinality(S \cap 1 .. (m + 1)) = Cardinality(S \cap 1 .. m) + 1
         /\ (m + 1) \notin S => Cardinality(S \cap 1 .. (m + 1)) = Cardinality(S \cap 1 .. m)
  <1>1. IsFiniteSet(1 .. m)
    BY FS_Interval
  <1>2. IsFiniteSet(S \cap 1 .. m)
    BY <1>1, FS_Intersection
  <1>3. Cardinality(S \cap 1 .. m) \in Nat
    BY <1>2, FS_CardinalityType
  <1>4. ASSUME (m + 1) \in S
        PROVE  Cardinality(S \cap 1 .. (m + 1)) = Cardinality(S \cap 1 .. m) + 1
    <2>1. S \cap 1 .. (m + 1) = (S \cap 1 .. m) \cup {m + 1}
      BY <1>4
    <2>2. m + 1 \notin S \cap 1 .. m
      OBVIOUS
    <2>3. Cardinality((S \cap 1 .. m) \cup {m + 1}) = Cardinality(S \cap 1 .. m) + 1
      BY <1>2, <2>2, FS_AddElement
    <2> QED BY <2>1, <2>3
  <1>5. ASSUME (m + 1) \notin S
        PROVE  S \cap 1 .. (m + 1) = S \cap 1 .. m
    BY <1>5
  <1> QED BY <1>2, <1>3, <1>4, <1>5

\* A sequence of rows that grows by one has at most one positive verdict more
LEMMA PositiveGrows ==
  ASSUME NEW rows \in Seq(RowSet), NEW row \in RowSet
  PROVE  /\ Positive(rows) \cap 1 .. Len(rows) = Positive(rows)
         /\ Positive(Append(rows, row)) \cap 1 .. Len(rows) = Positive(rows)
         /\ Positive(Append(rows, row)) \cap 1 .. (Len(rows) + 1) = Positive(Append(rows, row))
         /\ (Len(rows) + 1) \in Positive(Append(rows, row)) <=> row[13].n = 1
  BY DEF Positive

\* Hence their number
LEMMA PositiveCount ==
  ASSUME NEW rows \in Seq(RowSet), NEW row \in RowSet
  PROVE  /\ Cardinality(Positive(rows)) \in Nat
         /\ row[13].n = 1 =>
              Cardinality(Positive(Append(rows, row))) = Cardinality(Positive(rows)) + 1
         /\ row[13].n # 1 =>
              Cardinality(Positive(Append(rows, row))) = Cardinality(Positive(rows))
  <1> DEFINE P == Positive(Append(rows, row))
  <1>1. Len(rows) \in Nat
    OBVIOUS
  <1>2. /\ P \cap 1 .. Len(rows) = Positive(rows)
        /\ P \cap 1 .. (Len(rows) + 1) = P
        /\ (Len(rows) + 1) \in P <=> row[13].n = 1
    BY PositiveGrows
  <1> HIDE DEF P
  <1>3. /\ Cardinality(P \cap 1 .. Len(rows)) \in Nat
        /\ (Len(rows) + 1) \in P =>
             Cardinality(P \cap 1 .. (Len(rows) + 1)) = Cardinality(P \cap 1 .. Len(rows)) + 1
        /\ (Len(rows) + 1) \notin P =>
             Cardinality(P \cap 1 .. (Len(rows) + 1)) = Cardinality(P \cap 1 .. Len(rows))
    BY <1>1, OneMore
  <1>4. QED
    BY <1>2, <1>3 DEF P

\* The sets of whole reports and of their verdicts are finite
LEMMA WholeFinite ==
  ASSUME NEW rs \in Seq(Reports), NEW m \in Nat, NEW idf \in Nat
  PROVE  /\ IsFiniteSet(Whole(rs, m, idf)) /\ Cardinality(Whole(rs, m, idf)) \in Nat
         /\ IsFiniteSet(Verdicts(rs, m, idf)) /\ Cardinality(Verdicts(rs, m, idf)) \in Nat
  <1>1. IsFiniteSet(1 .. Len(rs))
    BY FS_Interval
  <1>2. Whole(rs, m, idf) \subseteq 1 .. Len(rs) /\ Verdicts(rs, m, idf) \subseteq 1 .. Len(rs)
    BY DEF Whole, Verdicts
  <1>3. IsFiniteSet(Whole(rs, m, idf)) /\ IsFiniteSet(Verdicts(rs, m, idf))
    BY <1>1, <1>2, FS_Subset
  <1> QED BY <1>3, FS_CardinalityType

--------------------------------------------------------------------------------
(* Rows and reports *)

\* What a row says of its report
LEMMA RowSays ==
  ASSUME NEW rs \in Seq(Reports), NEW m \in Nat, NEW k \in 1 .. Len(rs), NEW row,
         RowIs(rs, m, k, row)
  PROVE  /\ row[13].n \in Int /\ row[14].n \in Int
         /\ Fields * k <= m => row[13].n = rs[k].cg /\ row[14].n = rs[k].idf
         /\ Fields * k > m => row[13].n = -1
  <1> DEFINE num == [pos \in 1 .. Fields |-> NumberOf(rs, k, pos)]
  <1>1. row \in RowSet
    BY DEF RowIs
  <1>2. row[13] \in Numbers /\ row[14] \in Numbers
    BY <1>1 DEF RowSet, Fields
  <1>3. num[13].n = rs[k].idf /\ num[14].n = rs[k].cg
    BY DEF Fields, NumberOf, Number
  <1>4. Swapped(num)[13] = num[14] /\ Swapped(num)[14] = num[13]
    BY DEF Swapped, Fields
  <1>5. Fields * k <= m => row = Swapped(num)
    BY DEF RowIs
  <1>6. Fields * k > m => row[13] = Blank
    BY DEF RowIs
  <1> HIDE DEF num
  <1>7. Fields * k <= m => row[13].n = rs[k].cg /\ row[14].n = rs[k].idf
    BY <1>3, <1>4, <1>5
  <1>8. Fields * k > m => row[13].n = -1
    BY <1>6 DEF Blank, Number
  <1> QED BY <1>2, <1>7, <1>8 DEF Numbers

\* A function changed in one place is a function still
LEMMA ExceptIsFunction ==
  ASSUME NEW S, NEW f, f = [c \in S |-> f[c]], NEW i, NEW a
  PROVE  [f EXCEPT ![i] = a] = [c \in S |-> [f EXCEPT ![i] = a][c]]
  OBVIOUS

\* The loop over VLS: the row that starts after n groups of fourteen is report n + 1, or
\* the part of it that was read
LEMMA RowRead ==
  ASSUME reports \in Seq(Reports), Prefix(reports, VLS),
         NEW n \in Nat, Fields * n < Len(VLS)
  PROVE  RowIs(reports, Len(VLS), n + 1, RowAt(Fields * n + 1))
  <1> DEFINE row == RowAt(Fields * n + 1)
             num == [pos \in 1 .. Fields |-> NumberOf(reports, n + 1, pos)]
  <1>1. VLS \in Seq(Numbers) /\ Len(VLS) \in Nat /\ Len(reports) \in Nat
    BY DEF Prefix
  <1>2. n + 1 \in 1 .. Len(reports)
    BY <1>1 DEF Prefix, Fields
  <1>3. Blank \in Numbers
    BY DEF Blank, Number, Numbers
  <1>4. \A i \in Nat \ {0} : At(i) \in Numbers
    BY <1>1, <1>3 DEF At
  <1>5. row \in RowSet
    BY <1>4 DEF RowAt, RowSet, Fields
  <1>6. ASSUME Fields * (n + 1) <= Len(VLS)
        PROVE  row = Swapped(num)
    <2>1. ASSUME NEW pos \in 1 .. Fields
          PROVE  At(Fields * n + pos) = NumberOf(reports, n + 1, pos)
      <3>1. Place(n + 1, pos) = Fields * n + pos /\ Place(n + 1, pos) <= Len(VLS)
        BY <1>1, <1>6 DEF Place, Fields
      <3>2. ~(Place(n + 1, pos) = Len(VLS) /\ pos = 13)
        BY <1>1, <1>6 DEF Place, Fields
      <3>3. VLS[Place(n + 1, pos)] = NumberOf(reports, n + 1, pos)
        BY <1>2, <3>1, <3>2 DEF Prefix
      <3> QED BY <3>1, <3>3 DEF At
    <2>2. ASSUME NEW c \in 1 .. Fields
          PROVE  row[c] = Swapped(num)[c]
      <3>1. CASE c = 13
        <4>1. row[c] = At(Fields * n + 14)
          BY <3>1 DEF RowAt, Fields
        <4>2. Swapped(num)[c] = num[14]
          BY <3>1 DEF Swapped, Fields
        <4> QED BY <4>1, <4>2, <2>1 DEF Fields
      <3>2. CASE c = 14
        <4>1. row[c] = At(Fields * n + 13)
          BY <3>2 DEF RowAt, Fields
        <4>2. Swapped(num)[c] = num[13]
          BY <3>2 DEF Swapped, Fields
        <4> QED BY <4>1, <4>2, <2>1 DEF Fields
      <3>3. CASE c # 13 /\ c # 14
        <4>1. row[c] = At(Fields * n + c)
          BY <3>3 DEF RowAt, Fields
        <4>2. Swapped(num)[c] = num[c]
          BY <3>3 DEF Swapped, Fields
        <4> QED BY <4>1, <4>2, <2>1
      <3> QED BY <3>1, <3>2, <3>3
    <2>3. row = [c \in 1 .. Fields |-> row[c]]
      BY DEF RowAt
    <2>4. Swapped(num) = [c \in 1 .. Fields |-> Swapped(num)[c]]
      <3>1. num = [c \in 1 .. Fields |-> num[c]]
        OBVIOUS
      <3> HIDE DEF num
      <3> DEFINE half == [num EXCEPT ![13] = num[14]]
      <3>2. half = [c \in 1 .. Fields |-> half[c]]
        BY <3>1, ExceptIsFunction, Zenon
      <3>3. Swapped(num) = [half EXCEPT ![14] = num[13]]
        BY DEF Swapped
      <3> HIDE DEF half
      <3> QED BY <3>2, <3>3, ExceptIsFunction
    <2> HIDE DEF row, num
    <2> QED BY <2>2, <2>3, <2>4
  <1>7. ASSUME Fields * (n + 1) > Len(VLS)
        PROVE  row[13] = Blank
    BY <1>1, <1>7 DEF RowAt, At, Fields
  <1> HIDE DEF row, num
  <1>8. n + 1 <= Len(reports)
    BY <1>1, <1>2
  <1> QED BY <1>5, <1>6, <1>7, <1>8 DEF RowIs, row, num

\* What grep keeps: the whole reports of the identifier, and perhaps the row that was cut
\* off, which has no verdict
LEMMA FilteredRows ==
  ASSUME NEW rs \in Seq(Reports), NEW m \in Nat, NEW idf \in Nat, NEW rows \in Seq(RowSet),
         Fields * Len(rows) < m + Fields, Fields * Len(rows) >= m,
         \A k \in 1 .. Len(rows) : RowIs(rs, m, k, rows[k])
  PROVE  Agree(rs, m, idf, Cardinality(Kept(rows, idf)),
               Cardinality(Kept(rows, idf) \cap Positive(rows)))
  <1> DEFINE N == Len(rows)
             W == Whole(rs, m, idf)
             K == Kept(rows, idf)
  <1>1. N \in Nat /\ Len(rs) \in Nat
    OBVIOUS
  <1>2. \A k \in 1 .. N : k \in 1 .. Len(rs)
    <2> SUFFICES ASSUME NEW k \in 1 .. N
                 PROVE  k <= Len(rs)
      BY <1>1
    <2>1. RowIs(rs, m, k, rows[k])
      OBVIOUS
    <2> QED BY <2>1 DEF RowIs
  <1>3. \A k \in 1 .. N :
          /\ rows[k][13].n \in Int /\ rows[k][14].n \in Int
          /\ Fields * k <= m => rows[k][13].n = rs[k].cg /\ rows[k][14].n = rs[k].idf
          /\ Fields * k > m => rows[k][13].n = -1
    BY <1>2, RowSays
  <1>4. \A k \in 1 .. Len(rs) : Fields * k <= m => k \in 1 .. N
    BY <1>1 DEF Fields
  <1>5. \A k \in 1 .. N : Fields * k > m => k = N
    BY <1>1 DEF Fields
  <1>6. IsFiniteSet(W) /\ Cardinality(W) \in Nat
    BY WholeFinite
  <1>7. W = {k \in 1 .. N : Fields * k <= m /\ rs[k].idf = idf}
    BY <1>2, <1>4 DEF Whole
  <1>8. K = {k \in 1 .. N : rows[k][14].n = idf}
    BY DEF Kept
  <1>9. W \subseteq K
    BY <1>3, <1>7, <1>8
  <1>10. \A k \in K : k \in W \/ (k = N /\ Fields * k > m)
    <2> SUFFICES ASSUME NEW k \in K, k \notin W
                 PROVE  k = N /\ Fields * k > m
      OBVIOUS
    <2>1. k \in 1 .. N
      BY <1>8
    <2>2. CASE Fields * k <= m
      BY <2>1, <2>2, <1>3, <1>7, <1>8
    <2>3. CASE Fields * k > m
      BY <2>1, <2>3, <1>5
    <2> QED BY <2>1, <2>2, <2>3, <1>1 DEF Fields
  <1>11. K \cap Positive(rows) = Verdicts(rs, m, idf)
    <2>1. ASSUME NEW k \in K, k \in Positive(rows)
          PROVE  k \in Verdicts(rs, m, idf)
      <3>1. k \in 1 .. N /\ rows[k][13].n = 1
        BY <2>1, <1>8 DEF Positive
      <3>2. Fields * k <= m
        BY <3>1, <1>1, <1>3 DEF Fields
      <3>3. rs[k].cg = 1
        BY <3>1, <3>2, <1>3
      <3>4. k \in W
        BY <3>2, <1>10, <1>1, <3>1 DEF Fields
      <3> QED BY <3>3, <3>4 DEF Verdicts
    <2>2. ASSUME NEW k \in Verdicts(rs, m, idf)
          PROVE  k \in K /\ k \in Positive(rows)
      <3>1. k \in W /\ rs[k].cg = 1
        BY DEF Verdicts
      <3>2. k \in 1 .. N /\ Fields * k <= m
        BY <3>1, <1>7
      <3> QED BY <3>1, <3>2, <1>3, <1>9 DEF Positive
    <2> QED BY <2>1, <2>2 DEF Verdicts
  <1>12. \/ Cardinality(K) = Cardinality(W)
         \/ /\ Cardinality(K) = Cardinality(W) + 1
            /\ \A k \in Nat : Fields * k # m
    <2>1. CASE K = W
      BY <2>1
    <2>2. CASE K # W
      <3>1. N \in K /\ N \notin W /\ Fields * N > m
        BY <2>2, <1>9, <1>10
      <3>2. K = W \cup {N}
        BY <3>1, <1>9, <1>10
      <3>3. Cardinality(K) = Cardinality(W) + 1
        BY <3>1, <3>2, <1>6, FS_AddElement
      <3>4. \A k \in Nat : Fields * k # m
        BY <3>1, <1>1 DEF Fields
      <3> QED BY <3>3, <3>4
    <2> QED BY <2>1, <2>2
  <1>13. /\ Cardinality(K) >= Cardinality(W)
         /\ Cardinality(K) <= Cardinality(W) + 1
         /\ Cardinality(K) # Cardinality(W) => \A k \in Nat : Fields * k # m
    <2> HIDE DEF K, W
    <2> QED BY <1>6, <1>12
  <1>14. Cardinality(K \cap Positive(rows)) = Cardinality(Verdicts(rs, m, idf))
    BY <1>11
  <1> QED BY <1>13, <1>14, Zenon DEF Agree

--------------------------------------------------------------------------------
(* One report more changes nothing of what was said of those before it *)

\* The reports before it
LEMMA LaterReports ==
  ASSUME NEW rs \in Seq(Reports), NEW x \in Reports
  PROVE  /\ Append(rs, x) \in Seq(Reports) /\ Len(Append(rs, x)) = Len(rs) + 1
         /\ \A k \in 1 .. Len(rs) : Append(rs, x)[k] = rs[k]
  OBVIOUS

\* The prefix that was read
LEMMA LaterPrefix ==
  ASSUME NEW rs \in Seq(Reports), NEW x \in Reports, NEW v, Prefix(rs, v)
  PROVE  Prefix(Append(rs, x), v)
  <1>1. /\ Len(Append(rs, x)) = Len(rs) + 1 /\ Len(rs) \in Nat
        /\ \A k \in 1 .. Len(rs) : Append(rs, x)[k] = rs[k]
    BY LaterReports
  <1>2. v \in Seq(Numbers) /\ Len(v) \in Nat /\ Len(v) <= Fields * Len(rs)
    BY DEF Prefix
  <1>3. ASSUME NEW k \in 1 .. Len(Append(rs, x)), NEW pos \in 1 .. Fields,
               Place(k, pos) <= Len(v)
        PROVE  k \in 1 .. Len(rs)
    BY <1>1, <1>2, <1>3 DEF Place, Fields
  <1>4. \A k \in 1 .. Len(rs), pos \in 1 .. Fields :
          NumberOf(Append(rs, x), k, pos) = NumberOf(rs, k, pos)
    BY <1>1 DEF NumberOf
  <1>5. Len(v) <= Fields * Len(Append(rs, x))
    BY <1>1, <1>2 DEF Fields
  <1>6. \A k \in 1 .. Len(rs), pos \in 1 .. Fields :
          Place(k, pos) <= Len(v) =>
            \/ v[Place(k, pos)] = NumberOf(rs, k, pos)
            \/ Place(k, pos) = Len(v) /\ pos = 13
    BY DEF Prefix
  <1>7. \A k \in 1 .. Len(Append(rs, x)), pos \in 1 .. Fields :
          Place(k, pos) <= Len(v) =>
            \/ v[Place(k, pos)] = NumberOf(Append(rs, x), k, pos)
            \/ Place(k, pos) = Len(v) /\ pos = 13
    <2> SUFFICES ASSUME NEW k \in 1 .. Len(Append(rs, x)), NEW pos \in 1 .. Fields,
                        Place(k, pos) <= Len(v)
                 PROVE  \/ v[Place(k, pos)] = NumberOf(Append(rs, x), k, pos)
                        \/ Place(k, pos) = Len(v) /\ pos = 13
      OBVIOUS
    <2>1. k \in 1 .. Len(rs)
      BY <1>3
    <2> QED BY <2>1, <1>4, <1>6
  <1> QED BY <1>2, <1>5, <1>7 DEF Prefix

\* The rows
LEMMA LaterRow ==
  ASSUME NEW rs \in Seq(Reports), NEW x \in Reports, NEW m, NEW k \in Nat \ {0}, NEW row,
         RowIs(rs, m, k, row)
  PROVE  RowIs(Append(rs, x), m, k, row)
  <1>1. k \in 1 .. Len(rs) /\ k <= Len(Append(rs, x))
    BY LaterReports DEF RowIs
  <1>2. Append(rs, x)[k] = rs[k]
    BY <1>1, LaterReports
  <1>3. [pos \in 1 .. Fields |-> NumberOf(Append(rs, x), k, pos)]
        = [pos \in 1 .. Fields |-> NumberOf(rs, k, pos)]
    BY <1>2 DEF NumberOf
  <1> QED BY <1>1, <1>3 DEF RowIs

\* The counts
LEMMA LaterAgree ==
  ASSUME NEW rs \in Seq(Reports), NEW x \in Reports, NEW m \in Nat, m <= Fields * Len(rs),
         NEW idf, NEW total, NEW positive, Agree(rs, m, idf, total, positive)
  PROVE  Agree(Append(rs, x), m, idf, total, positive)
  <1>1. \A k \in 1 .. Len(rs) : Append(rs, x)[k] = rs[k]
    BY LaterReports
  <1>2. \A k \in 1 .. Len(Append(rs, x)) : Fields * k <= m => k \in 1 .. Len(rs)
    BY LaterReports DEF Fields
  <1>3. 1 .. Len(rs) \subseteq 1 .. Len(Append(rs, x))
    BY LaterReports
  <1>4. Whole(Append(rs, x), m, idf) = Whole(rs, m, idf)
    BY <1>1, <1>2, <1>3 DEF Whole
  <1>5. \A k \in Whole(rs, m, idf) : Append(rs, x)[k] = rs[k]
    BY <1>1 DEF Whole
  <1>6. Verdicts(Append(rs, x), m, idf) = Verdicts(rs, m, idf)
    BY <1>4, <1>5 DEF Verdicts
  <1> QED BY <1>4, <1>6 DEF Agree

--------------------------------------------------------------------------------
(* Every step keeps the invariant *)

\* The two outcomes of a place of the log: its report, and the field
LEMMA PlaceOf ==
  ASSUME NEW i \in Nat \ {0}
  PROVE  \E k \in Nat \ {0}, pos \in 1 .. Fields : Place(k, pos) = i
  <1> DEFINE k == (i - 1) \div Fields + 1
             pos == ((i - 1) % Fields) + 1
  <1>1. k \in Nat \ {0} /\ pos \in 1 .. Fields /\ Place(k, pos) = i
    BY DEF Place, Fields
  <1> QED BY <1>1

\* A window closes and starts a report
LEMMA CloseWindowKeeps ==
  ASSUME Inv, NEW idf \in Idf, NEW cg \in {0, 1}, CloseWindow(idf, cg)
  PROVE  Inv'
  <1> DEFINE x == [idf |-> idf, cg |-> cg]
  <1>1. x \in Reports
    BY DEF Reports
  <1>2. /\ reports' = Append(reports, x) /\ log' = Append(log, Number(Len(reports) + 1, 1, 0))
        /\ Len(log) = Fields * Len(reports) /\ Len(reports) < MaxReports
    BY DEF CloseWindow, LastDone
  <1>3. /\ stage' = stage /\ VLS' = VLS /\ out' = out /\ keep' = keep /\ temp' = temp
        /\ next' = next /\ lines' = lines /\ nb_CG' = nb_CG
    BY DEF CloseWindow, script
  <1>4. /\ reports \in Seq(Reports) /\ Len(reports) \in Nat /\ Len(reports) <= MaxReports
        /\ log \in Seq(Numbers) /\ Len(log) \in Nat /\ MaxReports \in Nat
        /\ \A k \in 1 .. Len(reports), pos \in 1 .. Fields :
             Place(k, pos) <= Len(log) => log[Place(k, pos)] = NumberOf(reports, k, pos)
    BY LogAssumption DEF Inv, LogInv
  <1> HIDE DEF x
  <1>5. /\ reports' \in Seq(Reports) /\ Len(reports') = Len(reports) + 1
        /\ \A k \in 1 .. Len(reports) : reports'[k] = reports[k]
    BY <1>1, <1>2, <1>4, LaterReports
  <1>6. Shape'
    BY <1>3 DEF Inv, Shape
  <1>7. LogInv'
    <2>1. Number(Len(reports) + 1, 1, 0) \in Numbers
      BY <1>4 DEF Number, Numbers
    <2>2. /\ log' \in Seq(Numbers) /\ Len(log') = Len(log) + 1
          /\ log'[Len(log) + 1] = Number(Len(reports) + 1, 1, 0)
          /\ \A i \in 1 .. Len(log) : log'[i] = log[i]
      BY <1>2, <1>4, <2>1
    <2>3. ASSUME NEW k \in 1 .. Len(reports'), NEW pos \in 1 .. Fields,
                 Place(k, pos) <= Len(log')
          PROVE  log'[Place(k, pos)] = NumberOf(reports', k, pos)
      <3>1. CASE k <= Len(reports)
        <4>1. k \in 1 .. Len(reports) /\ Place(k, pos) \in 1 .. Len(log)
          BY <3>1, <1>2, <1>4 DEF Place, Fields
        <4>2. log'[Place(k, pos)] = NumberOf(reports, k, pos)
          BY <4>1, <1>4, <2>2
        <4> QED BY <4>1, <4>2, <1>5 DEF NumberOf
      <3>2. CASE k > Len(reports)
        <4>1. k = Len(reports) + 1
          BY <3>2, <1>4, <1>5
        <4>2. pos = 1 /\ Place(k, pos) = Len(log) + 1
          BY <4>1, <2>3, <2>2, <1>2, <1>4 DEF Place, Fields
        <4> QED BY <4>1, <4>2, <2>2 DEF NumberOf
      <3> QED BY <3>1, <3>2, <1>4
    <2>4. /\ Len(reports') <= MaxReports
          /\ Len(log') >= Fields * Len(reports') - Fields + 1
          /\ Len(log') <= Fields * Len(reports')
      BY <1>2, <1>4, <1>5, <2>2 DEF Fields
    <2> QED BY <1>5, <2>2, <2>3, <2>4 DEF LogInv
  <1>8. ReadInv'
    <2>1. Prefix(reports, VLS)
      BY DEF Inv, ReadInv
    <2>2. Prefix(Append(reports, x), VLS)
      BY <2>1, <1>1, <1>4, LaterPrefix
    <2> QED BY <2>2, <1>2, <1>3 DEF ReadInv
  <1>9. RowsInv'
    <2> SUFFICES ASSUME stage \in {"rows", "filtering"}
                 PROVE  \A k \in 1 .. Len(out) : RowIs(reports', Len(VLS), k, out[k])
      BY <1>3 DEF RowsInv, Inv
    <2> SUFFICES ASSUME NEW k \in 1 .. Len(out)
                 PROVE  RowIs(reports', Len(VLS), k, out[k])
      OBVIOUS
    <2>1. RowIs(reports, Len(VLS), k, out[k])
      BY DEF RowsInv, Inv
    <2>2. k \in Nat \ {0}
      OBVIOUS
    <2>3. RowIs(Append(reports, x), Len(VLS), k, out[k])
      BY <2>1, <2>2, <1>1, <1>4, LaterRow
    <2> QED BY <2>3, <1>2
  <1>10. GrepInv'
    BY <1>3 DEF Inv, GrepInv, Kept, Positive
  <1>11. Len(VLS) \in Nat /\ Len(VLS) <= Fields * Len(reports)
    BY DEF Inv, ReadInv, Prefix
  <1>12. ASSUME NEW total, NEW positive, Agree(reports, Len(VLS), keep, total, positive)
         PROVE  Agree(reports', Len(VLS'), keep', total, positive)
    <2>1. Agree(Append(reports, x), Len(VLS), keep, total, positive)
      BY <1>1, <1>4, <1>11, <1>12, LaterAgree
    <2> QED BY <2>1, <1>2, <1>3
  <1>13. TotalsInv'
    <2> SUFFICES ASSUME stage' = "counting"
                 PROVE  Agree(reports', Len(VLS'), keep', Len(out'), Cardinality(Positive(out')))
      BY DEF TotalsInv
    <2>1. Agree(reports, Len(VLS), keep, Len(out), Cardinality(Positive(out)))
      BY <1>3 DEF Inv, TotalsInv
    <2> QED BY <2>1, <1>12, <1>3
  <1>14. AwkInv'
    <2>1. stage' = "counted" => Agree(reports', Len(VLS'), keep', lines', nb_CG')
      BY <1>3, <1>12 DEF Inv, AwkInv
    <2>2. /\ stage' \in {"idle", "rows", "filtering"} => lines' = 0 /\ nb_CG' = 0
          /\ stage' = "counting" =>
               lines' = next' - 1 /\ nb_CG' = Cardinality(Positive(out') \cap 1 .. (next' - 1))
      BY <1>3 DEF Inv, AwkInv
    <2> QED BY <2>1, <2>2 DEF AwkInv
  <1> QED BY <1>6, <1>7, <1>8, <1>9, <1>10, <1>13, <1>14 DEF Inv

\* The next number of a report is written
LEMMA WriteNextKeeps ==
  ASSUME Inv, WriteNext
  PROVE  Inv'
  <1> DEFINE k0 == Len(reports)
             p0 == Len(log) - Fields * (k0 - 1) + 1
  <1>1. reports' = reports /\ log' = Append(log, Written(k0)[p0]) /\ Len(log) # Fields * k0
    BY DEF WriteNext, LastDone
  <1>2. /\ stage' = stage /\ VLS' = VLS /\ out' = out /\ keep' = keep /\ temp' = temp
        /\ next' = next /\ lines' = lines /\ nb_CG' = nb_CG
    BY DEF WriteNext, script
  <1>3. /\ reports \in Seq(Reports) /\ Len(reports) \in Nat /\ Len(reports) <= MaxReports
        /\ log \in Seq(Numbers) /\ Len(log) \in Nat /\ MaxReports \in Nat
        /\ Len(log) >= Fields * Len(reports) - Fields + 1 /\ Len(log) <= Fields * Len(reports)
        /\ \A k \in 1 .. Len(reports), pos \in 1 .. Fields :
             Place(k, pos) <= Len(log) => log[Place(k, pos)] = NumberOf(reports, k, pos)
    BY LogAssumption DEF Inv, LogInv
  <1>4. p0 \in 1 .. Fields /\ k0 \in 1 .. Len(reports) /\ Place(k0, p0) = Len(log) + 1
    <2>1. \A r, l \in Nat : l >= 14 * r - 14 + 1 /\ l <= 14 * r /\ l # 14 * r =>
            l - 14 * (r - 1) + 1 \in 1 .. 14 /\ r \in 1 .. r
            /\ 14 * (r - 1) + (l - 14 * (r - 1) + 1) = l + 1
      OBVIOUS
    <2> QED BY <1>1, <1>3, <2>1 DEF Fields, Place
  <1>5. Written(k0)[p0] = NumberOf(reports, k0, p0)
    BY <1>4 DEF Written, NumberOf
  <1>6. NumberOf(reports, k0, p0) \in Numbers
    <2>1. reports[k0] \in Reports
      BY <1>3, <1>4
    <2> HIDE DEF k0, p0
    <2>2. reports[k0].idf \in Idf /\ reports[k0].cg \in {0, 1}
      BY <2>1 DEF Reports
    <2>3. \A i \in Idf \cup {0, 1} : i \in Int
      BY LogAssumption
    <2>4. reports[k0].idf \in Int /\ reports[k0].cg \in Int
      BY ONLY <2>2, <2>3
    <2>5. \E n \in Int : NumberOf(reports, k0, p0) = Number(k0, p0, n)
      BY <2>4 DEF NumberOf
    <2>6. k0 \in Nat /\ p0 \in Nat
      BY <1>3, <1>4 DEF Fields
    <2> QED BY <2>5, <2>6 DEF Number, Numbers
  <1>7. LogInv'
    <2> HIDE DEF k0, p0
    <2>1. /\ log' \in Seq(Numbers) /\ Len(log') = Len(log) + 1
          /\ log'[Len(log) + 1] = NumberOf(reports, k0, p0)
          /\ \A i \in 1 .. Len(log) : log'[i] = log[i]
      BY <1>1, <1>3, <1>5, <1>6
    <2>2. ASSUME NEW k \in 1 .. Len(reports), NEW pos \in 1 .. Fields,
                 Place(k, pos) <= Len(log')
          PROVE  log'[Place(k, pos)] = NumberOf(reports, k, pos)
      <3>1. CASE Place(k, pos) <= Len(log)
        <4>1. Place(k, pos) \in 1 .. Len(log)
          BY <3>1, <1>3 DEF Place, Fields
        <4> QED BY <4>1, <3>1, <1>3, <2>1
      <3>2. CASE Place(k, pos) > Len(log)
        <4>1. Place(k, pos) = Place(k0, p0)
          BY <3>2, <2>2, <2>1, <1>3, <1>4 DEF Place, Fields
        <4>2. k = k0 /\ pos = p0
          BY <4>1, <1>4 DEF Place, Fields
        <4> QED BY <4>2, <1>4, <2>1
      <3> QED BY <3>1, <3>2, <1>3 DEF Place, Fields
    <2>3. Len(log') >= Fields * Len(reports) - Fields + 1 /\ Len(log') <= Fields * Len(reports)
      BY <1>1, <1>3, <2>1 DEF Fields, k0
    <2> QED BY <1>1, <1>3, <2>1, <2>2, <2>3 DEF LogInv
  <1>8. /\ Shape' /\ ReadInv' /\ RowsInv' /\ GrepInv' /\ TotalsInv' /\ AwkInv'
    BY <1>1, <1>2 DEF Inv, Shape, ReadInv, RowsInv, GrepInv, TotalsInv, AwkInv
  <1> QED BY <1>7, <1>8 DEF Inv

\* A prefix of the log is a prefix of the reports
LEMMA WholeLines ==
  ASSUME LogInv, NEW n \in 0 .. Len(log)
  PROVE  Prefix(reports, SubSeq(log, 1, n)) /\ Len(SubSeq(log, 1, n)) = n
  <1> DEFINE v == SubSeq(log, 1, n)
  <1>1. /\ reports \in Seq(Reports) /\ Len(reports) \in Nat
        /\ log \in Seq(Numbers) /\ Len(log) \in Nat /\ Len(log) <= Fields * Len(reports)
        /\ \A k \in 1 .. Len(reports), pos \in 1 .. Fields :
             Place(k, pos) <= Len(log) => log[Place(k, pos)] = NumberOf(reports, k, pos)
    BY DEF LogInv
  <1>2. v \in Seq(Numbers) /\ Len(v) = n /\ \A i \in 1 .. n : v[i] = log[i]
    BY <1>1
  <1> HIDE DEF v
  <1>3. ASSUME NEW k \in 1 .. Len(reports), NEW pos \in 1 .. Fields, Place(k, pos) <= Len(v)
        PROVE  v[Place(k, pos)] = NumberOf(reports, k, pos)
    <2>1. Place(k, pos) \in 1 .. n /\ Place(k, pos) <= Len(log)
      BY <1>2, <1>1, <1>3 DEF Place, Fields
    <2> QED BY <2>1, <1>1, <1>2
  <1>4. Len(v) <= Fields * Len(reports)
    BY <1>1, <1>2 DEF Fields
  <1>5. Prefix(reports, v)
    BY <1>2, <1>3, <1>4 DEF Prefix
  <1> QED BY <1>2, <1>5 DEF v

\* Only an identifier can be cut short: every other number of the log is one digit
LEMMA CutShort ==
  ASSUME LogInv, NEW n \in Nat, n < Len(log), NEW c \in Cut[log[n + 1].n]
  PROVE  /\ Prefix(reports, Append(SubSeq(log, 1, n), [log[n + 1] EXCEPT !.n = c]))
         /\ Len(Append(SubSeq(log, 1, n), [log[n + 1] EXCEPT !.n = c])) = n + 1
  <1> DEFINE last == [log[n + 1] EXCEPT !.n = c]
             v == SubSeq(log, 1, n)
             w == Append(v, last)
  <1>1. /\ reports \in Seq(Reports) /\ Len(reports) \in Nat
        /\ log \in Seq(Numbers) /\ Len(log) \in Nat /\ Len(log) <= Fields * Len(reports)
        /\ \A k \in 1 .. Len(reports), pos \in 1 .. Fields :
             Place(k, pos) <= Len(log) => log[Place(k, pos)] = NumberOf(reports, k, pos)
    BY DEF LogInv
  <1>2. PICK k0 \in Nat \ {0}, p0 \in 1 .. Fields : Place(k0, p0) = n + 1
    <2>1. n + 1 \in Nat \ {0}
      OBVIOUS
    <2> HIDE DEF w
    <2> QED BY <2>1, PlaceOf
  <1>3. k0 \in 1 .. Len(reports)
    BY <1>1, <1>2 DEF Place, Fields
  <1>4. log[n + 1] = NumberOf(reports, k0, p0)
    <2>1. Place(k0, p0) <= Len(log)
      BY <1>1, <1>2
    <2> QED BY <2>1, <1>1, <1>2, <1>3
  <1>5. reports[k0] \in Reports
    BY <1>1, <1>3
  <1>6. p0 = 13
    <2> SUFFICES ASSUME p0 # 13
                 PROVE  FALSE
      OBVIOUS
    <2>1. reports[k0].cg \in {0, 1}
      BY <1>5 DEF Reports
    <2>2. log[n + 1].n = IF p0 = 14 THEN reports[k0].cg ELSE 0
      BY <1>4 DEF NumberOf, Number
    <2>3. log[n + 1].n \in {0, 1}
      BY <2>1, <2>2
    <2> QED BY <2>3, LogAssumption
  <1>7. last \in Numbers
    <2>1. reports[k0].idf \in Idf
      BY <1>5 DEF Reports
    <2>2. log[n + 1] = Number(k0, p0, reports[k0].idf)
      BY <1>4, <1>6 DEF NumberOf
    <2>3. log[n + 1].n \in Idf
      BY <2>1, <2>2 DEF Number
    <2>4. c \in Int
      <3>1. \A i \in Idf : Cut[i] \subseteq Nat
        BY LogAssumption
      <3>2. Cut[log[n + 1].n] \subseteq Nat
        BY <2>3, <3>1
      <3> QED BY <3>2
    <2>5. last = Number(k0, p0, c)
      BY <2>2 DEF Number
    <2>6. p0 \in Nat
      BY <1>2 DEF Fields
    <2> QED BY <2>4, <2>5, <2>6, <1>2 DEF Number, Numbers
  <1>8. Prefix(reports, v) /\ Len(v) = n
    BY <1>1, WholeLines
  <1>9. v \in Seq(Numbers)
    BY <1>8 DEF Prefix
  <1> HIDE DEF v, last
  <1>10. w \in Seq(Numbers) /\ Len(w) = n + 1 /\ \A i \in 1 .. n : w[i] = v[i]
    BY <1>7, <1>8, <1>9
  <1> HIDE DEF w
  <1>11. Len(w) <= Fields * Len(reports)
    BY <1>1, <1>10 DEF Fields
  <1>12. ASSUME NEW k \in 1 .. Len(reports), NEW pos \in 1 .. Fields, Place(k, pos) <= Len(w)
         PROVE  \/ w[Place(k, pos)] = NumberOf(reports, k, pos)
                \/ Place(k, pos) = Len(w) /\ pos = 13
    <2>1. CASE Place(k, pos) <= n
      <3>1. Place(k, pos) \in 1 .. n /\ Place(k, pos) <= Len(v)
        BY <2>1, <1>8 DEF Place, Fields
      <3>2. \/ v[Place(k, pos)] = NumberOf(reports, k, pos)
            \/ Place(k, pos) = Len(v) /\ pos = 13
        BY <3>1, <1>8 DEF Prefix
      <3>3. v[Place(k, pos)] = log[Place(k, pos)]
        BY <3>1, <1>1 DEF v
      <3>4. log[Place(k, pos)] = NumberOf(reports, k, pos)
        BY <3>1, <1>1
      <3> QED BY <3>1, <3>3, <3>4, <1>10
    <2>2. CASE Place(k, pos) > n
      <3>1. Place(k, pos) = Place(k0, p0)
        BY <2>2, <1>2, <1>10, <1>12 DEF Place, Fields
      <3>2. pos = p0
        BY <3>1, <1>2 DEF Place, Fields
      <3> QED BY <3>1, <3>2, <1>2, <1>6, <1>10
    <2> QED BY <2>1, <2>2 DEF Place, Fields
  <1>13. Prefix(reports, w)
    BY <1>10, <1>11, <1>12 DEF Prefix
  <1> QED BY <1>10, <1>13 DEF w, v, last

\* The script reads the log
LEMMA ReadLogKeeps ==
  ASSUME Inv, NEW n \in 0 .. Len(log), ReadLog(n)
  PROVE  Inv'
  <1>1. /\ stage = "idle" /\ stage' = "rows" /\ out' = <<>>
        /\ reports' = reports /\ log' = log /\ keep' = keep /\ temp' = temp /\ next' = next
        /\ lines' = lines /\ nb_CG' = nb_CG
    BY DEF ReadLog
  <1>2. LogInv
    BY DEF Inv
  <1>3. Prefix(reports, VLS')
    <2>1. CASE VLS' = SubSeq(log, 1, n)
      BY <2>1, <1>2, WholeLines
    <2>2. CASE n < Len(log) /\ \E c \in Cut[log[n + 1].n] :
                 VLS' = Append(SubSeq(log, 1, n), [log[n + 1] EXCEPT !.n = c])
      <3>1. n \in Nat /\ n < Len(log)
        BY <2>2
      <3>2. PICK c \in Cut[log[n + 1].n] :
                   VLS' = Append(SubSeq(log, 1, n), [log[n + 1] EXCEPT !.n = c])
        BY <2>2
      <3>3. Prefix(reports, Append(SubSeq(log, 1, n), [log[n + 1] EXCEPT !.n = c]))
        BY <3>1, <1>2, CutShort
      <3> QED BY <3>2, <3>3
    <2> QED BY <2>1, <2>2 DEF ReadLog
  <1>4. LogInv' /\ ReadInv'
    BY <1>1, <1>2, <1>3 DEF LogInv, ReadInv
  <1>5. Shape'
    BY <1>1 DEF Inv, Shape
  <1>6. RowsInv'
    <2>1. Len(VLS') \in Nat
      BY <1>3 DEF Prefix
    <2> QED BY <1>1, <2>1 DEF RowsInv, Fields
  <1>7. GrepInv' /\ TotalsInv' /\ AwkInv'
    BY <1>1 DEF Inv, GrepInv, TotalsInv, AwkInv
  <1> QED BY <1>4, <1>5, <1>6, <1>7 DEF Inv

\* A row is written
LEMMA AddRowKeeps ==
  ASSUME Inv, AddRow
  PROVE  Inv'
  <1> DEFINE n == Len(out)
             row == RowAt(Fields * n + 1)
  <1>1. /\ stage = "rows" /\ stage' = stage /\ Fields * n < Len(VLS) /\ out' = Append(out, row)
        /\ reports' = reports /\ log' = log /\ VLS' = VLS /\ keep' = keep /\ temp' = temp
        /\ next' = next /\ lines' = lines /\ nb_CG' = nb_CG
    BY DEF AddRow
  <1>2. reports \in Seq(Reports) /\ Prefix(reports, VLS) /\ Len(VLS) \in Nat
    BY DEF Inv, LogInv, ReadInv, Prefix
  <1>3. /\ out \in Seq(RowSet) /\ n \in Nat
        /\ \A k \in 1 .. Len(out) : RowIs(reports, Len(VLS), k, out[k])
    BY <1>1 DEF Inv, RowsInv
  <1>4. RowIs(reports, Len(VLS), n + 1, row)
    BY <1>1, <1>2, <1>3, RowRead
  <1>5. row \in RowSet
    BY <1>4 DEF RowIs
  <1> HIDE DEF row
  <1>6. /\ out' \in Seq(RowSet) /\ Len(out') = n + 1 /\ out'[n + 1] = row
        /\ \A k \in 1 .. n : out'[k] = out[k]
    BY <1>1, <1>3, <1>5
  <1>7. \A k \in 1 .. Len(out') : RowIs(reports, Len(VLS), k, out'[k])
    <2> SUFFICES ASSUME NEW k \in 1 .. n + 1
                 PROVE  RowIs(reports, Len(VLS), k, out'[k])
      BY <1>6
    <2>1. CASE k = n + 1
      BY <2>1, <1>4, <1>6
    <2>2. CASE k \in 1 .. n
      BY <2>2, <1>3, <1>6
    <2> QED BY <2>1, <2>2, <1>3
  <1>8. Fields * Len(out') < Len(VLS) + Fields
    BY <1>1, <1>2, <1>3, <1>6 DEF Fields
  <1>9. RowsInv'
    BY <1>1, <1>6, <1>7, <1>8 DEF RowsInv
  <1>10. Shape'
    <2> HIDE DEF n
    <2>1. next = 1 /\ keep \in Nat /\ lines \in Nat /\ nb_CG \in Nat /\ nb_CG <= lines
          /\ temp \in Seq(RowSet) /\ temp = <<>>
      BY <1>1 DEF Inv, Shape
    <2>2. next \in 1 .. Len(out') + 1
      BY <2>1, <1>3, <1>6
    <2> QED BY <1>1, <1>6, <2>1, <2>2 DEF Shape
  <1>11. LogInv' /\ ReadInv' /\ GrepInv' /\ TotalsInv' /\ AwkInv'
    BY <1>1 DEF Inv, LogInv, ReadInv, GrepInv, TotalsInv, AwkInv
  <1> QED BY <1>9, <1>10, <1>11 DEF Inv

\* An identifier is typed
LEMMA AskKeeps ==
  ASSUME Inv, NEW idf \in Idf, Ask(idf)
  PROVE  Inv'
  <1>1. /\ stage = "rows" /\ stage' = "filtering" /\ keep' = idf /\ next' = 1
        /\ Fields * Len(out) >= Len(VLS)
        /\ reports' = reports /\ log' = log /\ VLS' = VLS /\ out' = out /\ temp' = temp
        /\ lines' = lines /\ nb_CG' = nb_CG
    BY DEF Ask
  <1>2. /\ keep' \in Nat /\ out \in Seq(RowSet) /\ temp = <<>> /\ temp \in Seq(RowSet)
        /\ lines \in Nat /\ nb_CG \in Nat /\ nb_CG <= lines
    BY <1>1, LogAssumption DEF Inv, Shape
  <1>3. Shape'
    <2>1. 1 \in 1 .. Len(out) + 1
      BY <1>2
    <2> QED BY <1>1, <1>2, <2>1 DEF Shape
  <1>4. RowsInv'
    BY <1>1 DEF Inv, RowsInv
  <1>5. GrepInv'
    <2>1. 1 .. (next' - 1) = {} /\ Positive(temp') = {} /\ Len(temp') = 0
      BY <1>1, <1>2 DEF Positive
    <2>2. Cardinality({}) = 0
      BY FS_EmptySet
    <2>3. Kept(out', keep') \cap 1 .. (next' - 1) = {}
          /\ (Kept(out', keep') \cap Positive(out')) \cap 1 .. (next' - 1) = {}
      BY <2>1
    <2> QED BY <2>1, <2>2, <2>3 DEF GrepInv
  <1>6. LogInv' /\ ReadInv' /\ TotalsInv' /\ AwkInv'
    BY <1>1 DEF Inv, LogInv, ReadInv, TotalsInv, AwkInv
  <1> QED BY <1>3, <1>4, <1>5, <1>6 DEF Inv

\* grep reads a row
LEMMA GrepKeeps ==
  ASSUME Inv, Grep
  PROVE  Inv'
  <1> DEFINE row == out[next]
             m == next - 1
             K == Kept(out, keep)
             KP == K \cap Positive(out)
  <1>1. /\ stage = "filtering" /\ stage' = stage /\ next <= Len(out) /\ next' = next + 1
        /\ temp' = IF row[14].n = keep THEN Append(temp, row) ELSE temp
        /\ reports' = reports /\ log' = log /\ VLS' = VLS /\ out' = out /\ keep' = keep
        /\ lines' = lines /\ nb_CG' = nb_CG
    BY DEF Grep
  <1>2. /\ out \in Seq(RowSet) /\ temp \in Seq(RowSet) /\ next \in 1 .. Len(out) + 1
        /\ keep \in Nat /\ lines \in Nat /\ nb_CG \in Nat /\ nb_CG <= lines
    BY DEF Inv, Shape
  <1>3. /\ next \in 1 .. Len(out) /\ m \in Nat /\ m + 1 = next /\ next' - 1 = m + 1
    BY <1>1, <1>2
  <1>4. row \in RowSet
    BY <1>2, <1>3
  <1>5. /\ next \in K <=> row[14].n = keep
        /\ next \in KP <=> row[14].n = keep /\ row[13].n = 1
    BY <1>3 DEF Kept, Positive
  <1>6. /\ Len(temp) = Cardinality(K \cap 1 .. m)
        /\ Cardinality(Positive(temp)) = Cardinality(KP \cap 1 .. m)
    BY <1>1 DEF Inv, GrepInv
  <1> HIDE DEF K, KP, row, m
  <1>7. /\ Cardinality(K \cap 1 .. m) \in Nat
        /\ next \in K => Cardinality(K \cap 1 .. (m + 1)) = Cardinality(K \cap 1 .. m) + 1
        /\ next \notin K => Cardinality(K \cap 1 .. (m + 1)) = Cardinality(K \cap 1 .. m)
    BY <1>3, OneMore
  <1>8. /\ Cardinality(KP \cap 1 .. m) \in Nat
        /\ next \in KP => Cardinality(KP \cap 1 .. (m + 1)) = Cardinality(KP \cap 1 .. m) + 1
        /\ next \notin KP => Cardinality(KP \cap 1 .. (m + 1)) = Cardinality(KP \cap 1 .. m)
    BY <1>3, OneMore
  <1>9. /\ temp' \in Seq(RowSet)
        /\ Len(temp') = Cardinality(K \cap 1 .. (m + 1))
        /\ Cardinality(Positive(temp')) = Cardinality(KP \cap 1 .. (m + 1))
    <2>1. CASE row[14].n = keep
      <3>1. temp' = Append(temp, row) /\ next \in K
        BY <2>1, <1>1, <1>5
      <3>2. temp' \in Seq(RowSet) /\ Len(temp') = Len(temp) + 1
        BY <3>1, <1>2, <1>4
      <3>3. /\ row[13].n = 1 => Cardinality(Positive(temp')) = Cardinality(Positive(temp)) + 1
            /\ row[13].n # 1 => Cardinality(Positive(temp')) = Cardinality(Positive(temp))
        BY <3>1, <1>2, <1>4, PositiveCount
      <3>4. next \in KP <=> row[13].n = 1
        BY <2>1, <1>5
      <3>5. Len(temp') = Cardinality(K \cap 1 .. (m + 1))
        BY <3>1, <3>2, <1>6, <1>7
      <3>6. Cardinality(Positive(temp')) = Cardinality(KP \cap 1 .. (m + 1))
        BY <3>3, <3>4, <1>6, <1>8
      <3> QED BY <3>2, <3>5, <3>6
    <2>2. CASE row[14].n # keep
      <3>1. temp' = temp /\ next \notin K /\ next \notin KP
        BY <2>2, <1>1, <1>5
      <3> QED BY <3>1, <1>2, <1>6, <1>7, <1>8
    <2> QED BY <2>1, <2>2
  <1>10. GrepInv'
    BY <1>1, <1>3, <1>9 DEF GrepInv, K, KP
  <1>11. Shape'
    <2>1. next' \in 1 .. Len(out) + 1
      BY <1>1, <1>2, <1>3
    <2> QED BY <1>1, <1>2, <1>9, <2>1 DEF Shape
  <1>12. LogInv' /\ ReadInv' /\ RowsInv' /\ TotalsInv' /\ AwkInv'
    BY <1>1 DEF Inv, LogInv, ReadInv, RowsInv, TotalsInv, AwkInv
  <1> QED BY <1>10, <1>11, <1>12 DEF Inv

\* The rows that grep kept become out.csv
LEMMA MoveKeeps ==
  ASSUME Inv, Move
  PROVE  Inv'
  <1>1. /\ stage = "filtering" /\ stage' = "counting" /\ next > Len(out) /\ next' = 1
        /\ out' = temp /\ temp' = <<>>
        /\ reports' = reports /\ log' = log /\ VLS' = VLS /\ keep' = keep
        /\ lines' = lines /\ nb_CG' = nb_CG
    BY DEF Move
  <1>2. /\ out \in Seq(RowSet) /\ temp \in Seq(RowSet) /\ next \in 1 .. Len(out) + 1
        /\ keep \in Nat /\ lines \in Nat /\ nb_CG \in Nat /\ nb_CG <= lines
    BY DEF Inv, Shape
  <1>3. lines = 0 /\ nb_CG = 0
    BY <1>1 DEF Inv, AwkInv
  <1>4. next - 1 = Len(out)
    BY <1>1, <1>2
  <1>5. /\ Kept(out, keep) \cap 1 .. (next - 1) = Kept(out, keep)
        /\ (Kept(out, keep) \cap Positive(out)) \cap 1 .. (next - 1)
             = Kept(out, keep) \cap Positive(out)
    BY <1>4 DEF Kept
  <1>6. /\ Len(temp) = Cardinality(Kept(out, keep))
        /\ Cardinality(Positive(temp)) = Cardinality(Kept(out, keep) \cap Positive(out))
    BY <1>1, <1>5 DEF Inv, GrepInv
  <1>7. /\ reports \in Seq(Reports) /\ Len(VLS) \in Nat
        /\ Fields * Len(out) < Len(VLS) + Fields /\ Fields * Len(out) >= Len(VLS)
        /\ \A k \in 1 .. Len(out) : RowIs(reports, Len(VLS), k, out[k])
    BY <1>1 DEF Inv, LogInv, ReadInv, Prefix, RowsInv
  <1>8. Agree(reports, Len(VLS), keep, Cardinality(Kept(out, keep)),
              Cardinality(Kept(out, keep) \cap Positive(out)))
    BY <1>2, <1>7, FilteredRows
  <1>9. Agree(reports, Len(VLS), keep, Len(temp), Cardinality(Positive(temp)))
    BY <1>6, <1>8
  <1>10. TotalsInv'
    BY <1>1, <1>9 DEF TotalsInv
  <1>11. AwkInv'
    <2>1. 1 .. (next' - 1) = {}
      BY <1>1
    <2>2. Cardinality(Positive(out') \cap 1 .. (next' - 1)) = 0
      BY <2>1, FS_EmptySet
    <2> QED BY <1>1, <1>3, <2>2 DEF AwkInv
  <1>12. Shape'
    <2>1. 1 \in 1 .. Len(temp) + 1
      BY <1>2
    <2> QED BY <1>1, <1>2, <2>1 DEF Shape
  <1>13. LogInv' /\ ReadInv' /\ RowsInv' /\ GrepInv'
    BY <1>1 DEF Inv, LogInv, ReadInv, RowsInv, GrepInv
  <1> QED BY <1>10, <1>11, <1>12, <1>13 DEF Inv

\* awk reads a row
LEMMA CountKeeps ==
  ASSUME Inv, Count
  PROVE  Inv'
  <1> DEFINE m == next - 1
             P == Positive(out)
  <1>1. /\ stage = "counting" /\ stage' = stage /\ next <= Len(out) /\ next' = next + 1
        /\ lines' = lines + 1
        /\ nb_CG' = IF out[next][13].n = 1 THEN nb_CG + 1 ELSE nb_CG
        /\ reports' = reports /\ log' = log /\ VLS' = VLS /\ out' = out /\ keep' = keep
        /\ temp' = temp
    BY DEF Count
  <1>2. /\ out \in Seq(RowSet) /\ temp \in Seq(RowSet) /\ temp = <<>>
        /\ next \in 1 .. Len(out) + 1
        /\ keep \in Nat /\ lines \in Nat /\ nb_CG \in Nat /\ nb_CG <= lines
    BY <1>1 DEF Inv, Shape
  <1>3. /\ next \in 1 .. Len(out) /\ m \in Nat /\ m + 1 = next /\ next' - 1 = m + 1
    BY <1>1, <1>2
  <1>4. lines = m /\ nb_CG = Cardinality(P \cap 1 .. m)
    BY <1>1 DEF Inv, AwkInv
  <1>5. next \in P <=> out[next][13].n = 1
    BY <1>3 DEF Positive
  <1> HIDE DEF m, P
  <1>6. /\ next \in P => Cardinality(P \cap 1 .. (m + 1)) = Cardinality(P \cap 1 .. m) + 1
        /\ next \notin P => Cardinality(P \cap 1 .. (m + 1)) = Cardinality(P \cap 1 .. m)
    BY <1>3, OneMore
  <1>7. nb_CG' = Cardinality(P \cap 1 .. (m + 1))
    BY <1>1, <1>4, <1>5, <1>6
  <1>8. lines' = m + 1
    BY <1>1, <1>4
  <1>9. AwkInv'
    BY <1>1, <1>3, <1>7, <1>8 DEF AwkInv, P
  <1>10. Shape'
    <2>1. next' \in 1 .. Len(out) + 1
      BY <1>1, <1>2, <1>3
    <2>2. nb_CG' = nb_CG \/ nb_CG' = nb_CG + 1
      BY <1>1
    <2>3. lines' \in Nat /\ nb_CG' \in Nat /\ nb_CG' <= lines'
      BY <1>1, <1>2, <2>2
    <2> QED BY <1>1, <1>2, <2>1, <2>3 DEF Shape
  <1>11. LogInv' /\ ReadInv' /\ RowsInv' /\ GrepInv' /\ TotalsInv'
    BY <1>1 DEF Inv, LogInv, ReadInv, RowsInv, GrepInv, TotalsInv
  <1> QED BY <1>9, <1>10, <1>11 DEF Inv

\* awk prints
LEMMA PrintKeeps ==
  ASSUME Inv, AwkEnds
  PROVE  Inv'
  <1>1. /\ stage = "counting" /\ stage' = "counted" /\ next > Len(out)
        /\ reports' = reports /\ log' = log /\ VLS' = VLS /\ out' = out /\ keep' = keep
        /\ temp' = temp /\ next' = next /\ lines' = lines /\ nb_CG' = nb_CG
    BY DEF AwkEnds
  <1>2. out \in Seq(RowSet) /\ next \in 1 .. Len(out) + 1
    BY DEF Inv, Shape
  <1>3. next - 1 = Len(out)
    BY <1>1, <1>2
  <1>4. lines = Len(out) /\ nb_CG = Cardinality(Positive(out) \cap 1 .. Len(out))
    BY <1>1, <1>3 DEF Inv, AwkInv
  <1>5. Positive(out) \cap 1 .. Len(out) = Positive(out)
    BY DEF Positive
  <1>6. Agree(reports, Len(VLS), keep, Len(out), Cardinality(Positive(out)))
    BY <1>1 DEF Inv, TotalsInv
  <1>7. Agree(reports, Len(VLS), keep, lines, nb_CG)
    BY <1>4, <1>5, <1>6
  <1>8. AwkInv'
    BY <1>1, <1>7 DEF AwkInv
  <1>9. Shape'
    BY <1>1 DEF Inv, Shape
  <1>10. LogInv' /\ ReadInv' /\ RowsInv' /\ GrepInv' /\ TotalsInv'
    BY <1>1 DEF Inv, LogInv, ReadInv, RowsInv, GrepInv, TotalsInv
  <1> QED BY <1>8, <1>9, <1>10 DEF Inv

\* The script is started again
LEMMA AgainKeeps ==
  ASSUME Inv, Again
  PROVE  Inv'
  <1>1. /\ stage = "counted" /\ stage' = "idle" /\ VLS' = <<>> /\ out' = <<>> /\ keep' = 0
        /\ next' = 1 /\ lines' = 0 /\ nb_CG' = 0
        /\ reports' = reports /\ log' = log /\ temp' = temp
    BY DEF Again
  <1>2. temp = <<>> /\ temp \in Seq(RowSet)
    BY <1>1 DEF Inv, Shape
  <1>3. Shape'
    BY <1>1, <1>2 DEF Shape
  <1>4. LogInv'
    BY <1>1 DEF Inv, LogInv
  <1>5. ReadInv'
    <2>1. Len(reports) \in Nat
      BY DEF Inv, LogInv
    <2> QED BY <1>1, <2>1 DEF ReadInv, Prefix, Place, Fields
  <1>6. RowsInv' /\ GrepInv' /\ TotalsInv' /\ AwkInv'
    BY <1>1 DEF RowsInv, GrepInv, TotalsInv, AwkInv
  <1> QED BY <1>3, <1>4, <1>5, <1>6 DEF Inv

\* The invariant holds at first
LEMMA InvInit == Init => Inv
  <1> SUFFICES ASSUME Init PROVE Inv
    OBVIOUS
  <1>1. /\ reports = <<>> /\ log = <<>> /\ stage = "idle" /\ VLS = <<>> /\ out = <<>>
        /\ keep = 0 /\ temp = <<>> /\ next = 1 /\ lines = 0 /\ nb_CG = 0
    BY DEF Init
  <1>2. Shape
    BY <1>1 DEF Shape
  <1>3. LogInv
    BY <1>1, LogAssumption DEF LogInv, Fields
  <1>4. ReadInv
    BY <1>1 DEF ReadInv, Prefix, Place, Fields
  <1>5. RowsInv /\ GrepInv /\ TotalsInv /\ AwkInv
    BY <1>1 DEF RowsInv, GrepInv, TotalsInv, AwkInv
  <1> QED BY <1>2, <1>3, <1>4, <1>5 DEF Inv

\* and always
LEMMA InvAlways == Spec => []Inv
  <1>1. Inv /\ [Next]_vars => Inv'
    <2> SUFFICES ASSUME Inv, [Next]_vars PROVE Inv'
      OBVIOUS
    <2>1. CASE UNCHANGED vars
      BY <2>1 DEF vars, script, Inv, Shape, LogInv, ReadInv, RowsInv, GrepInv, TotalsInv, AwkInv
    <2>2. CASE \E idf \in Idf, cg \in {0, 1} : CloseWindow(idf, cg)
      BY <2>2, CloseWindowKeeps
    <2>3. CASE WriteNext
      BY <2>3, WriteNextKeeps
    <2>4. CASE \E n \in 0 .. Len(log) : ReadLog(n)
      BY <2>4, ReadLogKeeps
    <2>5. CASE AddRow
      BY <2>5, AddRowKeeps
    <2>6. CASE \E idf \in Idf : Ask(idf)
      BY <2>6, AskKeeps
    <2>7. CASE Grep
      BY <2>7, GrepKeeps
    <2>8. CASE Move
      BY <2>8, MoveKeeps
    <2>9. CASE Count
      BY <2>9, CountKeeps
    <2>10. CASE AwkEnds
      BY <2>10, PrintKeeps
    <2>11. CASE Again
      BY <2>11, AgainKeeps
    <2> QED BY <2>1, <2>2, <2>3, <2>4, <2>5, <2>6, <2>7, <2>8, <2>9, <2>10, <2>11 DEF Next
  <1> QED BY InvInit, <1>1, PTL DEF Spec

--------------------------------------------------------------------------------
(* Theorems *)

\* Types, for any identifiers and any number of reports: the debug writes of one report
\* end before those of the next begin.
THEOREM LogTypes == Spec => []TypeOK
  <1>1. Inv => TypeOK
    <2> SUFFICES ASSUME Inv PROVE TypeOK
      OBVIOUS
    <2>1. /\ reports \in Seq(Reports) /\ Len(reports) <= MaxReports
          /\ Len(reports) \in Nat /\ Len(log) \in Nat
          /\ Len(log) >= Fields * Len(reports) - Fields + 1 /\ Len(log) <= Fields * Len(reports)
      BY DEF Inv, LogInv
    <2>2. Len(log) \in Fields * Len(reports) - Fields + 1 .. Fields * Len(reports)
      BY <2>1 DEF Fields
    <2>3. \A k \in DOMAIN out : DOMAIN out[k] = 1 .. Fields
      BY DEF Inv, Shape, RowSet
    <2> QED BY <2>1, <2>2, <2>3 DEF Inv, Shape, TypeOK, Reports
  <1> QED BY <1>1, InvAlways, PTL

\* The rows of out.csv are the reports of the switch, whole and in their order, for any
\* number of reports and a log that ends anywhere: only the last row can lack its end.
THEOREM RowsFollowReports == Spec => []RowsAreReports
  <1>1. Inv => RowsAreReports
    <2> SUFFICES ASSUME Inv, stage = "rows", NEW k \in DOMAIN out
                 PROVE  \/ out[k] = Swapped(Written(k))
                        \/ /\ k = Len(out) /\ Fields * k > Len(VLS)
                           /\ \E c \in 1 .. Fields : out[k][c] = Blank
      BY DEF RowsAreReports
    <2>1. /\ k \in 1 .. Len(out) /\ Len(out) \in Nat /\ Len(VLS) \in Nat
          /\ RowIs(reports, Len(VLS), k, out[k])
          /\ Fields * Len(out) < Len(VLS) + Fields
      BY DEF Inv, RowsInv, ReadInv, Prefix
    <2>2. CASE Fields * k <= Len(VLS)
      <3>1. out[k] = Swapped([pos \in 1 .. Fields |-> NumberOf(reports, k, pos)])
        BY <2>1, <2>2 DEF RowIs
      <3>2. Written(k) = [pos \in 1 .. Fields |-> NumberOf(reports, k, pos)]
        BY DEF Written, NumberOf
      <3> QED BY <3>1, <3>2
    <2>3. CASE Fields * k > Len(VLS)
      <3>1. out[k][13] = Blank
        BY <2>1, <2>3 DEF RowIs
      <3>2. k = Len(out)
        BY <2>1, <2>3 DEF Fields
      <3>3. 13 \in 1 .. Fields
        BY DEF Fields
      <3> QED BY <3>1, <3>2, <3>3, <2>3
    <2> QED BY <2>1, <2>2, <2>3 DEF Fields
  <1> QED BY <1>1, InvAlways, PTL

\* Percent.awk counts each report of the conversation once and each verdict as it was
\* given, for any number of reports; a report that the end of the log cuts off adds at
\* most one row, and no verdict.
THEOREM CountsFollowReports == Spec => []CountsOffByOneRow
  <1>1. Inv => CountsOffByOneRow
    <2> SUFFICES ASSUME Inv, stage = "counted"
                 PROVE  /\ nb_CG = Cardinality({k \in Read : reports[k].cg = 1})
                        /\ lines - Cardinality(Read)
                             \in 0 .. IF Len(VLS) % Fields = 0 THEN 0 ELSE 1
      BY DEF CountsOffByOneRow
    <2> DEFINE W == Whole(reports, Len(VLS), keep)
    <2>1. /\ Agree(reports, Len(VLS), keep, lines, nb_CG)
          /\ reports \in Seq(Reports) /\ Len(reports) \in Nat /\ keep \in Nat
          /\ Len(VLS) \in Nat /\ Len(VLS) <= Fields * Len(reports) /\ lines \in Nat
      BY DEF Inv, AwkInv, LogInv, Shape, ReadInv, Prefix
    <2>2. Read = W
      <3>1. \A k \in Nat \ {0} : k \in 1 .. Len(VLS) \div Fields <=>
                                  k \in 1 .. Len(reports) /\ Fields * k <= Len(VLS)
        BY <2>1 DEF Fields
      <3> QED BY <3>1 DEF Read, Whole
    <2>3. nb_CG = Cardinality({k \in Read : reports[k].cg = 1})
      BY <2>1, <2>2 DEF Agree, Verdicts
    <2>4. Cardinality(W) \in Nat
      BY <2>1, WholeFinite
    <2>5. /\ lines >= Cardinality(W) /\ lines <= Cardinality(W) + 1
          /\ lines # Cardinality(W) => \A k \in Nat : Fields * k # Len(VLS)
      BY <2>1 DEF Agree
    <2>6. Len(VLS) % Fields = 0 => \E k \in Nat : Fields * k = Len(VLS)
      <3>1. Len(VLS) = (Fields * (Len(VLS) \div Fields)) + (Len(VLS) % Fields)
            /\ Len(VLS) \div Fields \in Nat
        BY <2>1 DEF Fields
      <3> QED BY <3>1 DEF Fields
    <2> HIDE DEF W
    <2>7. lines - Cardinality(W) \in 0 .. IF Len(VLS) % Fields = 0 THEN 0 ELSE 1
      <3>1. CASE Len(VLS) % Fields = 0
        BY <3>1, <2>1, <2>4, <2>5, <2>6
      <3>2. CASE Len(VLS) % Fields # 0
        BY <3>2, <2>1, <2>4, <2>5
      <3> QED BY <3>1, <3>2
    <2> QED BY <2>2, <2>3, <2>7
  <1> QED BY <1>1, InvAlways, PTL
================================================================================
