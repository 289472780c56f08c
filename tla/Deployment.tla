------------------------------- MODULE Deployment -------------------------------
(***************************************************************************)
(* main.py fills the tables of a switch that already runs: net.start comes *)
(* first, then one insertTableEntry after the other, in the order of the   *)
(* script.  A packet that closes a window passes Divide1, Divide2, the     *)
(* Feat*ruls and ActRules one by one, and entries may be added between any *)
(* two of these look-ups: the target locks one table at a time.            *)
(*                                                                         *)
(* The rules themselves are written before, by DecisionRules.              *)
(***************************************************************************)
EXTENDS DecisionRules

CONSTANTS
  DivisionRanges,  \* how many ranges of counts the division table has
  NoPacket   \* no window is being closed

\* My.p4 has the tables Feat0ruls to Feat11ruls
ASSUME DeploymentAssumption ==
  /\ DivisionRanges \in Nat
  /\ Feature \subseteq 0 .. 11

VARIABLES
  done,   \* the entries main.py has inserted
  packet  \* the packet that closes a window, and how far its look-ups are

walkVars == <<tree, phase, visit, FTS_THRS, frames, FTS_INDS, actRules>>
dvars == <<walkVars, ftRules, done, packet>>

--------------------------------------------------------------------------------
(* main.py *)

\* Both files of dum2Cond.py are there
Written == phase = "writing" /\ frames = <<>>

Entry(table, row) == [table |-> table, row |-> row]

\* Mutant: the other direction is forgotten
DivisionEntriesOneWay == [n \in 1 .. DivisionRanges |-> Entry("Divide1", <<n>>)]

\* write_appr_switch: every range goes into Divide1, then into Divide2
DivisionEntries ==
  FlattenSeq([n \in 1 .. DivisionRanges |-> <<Entry("Divide1", <<n>>), Entry("Divide2", <<n>>)>>])

\* Features in ascending order
FeatureOrder ==
  CHOOSE o \in Bijection(1 .. Cardinality(Feature), Feature) :
    \A i, j \in 1 .. Cardinality(Feature) : i < j => o[i] < o[j]

\* Mutant: the first range of a feature is skipped
FeatureEntriesFromSecond ==
  FlattenSeq([k \in 1 .. Cardinality(Feature) |->
    LET f == FeatureOrder[k]
    IN  IF IndexCount(f) = 1 THEN <<>>
        ELSE [i \in 1 .. IndexCount(f) - 2 |-> Entry("Feat", <<f, i + 1>>)]])

FeatureEntries ==
  FlattenSeq([k \in 1 .. Cardinality(Feature) |->
    LET f == FeatureOrder[k]
    IN  [i \in 1 .. IndexCount(f) - 1 |-> Entry("Feat", <<f, i>>)]])

ActionEntries == [k \in 1 .. Len(actRules) |-> Entry("ActRules", <<k>>)]

\* Mutant: the leaves are installed before the thresholds
ScriptActionsFirst == DivisionEntries \o ActionEntries \o FeatureEntries

\* The entries in the order main.py inserts them
Script == DivisionEntries \o FeatureEntries \o ActionEntries

\* Feat*ruls with one more range, when the entry is one
WithRange(e) ==
  IF e.table # "Feat" THEN ftRules
  ELSE [ftRules EXCEPT ![e.row[1]] =
          @ \cup {r \in Ranges(FTS_THRS[e.row[1]]) : r.index = e.row[2]}]

\* Mutant: the loop stops one entry early
InsertAllButLast ==
  /\ Written
  /\ done + 1 < Len(Script)
  /\ done' = done + 1
  /\ ftRules' = WithRange(Script[done + 1])
  /\ UNCHANGED <<walkVars, packet>>

Insert ==
  /\ Written
  /\ done < Len(Script)
  /\ done' = done + 1
  /\ ftRules' = WithRange(Script[done + 1])
  /\ UNCHANGED <<walkVars, packet>>

Has(table, row) == \E k \in 1 .. done : Script[k] = Entry(table, row)

AllInserted == Written /\ done = Len(Script)

\* What a window that is closed now can still miss
Progress ==
  IF AllInserted THEN "nothing"
  ELSE IF done >= Len(Script) - Len(actRules) THEN "leaves"
  ELSE "thresholds"

--------------------------------------------------------------------------------
(* The look-ups of a packet that closes a window *)

\* Mean and deviation features are the results of a division, in both directions
OfDownlink == {0, 1, 2, 3} \cap Feature
OfUplink   == {6, 7, 8, 9} \cap Feature

\* The stages of the apply block, each of them one table
Stages ==
  << <<"Divide1">>, <<"Divide2">> >>
  \o [k \in 1 .. Cardinality(Feature) |-> <<"Feat", FeatureOrder[k]>>]
  \o << <<"ActRules">> >>

Stage == Stages[packet.at]

\* A window whose features are v, with down and up naming the ranges its two counts
\* fall in; 0 is an empty direction, whose features are 0 and which is not divided
Arrive(v, down, up) ==
  /\ Written
  /\ packet = NoPacket
  /\ down = 0 => \A f \in OfDownlink : v[f] = 0
  /\ up = 0 => \A f \in OfUplink : v[f] = 0
  /\ packet' = [v |-> v, down |-> down, up |-> up, at |-> 1,
                seen |-> [f \in Feature |-> IF f \in OfDownlink \cup OfUplink THEN 0 ELSE v[f]],
                ix |-> [f \in Feature |-> 0], cg |-> FALSE,
                began |-> Progress]
  /\ UNCHANGED <<walkVars, ftRules, done>>

Step(changed) ==
  /\ packet' = [changed EXCEPT !.at = @ + 1]
  /\ UNCHANGED <<walkVars, ftRules, done>>

InFlight == packet # NoPacket /\ packet.at <= Len(Stages)

\* A miss leaves the metadata at 0
LookUpDivide1 ==
  /\ InFlight /\ Stage = <<"Divide1">>
  /\ Step([packet EXCEPT !.seen =
       [f \in Feature |->
          IF f \in OfDownlink /\ Has("Divide1", <<packet.down>>) THEN packet.v[f] ELSE @[f]]])

\* A miss leaves the metadata as Divide1 left it: the downlink's means
LookUpDivide2 ==
  /\ InFlight /\ Stage = <<"Divide2">>
  /\ Step([packet EXCEPT !.seen =
       [f \in Feature |->
          IF f \notin OfUplink \/ packet.up = 0 THEN @[f]
          ELSE IF Has("Divide2", <<packet.up>>) THEN packet.v[f]
          ELSE IF f - 6 \in Feature THEN @[f - 6] ELSE 0]])

\* Mutant: the index is one too high
LookUpFeatureOff(f) ==
  /\ InFlight /\ Stage = <<"Feat", f>>
  /\ \E i \in MayPick(f, packet.seen) : Step([packet EXCEPT !.ix[f] = i + 1])

\* actionFtN stays 0 on a miss; where two ranges meet any of them may be taken
LookUpFeature(f) ==
  /\ InFlight /\ Stage = <<"Feat", f>>
  /\ \E i \in MayPick(f, packet.seen) : Step([packet EXCEPT !.ix[f] = i])

InstalledHits(ix) == {k \in MatchingRules(ix) : Has("ActRules", <<k>>)}

LookUpAction ==
  /\ InFlight /\ Stage = <<"ActRules">>
  /\ Step([packet EXCEPT !.cg =
       /\ InstalledHits(packet.ix) # {}
       /\ actRules[Max(InstalledHits(packet.ix))].cg])

\* The packet is done with ingress, and its metadata is gone
Leave ==
  /\ packet # NoPacket /\ ~InFlight
  /\ packet' = NoPacket
  /\ UNCHANGED <<walkVars, ftRules, done>>

Walk ==
  /\ CollectNode \/ SortThresholds \/ WriteLeaf \/ GoLeft \/ GoRight \/ Climb
  /\ UNCHANGED <<done, packet>>

LookUp ==
  \/ LookUpDivide1 \/ LookUpDivide2
  \/ \E f \in Feature : LookUpFeature(f)
  \/ LookUpAction
  \/ Leave

DInit == Init /\ done = 0 /\ packet = NoPacket

DNext ==
  \/ Walk
  \/ Insert
  \/ \E v \in Vectors, down, up \in 0 .. DivisionRanges : Arrive(v, down, up)
  \/ LookUp

\* dum2Cond.py and main.py wait for nothing, and the pipeline of the switch does not
\* stop; packets may stay away
DSpec == DInit /\ [][DNext]_dvars /\ WF_dvars(Walk) /\ WF_dvars(Insert) /\ WF_dvars(LookUp)

--------------------------------------------------------------------------------
(* Properties *)

DTypeOK ==
  /\ TypeOK
  /\ done \in 0 .. IF Written THEN Len(Script) ELSE 0
  /\ packet # NoPacket =>
       /\ packet.at \in 1 .. Len(Stages) + 1
       /\ \A f \in Feature : packet.ix[f] < IndexCount(f)

Answered == packet # NoPacket /\ ~InFlight

\* Every feature is within FTS_MAX and in one range only, once all are inserted
Plain(v) ==
  InRange(v) /\ \A f \in Feature :
    Cardinality({r \in Ranges(FTS_THRS[f]) : v[f] \in r.lo .. r.hi}) <= 1

\* A packet is called CG without reason only if its look-ups began before the last
\* threshold was inserted: once the thresholds are there, what an unfinished
\* installation can do to a verdict is to withhold it (write_act_rule comes last).
NoUnfoundedVerdict ==
  Answered /\ Plain(packet.v) /\ packet.cg => TreeVerdict(packet.v) \/ packet.began = "thresholds"

\* A packet whose look-ups began when every entry was inserted gets the verdict of the
\* tree, with the quotients of its own direction on both sides (apply).
SettledFaithful ==
  Answered /\ Plain(packet.v) /\ packet.began = "nothing" =>
    (packet.cg <=> TreeVerdict(packet.v))

\* Inserting entry by entry amounts to the single installation of DecisionRules, all
\* ranges and all rules at once, when nobody looks before the end (write_feat_rule).
DR == INSTANCE DecisionRules WITH
        phase <- IF AllInserted THEN "installed" ELSE phase,
        ftRules <- IF AllInserted THEN ftRules ELSE [f \in Feature |-> {}]

InstallsAllRules == DR!Init /\ [][DR!Next]_(DR!vars)

\* Whatever was answered during the installation, the verdicts are the tree's from some
\* moment on (the installation ends, and so does every look-up that began before).
EventuallyFaithful ==
  <>[](Answered /\ Plain(packet.v) => (packet.cg <=> TreeVerdict(packet.v)))
================================================================================
