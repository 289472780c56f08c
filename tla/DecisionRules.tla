----------------------------- MODULE DecisionRules -----------------------------
(***************************************************************************)
(* A trained decision tree as match-action tables.  dum2Cond.py walks the  *)
(* tree twice: once to collect the thresholds of each feature, and once,   *)
(* with a dictionary of index intervals that it updates on the way down    *)
(* and restores on the way up, to write one rule per leaf.  main.py        *)
(* installs the thresholds as ranges in Feat*ruls and the leaves in        *)
(* ActRules, and the switch looks a feature vector up in them.             *)
(*                                                                         *)
(* A threshold is a multiple of 1/Scale and is given in these units.       *)
(***************************************************************************)
EXTENDS Integers, Sequences, SequencesExt

CONSTANTS
  Trees,    \* decision trees: functions from node numbers to nodes; 0 is the root
  Feature,  \* feature numbers (0 .. 11)
  FTS_MAX,  \* the assumed greatest value of each feature
  Scale,    \* thresholds are given in units of 1/Scale
  Vectors   \* feature vectors the switch looks up

\* A node: ft < 0 for a leaf; cg is what tab[0] < tab[1] says of a leaf.  The root
\* is numbered first, and every node before its children.
ASSUME TreeAssumption ==
  /\ Scale \in Nat \ {0}
  /\ FTS_MAX \in [Feature -> Nat]
  /\ Vectors \subseteq [Feature -> Nat]
  /\ \A t \in Trees :
       /\ \E last \in DOMAIN t : last \in Nat /\ DOMAIN t = 0 .. last
       /\ \A n \in DOMAIN t :
            /\ t[n].cg \in BOOLEAN
            /\ t[n].ft >= 0 => /\ t[n].ft \in Feature
                               /\ t[n].thr \in Nat \ {0}
                               /\ {t[n].left, t[n].right} \subseteq {m \in DOMAIN t : m > n}

\* Nodes that hold the children of all of them
Closed(t, B) == \A n \in B : t[n].ft >= 0 => {t[n].left, t[n].right} \subseteq B

\* A training splits what is left of a feature's range: below a node, the thresholds
\* of its feature are less than its own on the left and greater on the right.
ASSUME TrainingAssumption ==
  \A t \in Trees : \A n \in DOMAIN t :
    t[n].ft >= 0 =>
      /\ \E B \in SUBSET DOMAIN t :
           /\ t[n].left \in B /\ Closed(t, B)
           /\ \A m \in B : t[m].ft = t[n].ft => t[m].thr < t[n].thr
      /\ \E B \in SUBSET DOMAIN t :
           /\ t[n].right \in B /\ Closed(t, B)
           /\ \A m \in B : t[m].ft = t[n].ft => t[m].thr > t[n].thr

VARIABLES
  tree,      \* the loaded model
  phase,     \* "collecting", "writing" or "installed"
  visit,     \* the nodes Get_Feats_Rec still has to visit, next first
  FTS_THRS,  \* the thresholds of each feature
  frames,    \* the calls of Write_Rules_Rec, innermost last
  FTS_INDS,  \* the interval of indexes each feature is limited to on the path
  actRules,  \* ActRules, in the order of the leaves
  ftRules    \* Feat*ruls: the ranges of each feature

\* Every interval on the path is a non-empty range of indexes of its feature, and
\* belongs to a feature that the tree tests (dicoFtsInds in Write_Rules_Rec).
TypeOK ==
  /\ phase \in {"collecting", "writing", "installed"}
  /\ DOMAIN FTS_INDS \subseteq Feature
  /\ \A f \in DOMAIN FTS_INDS :
       LET i == FTS_INDS[f]
       IN  0 <= i[1] /\ i[1] <= i[2] /\ i[2] < Len(FTS_THRS[f])
  /\ \A k \in DOMAIN actRules : DOMAIN actRules[k].conds \subseteq Feature

vars == <<tree, phase, visit, FTS_THRS, frames, FTS_INDS, actRules, ftRules>>

Inner(n) == tree[n].ft >= 0

--------------------------------------------------------------------------------
(* Get_Feats_Rec, Sort_Feats_Thresh *)

\* Mutant: the walk stays on a leaf
CollectNodeStuck ==
  /\ phase = "collecting" /\ visit # <<>>
  /\ LET n == tree[Head(visit)]
     IN  IF n.ft >= 0
         THEN /\ FTS_THRS' = [FTS_THRS EXCEPT ![n.ft] = Append(@, n.thr)]
              /\ visit' = <<n.left, n.right>> \o Tail(visit)
         ELSE UNCHANGED <<visit, FTS_THRS>>
  /\ UNCHANGED <<tree, phase, frames, FTS_INDS, actRules, ftRules>>

CollectNode ==
  /\ phase = "collecting" /\ visit # <<>>
  /\ LET n == tree[Head(visit)]
     IN  IF n.ft >= 0
         THEN /\ FTS_THRS' = [FTS_THRS EXCEPT ![n.ft] = Append(@, n.thr)]
              /\ visit' = <<n.left, n.right>> \o Tail(visit)
         ELSE /\ visit' = Tail(visit)
              /\ UNCHANGED FTS_THRS
  /\ UNCHANGED <<tree, phase, frames, FTS_INDS, actRules, ftRules>>

\* v.sort()
Sorted(thrs) ==
  LET orders == {[i \in DOMAIN thrs |-> thrs[p[i]]] : p \in Bijection(DOMAIN thrs, DOMAIN thrs)}
  IN  CHOOSE o \in orders : \A i, j \in DOMAIN thrs : i < j => o[i] <= o[j]

Bounded(f, thrs) == <<0>> \o Sorted(thrs) \o <<FTS_MAX[f] * Scale>>

\* Features that no node tests keep no list
SortThresholds ==
  /\ phase = "collecting" /\ visit = <<>>
  /\ FTS_THRS' = [f \in Feature |->
                    IF FTS_THRS[f] = <<>> THEN <<>> ELSE Bounded(f, FTS_THRS[f])]
  /\ frames' = <<[node |-> 0, at |-> "call", save |-> <<>>]>>
  /\ phase' = "writing"
  /\ UNCHANGED <<tree, visit, FTS_INDS, actRules, ftRules>>

--------------------------------------------------------------------------------
(* Write_Rules_Rec *)

\* Mutant: positions are counted from 1
IndexOfOne(thrs, thr) == Min({i \in DOMAIN thrs : thrs[i] = thr})

\* dicoFtsThr[ft].index(thr): the first position, counted from 0
IndexOf(thrs, thr) == Min({i \in DOMAIN thrs : thrs[i] = thr}) - 1

\* A dictionary of intervals with the one of f changed or added
With(inds, f, interval) ==
  [g \in DOMAIN inds \cup {f} |-> IF g = f THEN interval ELSE inds[g]]

\* What the call finds for its feature: an interval, or <<>> when there is none
Saved(inds, f) == IF f \in DOMAIN inds THEN inds[f] ELSE <<>>

\* Mutant: the branch's interval is left in the dictionary
RestoredNever(inds, f, save) == inds

\* The dictionary after climbing out of a branch
Restored(inds, f, save) ==
  IF save = <<>> THEN [g \in DOMAIN inds \ {f} |-> inds[g]] ELSE With(inds, f, save)

Top == frames[Len(frames)]

Call(n, at, save) ==
  frames' = Front(frames) \o <<[Top EXCEPT !.at = at, !.save = save],
                              [node |-> n, at |-> "call", save |-> <<>>]>>

WriteLeaf ==
  /\ phase = "writing" /\ frames # <<>> /\ Top.at = "call" /\ ~Inner(Top.node)
  /\ actRules' = Append(actRules, [cg |-> tree[Top.node].cg, conds |-> FTS_INDS])
  /\ frames' = Front(frames)
  /\ UNCHANGED <<tree, phase, visit, FTS_THRS, FTS_INDS, ftRules>>

GoLeft ==
  /\ phase = "writing" /\ frames # <<>> /\ Top.at = "call" /\ Inner(Top.node)
  /\ LET n    == tree[Top.node]
         save == Saved(FTS_INDS, n.ft)
         low  == IF save = <<>> THEN 0 ELSE save[1]
     IN  /\ FTS_INDS' = With(FTS_INDS, n.ft, <<low, IndexOf(FTS_THRS[n.ft], n.thr)>>)
         /\ Call(n.left, "left", save)
  /\ UNCHANGED <<tree, phase, visit, FTS_THRS, actRules, ftRules>>

\* The left call returns: what it was given is undone, and undone again later
GoRight ==
  /\ phase = "writing" /\ frames # <<>> /\ Top.at = "left"
  /\ LET n    == tree[Top.node]
         save == Top.save
         high == IF save = <<>> THEN Len(FTS_THRS[n.ft]) - 1 ELSE save[2]
     IN  /\ FTS_INDS' = With(FTS_INDS, n.ft, <<IndexOf(FTS_THRS[n.ft], n.thr) + 1, high>>)
         /\ Call(n.right, "right", save)
  /\ UNCHANGED <<tree, phase, visit, FTS_THRS, actRules, ftRules>>

Climb ==
  /\ phase = "writing" /\ frames # <<>> /\ Top.at = "right"
  /\ FTS_INDS' = Restored(FTS_INDS, tree[Top.node].ft, Top.save)
  /\ frames' = Front(frames)
  /\ UNCHANGED <<tree, phase, visit, FTS_THRS, actRules, ftRules>>

--------------------------------------------------------------------------------
(* Write_Feature_Rules; write_feat_rule and write_act_rule of main.py *)

\* Mutant: indexes are counted from 0
RangesFromZero(thrs) ==
  {[lo |-> thrs[i] \div Scale, hi |-> thrs[i + 1] \div Scale, index |-> i - 1] :
     i \in 1 .. Len(thrs) - 1}

\* Two consecutive thresholds, truncated, and the index between them
Ranges(thrs) ==
  {[lo |-> thrs[i] \div Scale, hi |-> thrs[i + 1] \div Scale, index |-> i] :
     i \in 1 .. Len(thrs) - 1}

Install ==
  /\ phase = "writing" /\ frames = <<>>
  /\ ftRules' = [f \in Feature |-> Ranges(FTS_THRS[f])]
  /\ phase' = "installed"
  /\ UNCHANGED <<tree, visit, FTS_THRS, frames, FTS_INDS, actRules>>

Init ==
  /\ tree \in Trees
  /\ phase = "collecting"
  /\ visit = <<0>>
  /\ FTS_THRS = [f \in Feature |-> <<>>]
  /\ frames = <<>>
  /\ FTS_INDS = [f \in {} |-> <<>>]
  /\ actRules = <<>>
  /\ ftRules = [f \in Feature |-> {}]

Next ==
  \/ CollectNode \/ SortThresholds
  \/ WriteLeaf \/ GoLeft \/ GoRight \/ Climb
  \/ Install

Spec == Init /\ [][Next]_vars /\ WF_vars(Next)

--------------------------------------------------------------------------------
(* The lookup of a feature vector v: FeatNruls.apply(), ActRules.apply() *)

Hits(f, v) == {r.index : r \in {q \in ftRules[f] : v[f] \in q.lo .. q.hi}}

\* actionFtN keeps the 0 of cleared metadata when no range matches.  The ranges of
\* a feature share their bounds and have one priority: any of them may be chosen.
MayPick(f, v) == IF Hits(f, v) = {} THEN {0} ELSE Hits(f, v)

\* Mutant: the range installed last is taken
LastPick(f, v) == Max(MayPick(f, v))

\* The choice of a target that takes the range installed first
FirstPick(f, v) == Min(MayPick(f, v))

Matches(rule, ix) ==
  \A f \in DOMAIN rule.conds : ix[f] \in rule.conds[f][1] .. rule.conds[f][2]

MatchingRules(ix) == {k \in DOMAIN actRules : Matches(actRules[k], ix)}

\* is_CG: the verdict of the rule of highest priority, 0 when none matches
Verdict(ix) ==
  MatchingRules(ix) # {} /\ actRules[Max(MatchingRules(ix))].cg

\* What the tree t says of v at each of its nodes
Decision(t, v) ==
  LET at[n \in DOMAIN t] ==
        IF t[n].ft >= 0
        THEN IF v[t[n].ft] * Scale <= t[n].thr THEN at[t[n].left] ELSE at[t[n].right]
        ELSE t[n].cg
  IN  at

TreeVerdict(v) == Decision(tree, v)[0]

--------------------------------------------------------------------------------
(* Properties *)

\* The number of indexes of a feature: 0, and one for each range
IndexCount(f) == IF FTS_THRS[f] = <<>> THEN 1 ELSE Len(FTS_THRS[f])

IndexVectors ==
  {ix \in [Feature -> UNION {0 .. IndexCount(f) - 1 : f \in Feature}] :
     \A f \in Feature : ix[f] < IndexCount(f)}

\* The leaves written as rules split the index space: whatever the indexes are, one
\* rule matches them and no other, so that the priorities of ActRules never decide
\* (the save, restore and delete of dicoFtsInds in Write_Rules_Rec).
RulesPartition ==
  phase = "installed" => \A ix \in IndexVectors : \E k \in DOMAIN actRules : MatchingRules(ix) = {k}

\* Every feature is at most its assumed greatest value
InRange(v) == \A f \in Feature : v[f] <= FTS_MAX[f]

\* No feature equals a threshold cut to an integer, where two ranges meet
OffBounds(v) ==
  \A f \in Feature : \A i \in 1 .. Len(FTS_THRS[f]) : v[f] # FTS_THRS[f][i] \div Scale

\* The switch decides as the tree does, on every vector within FTS_MAX, if of the
\* ranges that meet at a value the one installed first is taken (write_feat_rule).
FirstMatchFaithful ==
  phase = "installed" =>
    \A v \in Vectors :
      InRange(v) => (Verdict([f \in Feature |-> FirstPick(f, v)]) <=> TreeVerdict(v))

\* Whatever range is taken where several match, the switch decides as the tree does on
\* every vector within FTS_MAX that is not on a bound.
OffBoundsFaithful ==
  phase = "installed" =>
    \A v \in Vectors :
      InRange(v) /\ OffBounds(v) =>
        \A ix \in {x \in IndexVectors : \A f \in Feature : x[f] \in MayPick(f, v)} :
          Verdict(ix) <=> TreeVerdict(v)

\* The same on every vector, within FTS_MAX or not: FTS_MAX is said to be the
\* "Power of Two that bounds the current feature" (LoadRulesDT/Readme.md).
Faithful ==
  phase = "installed" =>
    \A v \in Vectors : Verdict([f \in Feature |-> FirstPick(f, v)]) <=> TreeVerdict(v)

\* Both walks of the tree end and the tables are installed.
Installation == <>(phase = "installed")
================================================================================
