# P4-classifier: a verification development

A P4 switch program that watches UDP conversations, summarises each of them over windows of
33 ms, and classifies every window as cloud gaming or not with a decision tree that is compiled
into match-action tables. This directory models the program in TLA+, checks the models with TLC
on small instances, and proves the central invariants with TLAPS for all values of the constants.

## 1. Inventory

| Component | Source | State | Operations |
|---|---|---|---|
| Flow tracker | `My.p4` (ingress control), `includes/headers.p4` | 2 global registers and 7 for each direction, 1024 slots each; per-packet metadata | `Direc`, `gen_hash`, `retrieve*`, `Divide1/2` with `Pow`, `init*`, `update*`, the `apply` block |
| Division table | `Utils/Approx/expo.c`, `write_appr_rule` of `main.py` | the powers found so far; `Out.csv`; the entries of `Divide1`, `Divide2` | `Handle_Element`, `Export_CSV`, `write_appr_switch`, `write_appr_rule` |
| Decision rules | `Utils/LoadRulesDT/dum2Cond.py`, `write_feat_rule` and `write_act_rule` of `main.py`, tables of `My.p4` | thresholds by feature, the dictionary of index intervals, `Feat*ruls`, `ActRules` | `Get_Feats_Rec`, `Sort_Feats_Thresh`, `Write_Rules_Rec`, `Write_Feature_Rules`, table lookup |
| Deployment | `main.py` | the running switch and its tables | `net.start`, then table entries one by one |
| Forwarding, parser, checksums, packet-in/out | `includes/*.p4` | header fields of the packet | `ipv4_forward`, parser states |
| Report log | `Write*` registers of `My.p4`, `Utils/Visualize/*` | the log of the switch, `out.csv` | 14 register writes for a report, `FtsFromLog.sh`, `Percent.awk` |
| Replay of traces | tcpreplay 4.4.3, which `Host.sh` runs as `tcpreplay -i eth0 -K`: `send_packets.c`, `replay.c`, `tcpreplay_api.c`, `signal_handler.c`, `common/sendpacket.c` under `includes/tcpreplay-4.4.3/src` | options, the position in up to two files, the packet cache, counters, the clock of the replay, the abort flags | `tcpreplay_replay`, `tcpr_replay_index`, `send_packets`, `send_dual_packets`, `get_next_packet`, `calc_sleep_time`, `fast_edit_packet`, `increment_iteration`, `tcpreplay_abort` |
| Scripts, trained model, header library, rest of tcpreplay | `Makefile`, `Host.sh`, `p4app`, `Data/`, `includes/codex`, `includes/tcpreplay-4.4.3` | none of their own, or third party | - |

**Interaction.** `expo.c` and `dum2Cond.py` run off line and leave CSV files. `main.py` starts the
switch and fills its tables from them. From then on the switch alone acts: a UDP packet is given a
direction by `Direc` and a slot by crc16 of (client, server); it ends a window, starts one, or joins
one. A packet that ends a window divides (`Divide1`, `Divide2`), classifies (`Feat*ruls`, then
`ActRules`), writes the debug registers and initialises the next window with itself. Packets
meet only in the registers: shared state of all conversations with the same hash and of both
directions. What the hosts send is a capture that tcpreplay plays back from its cache at the speed it
was taken at. `FtsFromLog.sh` reads the debug registers out of the log the switch writes, and
`Percent.awk` counts the verdicts of one conversation.

**What is hard here.**
* Nothing but the next packet of a slot ever closes its window, and 0 means "none" for four
  registers: window start, last arrival, last mean size and last mean inter-arrival time.
* Both directions interleave, and the packet of one resets the other's registers.
* Registers are 12, 32 and 48 bits wide, and everything wraps. Differences to the last mean are
  negative half of the time and are only right modulo the width.
* `Divide1` and `Divide2` leave their results in the same metadata.
* Slots are shared by conversations whose hashes collide.
* The rule writer updates a dictionary on the way down a tree and restores it on the way up.
* Consecutive ranges share a bound and have one priority; thresholds are truncated; values may be
  beyond the assumed maximum of a feature.
* Tables are filled while the switch already runs, and `drop()` drops nothing.
* The log is read while it is written, and cut into groups of fourteen numbers by position alone.
* tcpreplay may be aborted by another thread at any point of its loop, sends fail and are retried or
  given up, two files are merged by time stamp, and the cache is restarted, and edited in place, pass
  by pass.

**What makes each part correct.** Tracker: the registers are the true statistics of the window,
windows never exceed 33 ms, conversations are not mixed, directions are not separated, a report
never claims more than was seen. Division: it ends, never exceeds the true quotient and is close to
it, and every count has exactly one entry. Rules: the leaves partition the index space, and the
switch decides as the tree. Deployment: an unfinished installation withholds verdicts and makes up none, and
afterwards all are the tree's. Forwarding: nobody gets somebody else's frame, and what is counted also
passes. Log: every whole line of `out.csv` is one report. Replay: each pass is the capture, in order
and at its pace, it ends, it can be stopped, and its counters agree with what was sent.

## 2. Modules

| Module | What it is |
|---|---|
| `FlowTracker` | The UDP branch of the ingress control, one action per packet |
| `ConversationWindows` | Abstract specification: a separate window for each conversation, with true counts |
| `FlowHistory` | `FlowTracker` with history variables; its properties; the refinement of `ConversationWindows` |
| `DivisionTable` | `expo.c` and `write_appr_rule` |
| `DecisionRules` | `dum2Cond.py`, the rule writers of `main.py`, and the lookup on the switch |
| `Deployment` | `DecisionRules` with `main.py` inserting entry by entry while packets are looked up |
| `ReportLog` | The debug writes of a report, `FtsFromLog.sh` and `Percent.awk` |
| `Forwarding` | A frame's way from host to host through parser, ttl test, table, checksum and deparser |
| `UniqueIp` | `fast_edit_packet`: fresh addresses for each pass under an unchanged checksum |
| `Replay` | The send loops of tcpreplay with cache, pace, limits, failures and abort |
| `MC...` | Values of the constants for TLC |
| `ModularArithmetic` | Lemmas on `\div` and `%` |
| `FlowHistory_proofs`, `DivisionTable_proofs`, `ReportLog_proofs`, `Forwarding_proofs`, `UniqueIp_proofs`, `Replay_proofs` | Theorems on the module of that name |
| `DecisionRules_proofs` | Theorems on `DecisionRules` and on `Deployment`, which extends it |

### FlowTracker
A packet is one step, because bmv2 runs ingress in one thread, and `hdr.ipv4.isValid`, `ttl > 0`
and `hdr.udp.isValid` have selected it. `Arrival(p, len, gap)` is the apply block from `Direc` on:
`GenHash` writes the window start, and then exactly one of `WindowEnds` (report, new last means,
`init*`), `WindowStarts` (`init*` alone) and `WindowContinues` (`update*`) runs. The order of the
code matters in two places and is kept. `EndWin` and `Restart` use the start read *before*
`gen_hash` overwrites it, and `InitWindow` reads the last mean the same packet has just stored, so
it uses `Lst_Mu_SZE'`.

The pairs `DW_x`, `UP_x` are one function `x[direction][slot]`. Widths are the constants
`LenMod`, `CountMod`, `SizeMod`, `TimeMod`, `KeyMod`. `Hash` is crc16 of an ordered pair, left
unspecified; `Recip` stands for the entries of `Divide1/2`, with a shift by *k* written as a
division by 2^k; `IsCG` is the classification. Metadata that `My.p4` does not initialise is 0 at
the start of a packet, which is what bmv2 does. `report` is what the packet wrote to the
debug registers: their fourteen writes are one value here.

`Horizon` bounds the clock; it is the only bound in this module.

### ConversationWindows and FlowHistory
`ConversationWindows` has no hash, no registers and no sentinels. A packet opens a window, joins
it when at most `WinSze` has passed since its start, or closes it with exactly one report and opens
the next. `FlowHistory` adds to each step of the tracker a record of what really happened in the
window of the slot, in unbounded numbers: its start (`wStart`), packets (`wCount`), bytes
(`wBytes`), deviations (`wDev`, `wIatDev`), last arrival (`wLast`), whether two packets shared a
microsecond (`wTie`), and who sent them (`wPeers`). The history guards no step, except through
`MaxCount`, a bound on the packets of a window that keeps runs finite in width. The refinement
mapping takes the window of a conversation from the history of its slot, and the report from
`report`.

### DivisionTable
One action for each turn of the loop of `Handle_Element` (`AddPower`, `SkipPower`), one for its
return and the next call (`EndElement`), and three for the rows of the loader (`ExtendRange`,
`StartRange`, `EndLoad`). A power 1/2^e is represented by 2^e and the sum by a fraction, since
sums of at most three powers are exact in a double; the divisions `1.0/elem` and `sum/(1.0/elem)`
are rounded in C and exact here, and the two agree on all comparisons for `elem` = 1..4095.
`Never` is the divisor 2^255 of the padding.

### DecisionRules
`CollectNode` and `SortThresholds` are the first walk. `frames` is the call stack of
`Write_Rules_Rec`: `GoLeft`, `GoRight`, `Climb` and `WriteLeaf` are what it does between two calls.
`Install` is `Write_Feature_Rules` with `write_feat_rule`; the action rules are already the rows of
`ACT_Ruls.csv`. The lookup is an operator: `MayPick` allows *any* range that holds the value, since
all ranges of a feature have one priority and what a target does with equal priorities is its own
affair; `FirstPick` is a target that keeps the order of installation.

Two assumptions say what a trained tree is. `TreeAssumption` is the form of scikit-learn's arrays: nodes are
numbered from the root, parents before children. `TrainingAssumption` is what a training does:
below a node it splits only what is left of the feature's range, so that thresholds of one feature are
smaller on the left and greater on the right. The rule writer needs it: a threshold tested twice on a
path would leave an empty interval. TLC evaluates both on every tree of `rules` and `deployment`.
`Sorted` is `v.sort()` as a choice among all orders of the list, and the three operators on
dictionaries (`With`, `Saved`, `Restored`) are the assignments and `del` of `dicoFtsInds`.

### Deployment
It extends `DecisionRules`: the tree is written as there, but `Install` is replaced by `Insert`, which
takes one entry of `Script`, the order of `main.py`: every range of the division for `Divide1` and
`Divide2`, the ranges of each feature, the leaves. A packet that closes a window is `packet`, and each
of its look-ups is a step of its own (`LookUpDivide1`, `LookUpDivide2`, `LookUpFeature`,
`LookUpAction`), since the target locks one table at a time; an entry may be inserted between any two
of them. A miss does what the code does: `Divide1` leaves zeros, `Divide2` leaves *the downlink's*
results, a feature leaves index 0, `ActRules` no verdict. `began` remembers how complete the tables
were when the look-ups began. Features are among 0..11, for which `My.p4` has tables. The instance `DR` maps the state back to `DecisionRules`, whose single
`Install` step is the last `Insert`.

### ReportLog
`CloseWindow` writes the first number of a report, `WriteNext` the others: ingress runs one packet at
a time, so reports do not mix, but the log can end anywhere. `ReadLog` reads it up to a number, or
into one (`Cut` gives what is left of it). `AddRow` is a turn of the loop of `FtsFromLog.sh`,
including its exchange of the last two numbers and the blanks a short array expands to; `Ask` reads the
identifier, `Grep` is a row of the `grep` for it, `Move` puts `Temp.csv` in the place of `out.csv`,
`Count` is a row of `Percent.awk` and `AwkEnds` its end, `Again` a new start of the script. Packets go on
writing to the log between any two of these. The twelve features are 0, and a number keeps the report
and the field it was written for.

### Forwarding
One frame at a time goes from `Send` or `Reply` through `Ingress` or `IngressFromCpu` to the link, and
is taken by `Receive` or is lost. `Lookup` is `ipv4_lpm`: an entry, the default, or the empty `drop()`,
which leaves `egress_spec` at 0, so that the frame goes to port 0 and nobody. `Insert` adds the
entries meanwhile. A MAC address is the host that has it; `sum` says whether the header checksum is
right, and the switch computes it anew without having verified it.

### UniqueIp
One packet of one file, pass by pass, edited either in the buffer (by the number of the pass) or in
place in the cache (by one). `Move` is the pair of subtractions and additions modulo 2^32 with the
compensation of a wrap, and `SourceGives` is which of the two addresses gives, in the 64 bits of
`COUNTER`.

### Replay
`pc` is where the program is: `Loop` is a turn of `tcpreplay_replay`, `Open`, `OpenFails` and `IndexEnds`
are `tcpr_replay_index`, and the head of either send loop ends in `NoSend`, `EditFails`, `Prepare` or
`FileEnds`; `Transmit` and `SendFails` are `sendpacket` with what its caller does next. The two loops
are one module because they differ in little: `send_packets` fetches at the head of its loop (`Fetched`)
and gives up what it cannot send; `send_dual_packets` fetches after a send and keeps it. `Pace` is
`calc_sleep_time` with `tcpr_sleep` at the speed of the capture; `slept` adds up the naps. `Abort` is
the other thread, flag by flag. What was sent is `wire`, what was given up `lost`. An edit is only the
distance the addresses have moved: what it does to them is `UniqueIp`.

## 3. Runs

| Run | Question | Instance | Result |
|---|---|---|---|
| `history` | Do the registers mean what they are read as, and does the tracker implement one window per conversation? | one LAN and one WAN host, sizes 2 and 30 bytes, gaps 0, 1, 3, `WinSze` 2, at most 4 packets a window, time up to 8 | 126,696 states, all hold |
| `conversations` | Do two conversations stay apart when their hashes do? | one LAN and two WAN hosts, own slots, time up to 7 | 130,761 states, all hold |
| `collision` | Is a collision detected, as the comment says? | as above, one slot | `OneConversationPerWindow` violated |
| `division` | Is the division table right and complete? | `Ymax` in {1, 2, 3, 16, 17, 4095}, the real table | 19,375 states, all hold |
| `rules` | Do the installed rules decide as the tree? | all 662 trees of up to nine nodes of a family over two features, all vectors of values 0..8 | 15,262 states, all hold |
| `deployment` | What does an unfinished installation do to verdicts, and does it end? | 24 trees of two splits over the two mean sizes, nine vectors, one range of counts | 77,346 states, all hold |
| `log` | Is every row a report, whenever the log is read? | three reports of identifiers 1 and 10, a cut through 10 | 509,176 states, all hold |
| `forwarding` | Who gets a frame, and does it arrive? | three hosts, an unknown address, the controller, any frame, ttl 0 and 1, replies | 24,965 states, all hold |
| `uniqueip` | Are passes fresh and checksums kept? | all pairs of four-bit addresses, 18 passes | 19,456 states, all hold |
| `replay` | Is a pass the capture, at its pace, and does the replay end and stop? | 20 command lines over one and two files, two failures, an abort anywhere | 50,765 states, all hold |
| `stuck` | Does a replay of two files at a time end? | a file with one packet the interface refuses | `Completes` violated |
| `ftsmax` | Does `FTS_MAX` bound the features? | a split on `mDWMeanIAT` at 5000.5, counts 1, 2, 4 .. 64 | `Faithful` violated |

**Bounds.** In `history` the count register is two bits wide, so that 4 packets wrap it: a full
window looks empty. Sizes are in 6 bits, and sums and squared deviations wrap too. A gap
of 3 exceeds `WinSze`, a gap of 0 makes simultaneous packets, and time up to 8 allows three windows
with a report each, so that a third window deviates from the means of the second.
The division entries for 1, 2 and 3 are those `expo.c` computes; 3 is the largest count
that does not wrap. Directions are symmetric in the code except through `Divide1/2`, and both are
taken by every packet. In `rules`, the thresholds 2.5, 2.75 and 4.5 are chosen so
that two are cut to the same integer and the middle range is empty of integers; the trees repeat
thresholds, test a feature twice on a path and leave a feature untested. `division` needs no
small instance: 4095 is the value the documentation tells the user to type.
In `deployment` the two features are the ones that share the metadata of the divisions, so that a miss of `Divide2` shows the downlink's mean to the uplink's table; one range of counts is
enough, since ranges of one table do not interact. In `log`, identifier 10 cut short reads 1, which is
both another identifier and the text of a verdict; three reports make a row that is neither the first
nor the last. In `forwarding` a ttl of 0 and of 1 are the two sides of the only test of it. In `uniqueip`
a word has two bits, and 18 passes move an address through all of its 16 values and beyond, so that source
and destination wrap alone and together and the limits of `UniqueEachPass` are passed. In `replay`, captures have up to four packets, stamps that go
back, a packet that is not IP and one that is refused; `MaxFails` = 2 lets one packet fail twice, or
two packets fail; the counters of failures stop at `MaxCount` = 4, and no property reads them. A
replay without end is cut by its limit, by its duration, or by the abort.

The division entries of `history` and `conversations` satisfy the conditions of the theorems on
them: TLC evaluates `TheoremAssumptions` of `MCFlowHistory`.

**Deadlock** is not checked: every run ends, when the bound on time, reports or passes is reached, the
tables are installed, the frame is lost or taken, or the replay is done.

**Fairness.** `FlowTracker` has none: senders may fall silent, and a silent conversation never gets
its last report. `DivisionTable` and `DecisionRules` assume `WF_vars(Next)`: `expo.c`, `dum2Cond.py`
and `main.py` are sequential programs that run alone and wait for nothing. `Deployment` is fair to the
writing of the rules, to `Insert` and to the look-ups separately, for the same reason and because the
pipeline does not stop between two tables; packets may stay away. `Forwarding` is fair to the switch
and to the receiving host, not to senders or to `Insert`. `Replay` is fair to tcpreplay, which only
ever sleeps for a time; nobody need abort it, and failures that could be retried are finitely many
(`MaxFails`), as an interface that never recovers is a fault of the network. `ReportLog` and `UniqueIp`
have no fairness: packets may stay away, and nobody need start the script.

**Findings.**
1. `flow_tracker` is read and never written, so no collision is ever detected, although `My.p4:289`
   and `Readme.md:96,111,125` say it is (run `collision`). Writing the key would not be enough:
   `srcAddr ++ dstAddr` differs between the two directions of one conversation.
2. `FTS_MAX` does not bound the mean inter-arrival time of short windows: 33000 for one packet and
   16500 for two, against 2^14 - 1 (run `ftsmax`). Their index stays 0, which is below the first
   range, and the tree's other branch is taken.
3. In a replay of two files at a time (`--dualfile`) a packet that cannot be sent is tried again for
   ever: `send_packets.c:766` continues before the next packet is fetched (798-803), and so does 683
   with `--unique-ip` for a packet that is not IP. The replay never completes, against
   `tcpreplay_api.c:1105` (run `stuck`; the counterexample is a loop of a run in which tcpreplay always
   goes on). `CompletesIfSendable` is what is left of the promise. `Host.sh` replays one file at a time
   and is not affected.

## 4. Theorems

All are proved for arbitrary constants, under the assumptions of the modules (`ModAssumption`:
widths are positive, and a size register holds a packet size; `TrafficAssumption`: types of the
inputs; `TableAssumption`: divisors are positive; `LimitAssumption` and `NeverAssumption`;
`OptionsAssumption`: types of captures and command lines; `TreeAssumption`, `TrainingAssumption` and
`DeploymentAssumption`: see the two modules in 2).

| Theorem | Statement | Argument |
|---|---|---|
| `TypeCorrect` | `Spec => []TypeOK` | inductive by itself: every write is reduced modulo the width it is written to |
| `RegistersAreExact` | `HSpec => []RegistersExact` | `SizeInv` |
| `WindowsAreBounded` | `NoTimeWrap` gives `HSpec => []WindowSpan` | `TimeInv` |
| `IatDeviationsAreExact` | `NoTimeWrap` gives `HSpec => []IatDevExactWithoutTies` | `TimeInv` |
| `DirectionsShareASlot` | `HSpec => []DirectionsMeet` | `PeersInv` |
| `ConversationsStayApart` | `CollisionFree` gives `HSpec => []OneConversationPerWindow` | `PeersInv` |
| `MeansNeverExceed` | `RecipSound` and `RecipComplete` give `HSpec => []MeansSound` | `MeansInv`, and `ShiftsLe` |
| `TrackerImplementsWindows` | `CollisionFree`, `NoTimeWrap` and `NoneIsApart` give `HSpec => Refinement` | step simulation under `SizeInv` and `TimeInv` |
| `TableTypes` | `Spec => []TypeOK` of `DivisionTable` | `TableInv` and `LoadInv` |
| `DivisionIsApproximate` | `Spec => []RowsApproximate` | `TableInv` |
| `RangesAreExact` | `Spec => []TableExact` | `LoadInv` |
| `LoadedTableDivides` | `Spec => []QuotientsClose` | `TableInv`, `LoadInv` and `RowsDivide` |
| `RulesAreTyped` | `Spec => []TypeOK` of `DecisionRules` | `Inv` |
| `RulesSplitTheSpace` | `Spec => []RulesPartition` | `Inv`, its part `Cover` |
| `FirstMatchDecides` | `Spec => []FirstMatchFaithful` | `Inv`, its part `Truth`, and `FirstPickFacts` |
| `OffBoundsDecides` | `Spec => []OffBoundsFaithful` | the same with `AnyPickFacts` |
| `DeploymentIsTyped` | `DSpec => []DTypeOK` | `DInv` on top of `Inv` |
| `VerdictsAreFounded` | `DSpec => []NoUnfoundedVerdict` | `DInv`, its part `Looked` |
| `SettledDecide` | `DSpec => []SettledFaithful` | `DInv`, its part `Looked` |
| `DeploymentInstallsRules` | `DSpec => InstallsAllRules` | step simulation under `DInv` |
| `LogTypes` | `Spec => []TypeOK` of `ReportLog` | the conjunction of the six invariants of its module |
| `RowsFollowReports` | `Spec => []RowsAreReports` | `LogInv`, `ReadInv`, `RowsInv` |
| `CountsFollowReports` | `Spec => []CountsOffByOneRow` | `GrepInv`, `TotalsInv`, `AwkInv` on top of these |
| `FramesReachNobodyElse` | `Spec => []TakenByAddressee` | `FInv` |
| `CountedIsForwarded` | `Spec => []CountedFramesPass` | `FInv` |
| `UniqueIpTypes` | `Spec => []TypeOK` | inductive by itself |
| `ChecksumIsKept` | `Spec => []ChecksumKept` | every edit keeps `SameSum` |
| `PassesAreUnique` | `Spec => []UniqueEachPass` | `Counters`, `FromFile`, `InCache` |
| `AbortsArePrompt` | `Spec => []AbortIsPrompt` | `AbortInv` |
| `CountersAgree` | `Spec => []StatsAgree` | `CountInv`, on top of `AbortInv` |
| `PassesAreReplays` | `Spec => []WireIsReplay` | `WireInv`, on top of `NumberInv` |
| `PassesArePaced` | `Spec => []Paced` | `PaceInv`, on top of these two |
| `PassesAreFresh` | `Spec => []FreshEachPass` | `FreshInv`, on top of these two |

* `SizeInv` adds to `RegistersExact` that a slot with last mean 0 has accumulated no deviation
  (`NoMeanNoDeviation`). Without it the code's `else 0`, which *overwrites* the deviation instead
  of leaving it, would lose a sum. The rest is arithmetic modulo the width: the square of a wrapped
  difference is the wrapped square of the true one (`ModSquare`).
* `TimeInv` adds that the owner register is 0 everywhere (the reason why `Restart` means "no
  window yet"), that stored times are the true ones, which needs that the clock does not reach
  2^48, and that time 0 is never a packet's (`clock > 0`), which is what makes 0 a sound sentinel.
* `PeersInv`: a window only holds packets that hash to its slot. Both directions of a conversation
  between the LAN and the WAN are hashed as (client, server) (`ClientFirst`); neither theorem needs
  the detection of collisions, which never fires.
* `MeansInv` needs no memory: a report is computed from the registers of one moment. The work is in
  `ShiftsLe`: for an entry whose shares are at most 1/n, n times the sum of the three truncated shifts
  is at most what is divided, also after the sum is cut to its register. Shares of the padding count
  as nothing (`Reaches`), as shifting by 255 leaves nothing. `RecipSound` is what
  `DivisionIsApproximate` says of every row, in the units of the tracker; `RecipComplete` is the
  documented `Ymax` of 4095.
* `TrackerImplementsWindows`: a packet that finds no window start is `Open`, one within `WinSze` is
  `Join`, a later one is `Close`. `WindowDecision` translates the tests of the code into those of
  the abstract specification, `OwnWindow` says that no other conversation's window moves
  (where `CollisionFree` is needed), and `ReportMatches` uses `SizeInv` for the counts in the report.
  `NoneIsApart` only says that the values that stand for none are not windows or reports.
* `TableInv` is the invariant of the search: `num/unit <= 1/elem < (num + 1)/unit`. The search
  therefore always keeps the best sum for the powers used so far; after three powers `num >= 7`,
  whence the error below one eighth.
* `LoadInv` says what `write_appr_rule` has in hand between two rows: the rows before the range it is
  extending are answered exactly (`Exact`), those of the range are all equal. The range is
  written only when a different row comes, so the induction step is that of one range
  (`RangeInstalled`).
* `LoadedTableDivides` puts the two together at the switch: the entry a count *n* finds turns every *x* below
  `Never` into a quotient *q* with `n*q <= x` and `8*n*(q + 3) > 7*x`. It needs that every power of a row
  divides the last one (`RowsDivide`), so that a shift is a number of shares of one unit, rounded down
  (`ShiftBounds`); the 3 is what three roundings lose. No run states it: `Never` is too large to
  enumerate.
* The invariant `Inv` of `DecisionRules_proofs` gives each pending call of `Write_Rules_Rec` the dictionary it
  was entered with. `Stack`: `FTS_INDS` is at all times what the innermost call passed on, narrowed by
  the branch it is in, so that `Restored` gives the call above its own dictionary back. `Cover`: each vector of indexes
  is matched by exactly one rule, or else is still owned by exactly one call, which is where no rule
  can be missing or written twice. `Truth`: a call that a vector fits stands at a node where the tree
  decides as at its root, and a rule that it fits says what the tree says. `Room`: the thresholds still
  to come below a node lie inside of the intervals of its dictionary, which is where
  `TrainingAssumption` is needed. When no call is left, one rule answers for each vector (`MatchingFacts`).
* From indexes to values: `Cut` says on which side of a threshold the ranges lie that its truncated bound
  separates. The first range that holds a value tells the side of every threshold of the feature
  (`FirstPickFacts`), and off the bounds any range does (`AnyPickFacts`): the indexes then `Agree` with
  the values, which is all that `Truth` asks for.
* The inductions over trees, lists and counts in these proofs are over sets of natural numbers, by way of
  well-foundedness (`Least`, `Induction`); none takes an operator.
* `DInv` says of the tables that they hold the ranges of the entries inserted so far (`Loaded`), and of a
  packet on its way what it knows (`Looked`). If its look-ups began with all thresholds there, every
  division has hit (`Divided`), and the index of every feature looked up so far is one that the complete
  table gives (`Picked`): `ScriptFacts` is the order of the script, leaves last and no entry left
  out. Whatever it began with, a positive verdict is that of an installed rule, and all rules together would
  give the same, because exactly one matches: an unfinished `ActRules` can only withhold.
* `DeploymentInstallsRules`: until the last entry `DecisionRules` stands still, and the last entry finds all
  others there (`AllFound`). There is always a last one: some rule is written for the vector of zeros
  (`SomeEntry`).
* The invariants of `ReportLog_proofs` follow a report from the log to the percentage. The point that makes
  a cut harmless is in `Prefix` and `RowIs`: the only number that can be cut and still be read as
  another one is an identifier, since what is left of a single digit is nothing; hence a report that is
  cut inside of its identifier has no verdict, and its row, which may well be kept under another
  identifier, is counted once and never as a positive one.
* `FInv` says of a frame on the link which of the three answers of the table, or none, has put it there,
  and that a frame sent when the entries were complete finds them complete.
* `ChecksumKept` rests on an argument about the ones' complement: an address that wraps has changed by
  the number moved less or plus 2^32, which is one modulo 2^16 - 1, and the compensation takes it back;
  when both wrap the two cancel. The proof is for every width of a word.
* `PassesAreUnique`: from the file a pass is the packet moved by its number, and two numbers below the
  number of addresses give different addresses, with the compensation of a wrap or without
  (`FromFile`). In the cache it is the address that gives which tells the passes apart: it
  goes down by one each pass and does not wrap (`InCache`), whatever the other does.
* `AbortInv` ties `late` to where the loop is: once the flag is set, at most the packet already
  prepared is sent, and the loop's head leaves. `CountInv` says that the interfaces miss a packet only
  if they were told to abort, which happens after the flag.
* `Done(k)` is how many packets of a file the pass has dealt with, read off `pos`, `data` and `pc`, which
  mean different things in the two loops; `MoveTaken`, `MoveSent`, `MoveFailed` and
  `MoveOpened` say what each step does to it, and all proofs about the wire rest on them. `WireInv`: what
  was sent of a file in this pass is among its first `Done` packets, all of these were sent, given up or
  left out, and an entry of a later pass starts at 0 again because no entry carries its number yet.
* `PaceInv`: the clock never moves without the last time stamp, so for every packet of this pass
  the latest time stamp when it was sent is still known from the clock (`Peaked`). `AheadInv` is about the
  future: no packet of an ascending file is behind the last time stamp, which for two files needs
  that they are merged by time, and no file at all lies wholly behind it as long as it has packets left.
* `FreshInv` tells the buffer from the cache. In the buffer a packet is edited by the number of its pass
  (`BufferInv`). In the cache the number of edits counts, and it exceeds that of every entry of the
  packet on the wire (`CachedInv`), also when a failed packet is edited twice: it only grows. The
  first pass, which edits nothing, is safe because a packet it prepares is not on the wire at all, by
  `WireInv`.

**Only model-checked.** Liveness, which is out of the proof system's reach: `Termination`,
`Installation`, `EventuallyFaithful`, `Delivery`, `CompletesIfSendable`. Every invariant and every action
property of a passing run is the statement of a theorem. The theorems go beyond the runs in the trees,
captures and command lines: TLC takes those of a list, the theorems all that the assumptions allow.

## 5. Not modelled

* **Most of tcpreplay.** It is vendored in full, with its libraries and generated option parsers, and
  makes up nearly all of the repository's lines; the project runs one of its programs with two
  options. Left out of that program: speeds other than the capture's (`--mbps`, `--pps`,
  `--oneatatime`, `--topspeed`), suspend and the accessors of the API, flow statistics, netmap, the
  injection methods inside of `sendpacket`. Left out altogether: `tcprewrite`, `tcpprep`, `tcpbridge`,
  `tcpliveplay`, `tcpedit`, `fragroute`, libopts, the `*_opts.c` files, its tests. They transform files, parse
  command lines or have no part in this system.
* **The switch.** The packet_in header, which no entry sends anything to; multicast; source MAC
  addresses; IP options, which the parser does not skip; a checksum that comes in wrong, which is not
  verified (`checksums.p4:11`) but replaced; the 6-bit width of an index (`My.p4:133`); the one entry of
  `Direc`, which is taken to be there from the start.
* **Data.** The trained tree is a serialized object and a parameter here. `GetGraphs.py` only plots. The
  launch scripts have no state; the header library is declarations.
* **Traffic.** Conversations between two LAN or two WAN hosts are admitted by `FlowTracker` (`Traffic` is
  any set of pairs) but appear in no run; the topology and the traces have none.
* **Small things of the tools** that no module speaks of: flow statistics are multiplied by the number
  of files (`tcpreplay.c:249`), statistics are copied without a lock (`tcpreplay_api.c:1289`), suspend
  is set and never read (1253), a snaplen warning ends a replay of two files (`replay.c:256`; modelled
  as `warn`), a first time stamp of 0 is taken for none (`send_packets.c:438`), `Percent.awk` divides by
  the number of rows without a test.

## 6. Plan

1. `FlowTracker` over the entries of `DivisionTable` instead of any `Recip`, so that `RecipSound` becomes a
   theorem too and no longer an assumption of `MeansNeverExceed`.
2. `IsCG` instantiated with the lookup of `DecisionRules`, so that a report's verdict is the tree's.
3. Replay at other speeds.
