--------------------------- MODULE PerformanceUnits ---------------------------
(***************************************************************************)
(* The performance units beside the reorder buffers and the trace cache.   *)
(* They share no state and none calls another, so a behaviour of one is    *)
(* not affected by the others: in a behaviour of this specification one    *)
(* unit takes steps and the others stay at rest.                           *)
(***************************************************************************)
EXTENDS Integers

CONSTANTS
  Units,   \* "l0", "interrupt", "governor", "compressor", "tage", "fusion"
  \* L0MicroCache
  MaxUnits, Lines, LineSize, Tags, Values, Sizes, MaxAccesses, MaxInits, NULL,
  \* InterruptLatency
  Vectors, PostedVector, Slots, Window, FastLimit, MaxTime, MaxTotal, MaxIdle,
  \* BwGovernor
  ThreadCounts, Peaks, DefaultPeak, DefaultThreads, Counts, MaxTransactions, MaxPrefetches,
  \* MemoryCompressor
  LinkLine, TargetRatios, PhysicalBw, Transfers, MaxBytes,
  \* TagePredictor
  Tables, Entries, TagBits, BtbEntries, MaxUseful, Rips, Targets, Kernels, MaxUpdates,
  \* MacroOpFusion
  Version, Base, V71, MaxPairs, BufferSize, Pairs, Regions, MaxAttempts, MaxExecutions

VARIABLES
  unit,
  activeUnits, cache, inits, wrote,
  now, event, handler, maxLatency, total, coalesced, fastPath, dropped, delivered, idle,
  posted,
  gBwGov,
  gMemComp, least,
  gTageTables, gBtb, gTagePredictions, gTageCorrect, gTageMispredictions,
  outcomes, lastTarget,
  gFusionPairs, gFusionBuffer, gFusionAttempts, gFusionSuccesses, gV71Tracking, reported

L0 == INSTANCE L0MicroCache

Irq == INSTANCE InterruptLatency

Gov == INSTANCE BwGovernor WITH MaxTotal <- MaxTransactions

Hmc == INSTANCE MemoryCompressor WITH LineSize <- LinkLine, Sizes <- Transfers

Tage == INSTANCE TagePredictor

Fusion == INSTANCE MacroOpFusion

l0Vars     == <<activeUnits, cache, inits, wrote>>
irqVars    == <<now, event, handler, maxLatency, total, coalesced, fastPath, dropped,
                delivered, idle, posted>>
hmcVars    == <<gMemComp, least>>
tageVars   == <<gTageTables, gBtb, gTagePredictions, gTageCorrect, gTageMispredictions,
                outcomes, lastTarget>>
fusionVars == <<gFusionPairs, gFusionBuffer, gFusionAttempts, gFusionSuccesses,
                gV71Tracking, reported>>
vars == <<unit, l0Vars, irqVars, gBwGov, hmcVars, tageVars, fusionVars>>

-------------------------------------------------------------------------------

Init ==
  /\ unit \in Units
  /\ L0!Init /\ Irq!Init /\ Gov!Init /\ Hmc!Init /\ Tage!Init /\ Fusion!Init

\* The assumptions of the units on their constants.
ASSUME UnitsAssumption ==
  /\ L0!L0Assumption /\ Irq!LatencyAssumption /\ Gov!GovernorAssumption
  /\ Hmc!CompressorAssumption /\ Tage!TageAssumption /\ Fusion!FusionAssumption

\* Unit u takes the step and the others rest.
Only(u) == unit = u /\ UNCHANGED unit

L0Step ==
  /\ Only("l0") /\ L0!Next
  /\ UNCHANGED <<irqVars, gBwGov, hmcVars, tageVars, fusionVars>>

IrqStep ==
  /\ Only("interrupt") /\ Irq!Next
  /\ UNCHANGED <<l0Vars, gBwGov, hmcVars, tageVars, fusionVars>>

GovStep ==
  /\ Only("governor") /\ Gov!Next
  /\ UNCHANGED <<l0Vars, irqVars, hmcVars, tageVars, fusionVars>>

HmcStep ==
  /\ Only("compressor") /\ Hmc!Next
  /\ UNCHANGED <<l0Vars, irqVars, gBwGov, tageVars, fusionVars>>

TageStep ==
  /\ Only("tage") /\ Tage!Next
  /\ UNCHANGED <<l0Vars, irqVars, gBwGov, hmcVars, fusionVars>>

FusionStep ==
  /\ Only("fusion") /\ Fusion!Next
  /\ UNCHANGED <<l0Vars, irqVars, gBwGov, hmcVars, tageVars>>

Next == L0Step \/ IrqStep \/ GovStep \/ HmcStep \/ TageStep \/ FusionStep

Spec == Init /\ [][Next]_vars

-------------------------------------------------------------------------------

\* Every unit has its types.
TypeOK ==
  /\ L0!TypeOK /\ Irq!TypeOK /\ Gov!TypeOK /\ Hmc!TypeOK /\ Tage!TypeOK /\ Fusion!TypeOK

\* No L0 cache returns one address's bytes for another (l0microcache.c:266),
\* and each of its accesses is one of hit, miss and write.
L0KeepsApart == L0!NoForeignBytes /\ L0!StatisticsAddUp

\* Every interrupt trigger is merged, dropped, delivered or pending; merging
\* reaches every slot, and the handlers' statistics agree with the maximum.
InterruptsAccounted == Irq!InterruptsAccounted

\* The governor's thread count and event counters are those of its level.
GovernorLevels == Gov!GovernorLevels

\* The compressor never reports less bandwidth than its smallest ratio gives,
\* its peak is that of the ratio in force, and its lines hold its bytes.
CompressorReports ==
  Hmc!ReportCoversTarget /\ Hmc!PeakFollowsRatio /\ Hmc!LinesHoldBytes

\* A steady branch is predicted its way by any table that knows it, and to its
\* own last target.
BranchesLearned == Tage!SteadyBranchLearned /\ Tage!TargetIsLast

\* A pair reported fused is found again unless the buffer is full, and the two
\* copies of the fusion conditions agree.
FusionFound == Fusion!ReportedIsFound /\ Fusion!StoredPairsTyped

\* Nothing is lost without a reason: an L0 invalidation reaches every unit, an
\* interrupt is dropped only from a full table, and a fused operation stays
\* until a reset.
NothingLost ==
  L0!InvalidateReachesAll /\ Irq!DroppedOnlyWhenFull /\ Fusion!StoredStays

===============================================================================
