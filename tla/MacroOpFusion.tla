----------------------------- MODULE MacroOpFusion -----------------------------
(***************************************************************************)
(* Macro-op fusion, performance/fusion/macroopfusion.c.  Two versions of   *)
(* the same tables: TryFuse records a pair of instructions that can be     *)
(* fused and its fused operation, each as long as its table has room.      *)
(* Only the tables of the first version can be looked up; DboAnalyze reads *)
(* those of v7.1.                                                          *)
(*                                                                         *)
(* An instruction pair is the address of the first instruction, the        *)
(* address after the second, and three opcode bytes.  The rates are left   *)
(* out.  MaxAttempts and MaxExecutions bound the calls.                    *)
(***************************************************************************)
EXTENDS Integers, Sequences

CONSTANTS
  Version,       \* the two copies of the tables
  Base, V71,     \* which of them is which
  MaxPairs,      \* MAX_FUSION_PAIRS of each version
  BufferSize,    \* FUSION_BUFFER_SIZE of each version
  Pairs,         \* [rip, next, opcodes] of the calls
  Regions,       \* <<start, instructions>> of the calls of DboAnalyze
  MaxAttempts, MaxExecutions

FusionAssumption ==
  /\ Version = {Base, V71} /\ Base # V71
  /\ MaxPairs \in [Version -> Nat] /\ BufferSize \in [Version -> Nat]
  /\ MaxAttempts \in Nat /\ MaxExecutions \in Nat

VARIABLES
  gFusionPairs,      \* per version: the types recorded, in order
  gFusionBuffer,     \* per version: the fused operations, in order
  gFusionAttempts, gFusionSuccesses,
  gV71Tracking,
  reported           \* addresses for which TryFuse of the first version succeeded

fusionVars == <<gFusionPairs, gFusionBuffer, gFusionAttempts, gFusionSuccesses,
                gV71Tracking, reported>>

NoTracking == [WorkloadId |-> 0, TotalInstructions |-> 0, FusedOps |-> 0,
               CacheHits |-> 0, DboPatternsDetected |-> FALSE]

-------------------------------------------------------------------------------

Init ==
  /\ gFusionPairs = [v \in Version |-> <<>>] /\ gFusionBuffer = [v \in Version |-> <<>>]
  /\ gFusionAttempts = [v \in Version |-> 0] /\ gFusionSuccesses = [v \in Version |-> 0]
  /\ gV71Tracking = NoTracking
  /\ reported = {}

Reset(v) ==
  /\ gFusionPairs' = [gFusionPairs EXCEPT ![v] = <<>>]
  /\ gFusionBuffer' = [gFusionBuffer EXCEPT ![v] = <<>>]
  /\ gFusionAttempts' = [gFusionAttempts EXCEPT ![v] = 0]
  /\ gFusionSuccesses' = [gFusionSuccesses EXCEPT ![v] = 0]

MacroOpFusionInit == Reset(Base) /\ reported' = {} /\ UNCHANGED gV71Tracking

MacroOpFusionV71Init == Reset(V71) /\ gV71Tracking' = NoTracking /\ UNCHANGED reported

IsJcc(op, extra) ==
  op \in 112 .. 127 \/ (op = 15 /\ extra \in 128 .. 143)

Group1  == 128 .. 131                        \* 80h to 83h
Compare == (56 .. 61) \cup Group1            \* 38h to 3Dh
Test    == {132, 133, 168, 169, 246, 247}
IncDec  == {254, 255}
Lea     == 141
Mov     == (136 .. 139) \cup {198, 199}

\* The opcodes o are <<Opcode1, Opcode2, Opcode2Extra>>.
MacroOpFusionIsFusable(o) ==
  \/ IsJcc(o[2], o[3]) /\ o[1] \in Compare \cup Test \cup IncDec
  \/ o[1] = Lea /\ o[2] \in (0 .. 5) \cup Group1
  \/ o[1] \in Mov /\ o[2] \in Compare

\* Mutant of MacroOpFusionGetType: the group-1 opcodes are forgotten.
GetTypeNoGroup1(o) ==
  CASE IsJcc(o[2], o[3]) /\ o[1] \in 56 .. 61           -> "CmpJcc"
    [] IsJcc(o[2], o[3]) /\ o[1] \in Test               -> "TestJcc"
    [] IsJcc(o[2], o[3]) /\ o[1] \in IncDec             -> "DecJcc"
    [] o[1] = Lea /\ o[2] \in (0 .. 5)                  -> "AddLea"
    [] o[1] \in Mov /\ o[2] \in 56 .. 61                -> "MovCmp"
    [] OTHER                                            -> "None"

MacroOpFusionGetType(o) ==
  CASE IsJcc(o[2], o[3]) /\ o[1] \in Compare            -> "CmpJcc"
    [] IsJcc(o[2], o[3]) /\ o[1] \in Test               -> "TestJcc"
    [] IsJcc(o[2], o[3]) /\ o[1] \in IncDec             -> "DecJcc"
    [] o[1] = Lea /\ o[2] \in (0 .. 5) \cup Group1      -> "AddLea"
    [] o[1] \in Mov /\ o[2] \in Compare                 -> "MovCmp"
    [] OTHER                                            -> "None"

Count(f, v) == [f EXCEPT ![v] = @ + 1]

\* Mutant of AppendIn: a full table makes room by dropping its oldest entry.
AppendInRing(f, v, limit, e) ==
  [f EXCEPT ![v] = IF Len(@) < limit[v] THEN Append(@, e) ELSE Append(Tail(@), e)]

\* A full table drops the new entry.
AppendIn(f, v, limit, e) == [f EXCEPT ![v] = IF Len(@) < limit[v] THEN Append(@, e) ELSE @]

\* Mutant of FusedOp: the entry is filed under the address after the pair.
FusedOpNext(p) == [Rip |-> p.next, TargetRip |-> p.next, ComparisonType |-> p.opcodes[1],
                   ExecutionCount |-> 0]

FusedOp(p) == [Rip |-> p.rip, TargetRip |-> p.next, ComparisonType |-> p.opcodes[1],
               ExecutionCount |-> 0]

TryFuse(v, p) ==
  /\ gFusionAttempts[v] < MaxAttempts
  /\ gFusionAttempts' = Count(gFusionAttempts, v)
  /\ IF MacroOpFusionIsFusable(p.opcodes)
     THEN /\ gFusionPairs' =
               AppendIn(gFusionPairs, v, MaxPairs, MacroOpFusionGetType(p.opcodes))
          /\ gFusionBuffer' = AppendIn(gFusionBuffer, v, BufferSize, FusedOp(p))
          /\ gFusionSuccesses' = Count(gFusionSuccesses, v)
          /\ reported' = IF v = Base THEN reported \cup {p.rip} ELSE reported
     ELSE UNCHANGED <<gFusionPairs, gFusionBuffer, gFusionSuccesses, reported>>
  /\ UNCHANGED gV71Tracking

MacroOpFusionTryFuse(p)    == TryFuse(Base, p)
MacroOpFusionV71TryFuse(p) == TryFuse(V71, p)

\* The loop stops one entry before the end of the buffer.
Detected(n) ==
  LET last == Len(gFusionBuffer[V71]) - 1
      scanned == IF last < n THEN last ELSE n
  IN  IF scanned > 0 /\ gFusionPairs[V71] # <<>> THEN scanned ELSE 0

MacroOpFusionDboAnalyze(start, n) ==
  /\ gV71Tracking' =
       [WorkloadId |-> start, TotalInstructions |-> n, FusedOps |-> Detected(n),
        CacheHits |-> gFusionSuccesses[V71],
        DboPatternsDetected |-> gV71Tracking.DboPatternsDetected \/ Detected(n) > 0]
  /\ UNCHANGED <<gFusionPairs, gFusionBuffer, gFusionAttempts, gFusionSuccesses, reported>>

Matching(rip) == {i \in DOMAIN gFusionBuffer[Base] : gFusionBuffer[Base][i].Rip = rip}

Found(rip) == CHOOSE i \in Matching(rip) : \A j \in Matching(rip) : i <= j

MacroOpFusionLookup(rip) ==
  /\ Matching(rip) # {}
  /\ gFusionBuffer[Base][Found(rip)].ExecutionCount < MaxExecutions
  /\ gFusionBuffer' = [gFusionBuffer EXCEPT ![Base][Found(rip)].ExecutionCount = @ + 1]
  /\ UNCHANGED <<gFusionPairs, gFusionAttempts, gFusionSuccesses, gV71Tracking, reported>>

Next ==
  \/ MacroOpFusionInit
  \/ MacroOpFusionV71Init
  \/ \E p \in Pairs : MacroOpFusionTryFuse(p)
  \/ \E p \in Pairs : MacroOpFusionV71TryFuse(p)
  \/ \E r \in Regions : MacroOpFusionDboAnalyze(r[1], r[2])
  \/ \E p \in Pairs : MacroOpFusionLookup(p.rip)

Spec == Init /\ [][Next]_fusionVars

\* The rate is successes over attempts.
MacroOpFusionGetStats(v) == [attempts |-> gFusionAttempts[v], successes |-> gFusionSuccesses[v]]

-------------------------------------------------------------------------------

Types == {"CmpJcc", "TestJcc", "DecJcc", "AddLea", "MovCmp", "None"}

\* The tables have their types and do not outgrow their sizes.
TypeOK ==
  \A v \in Version :
    /\ gFusionPairs[v] \in Seq(Types) /\ Len(gFusionPairs[v]) <= MaxPairs[v]
    /\ Len(gFusionBuffer[v]) <= BufferSize[v]
    /\ gFusionSuccesses[v] \in 0 .. gFusionAttempts[v]

\* What TryFuse reported fused is found by MacroOpFusionLookup, unless the
\* buffer is full: then nothing tells the caller that its pair was dropped.
ReportedIsFound ==
  \A rip \in reported :
    Matching(rip) # {} \/ Len(gFusionBuffer[Base]) = BufferSize[Base]

\* The opcode tests of MacroOpFusionIsFusable and MacroOpFusionGetType, which
\* are written out twice, agree: no pair is stored as "no fusion".  The successes
\* callers are told are the pairs stored, until the table of pairs is full.
StoredPairsTyped ==
  \A v \in Version :
    /\ \A i \in DOMAIN gFusionPairs[v] : gFusionPairs[v][i] # "None"
    /\ LET stats == MacroOpFusionGetStats(v)
       IN  /\ stats.successes <= stats.attempts
           /\ Len(gFusionPairs[v]) =
                IF stats.successes < MaxPairs[v] THEN stats.successes ELSE MaxPairs[v]

\* The tables keep the first successes: a fused operation, once stored, stays
\* where it is with its target until the tables are reset, and only its count
\* of executions moves on.
StoredStays ==
  [][\A v \in Version : gFusionAttempts'[v] >= gFusionAttempts[v] =>
       \A i \in DOMAIN gFusionBuffer[v] :
         /\ i \in DOMAIN gFusionBuffer'[v]
         /\ gFusionBuffer'[v][i].Rip = gFusionBuffer[v][i].Rip
         /\ gFusionBuffer'[v][i].ExecutionCount >=
              gFusionBuffer[v][i].ExecutionCount]_fusionVars

===============================================================================
