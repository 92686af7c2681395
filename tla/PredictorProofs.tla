---------------------------- MODULE PredictorProofs ----------------------------
(***************************************************************************)
(* What PerformanceUnits promises of macro-op fusion and of the branch      *)
(* predictor, for every value of their constants, and of all its units      *)
(* together.                                                               *)
(***************************************************************************)
EXTENDS UnitProofs, Sequences

-------------------------------------------------------------------------------
(* Macro-op fusion                                                         *)

Stored == Fusion!Types \ {"None"}

OpType == [Rip : {p.rip : p \in Pairs}, TargetRip : {p.next : p \in Pairs},
           ComparisonType : {p.opcodes[1] : p \in Pairs}, ExecutionCount : Nat]

\* The tables of version v hold its first successes.
TablesOf(v) ==
  /\ gFusionPairs[v] \in Seq(Stored) /\ gFusionBuffer[v] \in Seq(OpType)
  /\ gFusionAttempts[v] \in Nat /\ gFusionSuccesses[v] \in 0 .. gFusionAttempts[v]
  /\ Len(gFusionPairs[v]) =
       IF gFusionSuccesses[v] < MaxPairs[v] THEN gFusionSuccesses[v] ELSE MaxPairs[v]
  /\ Len(gFusionBuffer[v]) =
       IF gFusionSuccesses[v] < BufferSize[v] THEN gFusionSuccesses[v] ELSE BufferSize[v]

FusionInv ==
  /\ DOMAIN gFusionPairs = Version /\ DOMAIN gFusionBuffer = Version
  /\ DOMAIN gFusionAttempts = Version /\ DOMAIN gFusionSuccesses = Version
  /\ \A v \in Version : TablesOf(v)
  /\ Fusion!ReportedIsFound

\* Both copies of the opcode tests accept the same pairs.
LEMMA FusableHasType ==
  ASSUME NEW o, Fusion!MacroOpFusionIsFusable(o)
  PROVE  Fusion!MacroOpFusionGetType(o) \in Stored
<1>. DEFINE j == Fusion!IsJcc(o[2], o[3])
<1>1. \/ j /\ o[1] \in Fusion!Compare
      \/ j /\ o[1] \in Fusion!Test
      \/ j /\ o[1] \in Fusion!IncDec
      \/ o[1] = Fusion!Lea /\ o[2] \in (0 .. 5) \cup Fusion!Group1
      \/ o[1] \in Fusion!Mov /\ o[2] \in Fusion!Compare
  BY DEF Fusion!MacroOpFusionIsFusable
<1>. HIDE DEF j
<1>. QED  BY <1>1 DEF Fusion!MacroOpFusionGetType, Stored, Fusion!Types, j

\* An entry is added at the end, or not at all when the table is full.
LEMMA AppendFacts ==
  ASSUME NEW T, NEW s \in Seq(T), NEW e \in T, NEW n \in Nat
  PROVE  LET r == IF Len(s) < n THEN Append(s, e) ELSE s
         IN  /\ r \in Seq(T) /\ Len(s) \in Nat
             /\ Len(r) = IF Len(s) < n THEN Len(s) + 1 ELSE Len(s)
             /\ \A i \in DOMAIN s : i \in DOMAIN r /\ r[i] = s[i]
             /\ Len(s) < n => Len(r) \in DOMAIN r /\ r[Len(r)] = e
OBVIOUS

LEMMA FusionStarts ==
  ASSUME Fusion!FusionAssumption, Fusion!Init
  PROVE  FusionInv
<1>1. ASSUME NEW v \in Version
      PROVE  TablesOf(v)
  <2>1. gFusionPairs[v] = <<>> /\ gFusionBuffer[v] = <<>>
        /\ gFusionAttempts[v] = 0 /\ gFusionSuccesses[v] = 0
        /\ MaxPairs[v] \in Nat /\ BufferSize[v] \in Nat
    BY DEF Fusion!Init, Fusion!FusionAssumption
  <2>. QED  BY <2>1 DEF TablesOf
<1>. QED  BY <1>1 DEF Fusion!Init, FusionInv, Fusion!ReportedIsFound

\* A reset empties the tables of one version and leaves those of the other.
LEMMA FusionResets ==
  ASSUME Fusion!FusionAssumption, FusionInv, NEW v \in Version, Fusion!Reset(v),
         v = Base => reported' = {}, v # Base => reported' = reported
  PROVE  /\ FusionInv'
         /\ gFusionAttempts'[v] = 0 /\ gFusionBuffer'[v] = <<>>
         /\ \A u \in Version : u # v => gFusionBuffer'[u] = gFusionBuffer[u]
<1>1. /\ gFusionPairs' = [gFusionPairs EXCEPT ![v] = <<>>]
      /\ gFusionBuffer' = [gFusionBuffer EXCEPT ![v] = <<>>]
      /\ gFusionAttempts' = [gFusionAttempts EXCEPT ![v] = 0]
      /\ gFusionSuccesses' = [gFusionSuccesses EXCEPT ![v] = 0]
      /\ DOMAIN gFusionPairs = Version /\ DOMAIN gFusionBuffer = Version
      /\ DOMAIN gFusionAttempts = Version /\ DOMAIN gFusionSuccesses = Version
  BY DEF Fusion!Reset, FusionInv
<1>2. /\ gFusionPairs'[v] = <<>> /\ gFusionBuffer'[v] = <<>>
      /\ gFusionAttempts'[v] = 0 /\ gFusionSuccesses'[v] = 0
      /\ MaxPairs[v] \in Nat /\ BufferSize[v] \in Nat
  BY <1>1 DEF Fusion!FusionAssumption
<1>3. ASSUME NEW u \in Version, u # v
      PROVE  /\ gFusionPairs'[u] = gFusionPairs[u] /\ gFusionBuffer'[u] = gFusionBuffer[u]
             /\ gFusionAttempts'[u] = gFusionAttempts[u]
             /\ gFusionSuccesses'[u] = gFusionSuccesses[u]
  BY <1>1, <1>3
<1>4. TablesOf(v)'
  BY <1>2 DEF TablesOf
<1>5. \A u \in Version : TablesOf(u)'
  BY <1>3, <1>4 DEF FusionInv, TablesOf
<1>6. Fusion!ReportedIsFound'
  <2>1. CASE v = Base
    BY <2>1 DEF Fusion!ReportedIsFound
  <2>2. CASE v # Base
    <3>1. gFusionBuffer'[Base] = gFusionBuffer[Base] /\ reported' = reported
      BY <1>3, <2>2 DEF Fusion!FusionAssumption
    <3>. QED  BY <3>1 DEF FusionInv, Fusion!ReportedIsFound, Fusion!Matching
  <2>. QED  BY <2>1, <2>2
<1>. QED  BY <1>1, <1>2, <1>3, <1>5, <1>6 DEF FusionInv

\* A fused pair is found unless the buffer is full, and nothing stored moves.
LEMMA FusionTries ==
  ASSUME Fusion!FusionAssumption, FusionInv, NEW v \in Version, NEW p \in Pairs,
         Fusion!TryFuse(v, p)
  PROVE  /\ FusionInv'
         /\ \A u \in Version : \A i \in DOMAIN gFusionBuffer[u] :
              i \in DOMAIN gFusionBuffer'[u] /\ gFusionBuffer'[u][i] = gFusionBuffer[u][i]
<1>1. /\ TablesOf(v) /\ MaxPairs[v] \in Nat /\ BufferSize[v] \in Nat
      /\ DOMAIN gFusionPairs = Version /\ DOMAIN gFusionBuffer = Version
      /\ DOMAIN gFusionAttempts = Version /\ DOMAIN gFusionSuccesses = Version
  BY DEF FusionInv, Fusion!FusionAssumption
<1>2. gFusionAttempts' = [gFusionAttempts EXCEPT ![v] = @ + 1]
  BY DEF Fusion!TryFuse, Fusion!Count
<1>3. ASSUME NEW u \in Version
      PROVE  gFusionAttempts'[u] = IF u = v THEN gFusionAttempts[v] + 1 ELSE gFusionAttempts[u]
  BY <1>1, <1>2
<1>4. CASE Fusion!MacroOpFusionIsFusable(p.opcodes)
  <2>. DEFINE type == Fusion!MacroOpFusionGetType(p.opcodes)  op == Fusion!FusedOp(p)
              pairs == IF Len(gFusionPairs[v]) < MaxPairs[v] THEN Append(gFusionPairs[v], type)
                                                             ELSE gFusionPairs[v]
              buffer == IF Len(gFusionBuffer[v]) < BufferSize[v]
                        THEN Append(gFusionBuffer[v], op) ELSE gFusionBuffer[v]
  <2>1. type \in Stored
    BY <1>4, FusableHasType
  <2>2. op \in OpType /\ op.Rip = p.rip
    BY DEF Fusion!FusedOp, OpType
  <2>3. /\ gFusionPairs' = [gFusionPairs EXCEPT ![v] = pairs]
        /\ gFusionBuffer' = [gFusionBuffer EXCEPT ![v] = buffer]
        /\ gFusionSuccesses' = [gFusionSuccesses EXCEPT ![v] = @ + 1]
        /\ reported' = IF v = Base THEN reported \cup {p.rip} ELSE reported
    BY <1>4 DEF Fusion!TryFuse, Fusion!AppendIn, Fusion!Count
  <2>4. gFusionPairs[v] \in Seq(Stored) /\ gFusionBuffer[v] \in Seq(OpType)
    BY <1>1 DEF TablesOf
  <2>. HIDE DEF type, op
  <2>5. /\ pairs \in Seq(Stored)
        /\ Len(pairs) = IF Len(gFusionPairs[v]) < MaxPairs[v] THEN Len(gFusionPairs[v]) + 1
                                                              ELSE Len(gFusionPairs[v])
    BY <1>1, <2>1, <2>4, AppendFacts
  <2>6. /\ buffer \in Seq(OpType)
        /\ Len(buffer) = IF Len(gFusionBuffer[v]) < BufferSize[v] THEN Len(gFusionBuffer[v]) + 1
                                                                  ELSE Len(gFusionBuffer[v])
        /\ \A i \in DOMAIN gFusionBuffer[v] : i \in DOMAIN buffer /\ buffer[i] = gFusionBuffer[v][i]
        /\ Len(gFusionBuffer[v]) < BufferSize[v] =>
             Len(buffer) \in DOMAIN buffer /\ buffer[Len(buffer)] = op
    BY <1>1, <2>2, <2>4, AppendFacts
  <2>. HIDE DEF pairs, buffer
  <2>7. /\ gFusionPairs'[v] = pairs /\ gFusionBuffer'[v] = buffer
        /\ gFusionSuccesses'[v] = gFusionSuccesses[v] + 1
    BY <1>1, <2>3
  <2>8. ASSUME NEW u \in Version, u # v
        PROVE  /\ gFusionPairs'[u] = gFusionPairs[u] /\ gFusionBuffer'[u] = gFusionBuffer[u]
               /\ gFusionSuccesses'[u] = gFusionSuccesses[u]
    BY <1>1, <2>3, <2>8
  <2>9. TablesOf(v)'
    <3>1. /\ gFusionAttempts'[v] = gFusionAttempts[v] + 1
          /\ gFusionAttempts[v] \in Nat /\ gFusionSuccesses[v] \in 0 .. gFusionAttempts[v]
      BY <1>1, <1>3 DEF TablesOf
    <3>2. /\ gFusionAttempts'[v] \in Nat /\ gFusionSuccesses'[v] \in 0 .. gFusionAttempts'[v]
      BY <2>7, <3>1
    <3>3. Len(gFusionPairs'[v]) =
            IF gFusionSuccesses'[v] < MaxPairs[v] THEN gFusionSuccesses'[v] ELSE MaxPairs[v]
      BY <1>1, <2>5, <2>7, <3>1 DEF TablesOf
    <3>4. Len(gFusionBuffer'[v]) =
            IF gFusionSuccesses'[v] < BufferSize[v] THEN gFusionSuccesses'[v] ELSE BufferSize[v]
      BY <1>1, <2>6, <2>7, <3>1 DEF TablesOf
    <3>. QED  BY <2>5, <2>6, <2>7, <3>2, <3>3, <3>4 DEF TablesOf
  <2>10. \A u \in Version : TablesOf(u)'
    BY <1>3, <2>8, <2>9 DEF FusionInv, TablesOf
  <2>11. \A u \in Version : \A i \in DOMAIN gFusionBuffer[u] :
           i \in DOMAIN gFusionBuffer'[u] /\ gFusionBuffer'[u][i] = gFusionBuffer[u][i]
    BY <2>6, <2>7, <2>8
  <2>12. Fusion!ReportedIsFound'
    <3>1. CASE v # Base
      <4>1. gFusionBuffer'[Base] = gFusionBuffer[Base] /\ reported' = reported
        BY <2>3, <2>8, <3>1 DEF Fusion!FusionAssumption
      <4>. QED  BY <4>1 DEF FusionInv, Fusion!ReportedIsFound, Fusion!Matching
    <3>2. CASE v = Base
      <4>. SUFFICES ASSUME NEW rip \in reported \cup {p.rip},
                           Len(gFusionBuffer'[Base]) # BufferSize[Base]
                    PROVE  \E i \in DOMAIN gFusionBuffer'[Base] :
                             gFusionBuffer'[Base][i].Rip = rip
        BY <2>3, <3>2 DEF Fusion!ReportedIsFound, Fusion!Matching
      <4>1. Len(gFusionBuffer[v]) < BufferSize[v]
        BY <1>1, <2>4, <2>6, <2>7, <3>2 DEF TablesOf
      <4>2. CASE rip = p.rip
        BY <2>2, <2>6, <2>7, <3>2, <4>1, <4>2
      <4>3. CASE rip \in reported
        <5>1. \E i \in DOMAIN gFusionBuffer[Base] : gFusionBuffer[Base][i].Rip = rip
          BY <3>2, <4>1, <4>3, <1>1, <2>4 DEF FusionInv, Fusion!ReportedIsFound, Fusion!Matching
        <5>. QED  BY <2>11, <3>2, <5>1
      <4>. QED  BY <4>2, <4>3
    <3>. QED  BY <3>1, <3>2
  <2>. QED  BY <1>1, <1>2, <2>3, <2>10, <2>11, <2>12 DEF FusionInv
<1>5. CASE ~Fusion!MacroOpFusionIsFusable(p.opcodes)
  <2>1. UNCHANGED <<gFusionPairs, gFusionBuffer, gFusionSuccesses, reported>>
    BY <1>5 DEF Fusion!TryFuse
  <2>2. ASSUME NEW u \in Version
        PROVE  TablesOf(u)'
    <3>1. TablesOf(u)
      BY DEF FusionInv
    <3>. QED  BY <1>3, <2>1, <3>1 DEF TablesOf
  <2>. QED  BY <1>1, <1>2, <2>1, <2>2 DEF FusionInv, Fusion!ReportedIsFound, Fusion!Matching
<1>. QED  BY <1>4, <1>5

LEMMA CountsAreNumbers ==
  ASSUME NEW v \in Version, TablesOf(v)
  PROVE  \A i \in DOMAIN gFusionBuffer[v] : gFusionBuffer[v][i].ExecutionCount \in Nat
<1>. DEFINE b == gFusionBuffer[v]
<1>1. b \in Seq(OpType)
  BY DEF TablesOf
<1>2. \A i \in DOMAIN b : b[i] \in OpType
  BY <1>1
<1>3. \A x \in OpType : x.ExecutionCount \in Nat
  BY DEF OpType
<1>. QED  BY <1>2, <1>3

\* A lookup finds an entry and counts one execution of it.
LEMMA FusionLooksUp ==
  ASSUME Fusion!FusionAssumption, FusionInv, NEW rip, Fusion!MacroOpFusionLookup(rip)
  PROVE  /\ FusionInv'
         /\ \A u \in Version : \A i \in DOMAIN gFusionBuffer[u] :
              /\ i \in DOMAIN gFusionBuffer'[u]
              /\ gFusionBuffer'[u][i].Rip = gFusionBuffer[u][i].Rip
              /\ gFusionBuffer'[u][i].ExecutionCount >= gFusionBuffer[u][i].ExecutionCount
<1>. DEFINE k == Fusion!Found(rip)
            b == gFusionBuffer[Base]
            e == [b[k] EXCEPT !.ExecutionCount = @ + 1]
            c == [b EXCEPT ![k] = e]
<1>1. Base \in Version /\ TablesOf(Base) /\ b \in Seq(OpType) /\ DOMAIN gFusionBuffer = Version
  BY DEF FusionInv, TablesOf, Fusion!FusionAssumption
<1>2. k \in DOMAIN b
  <2>1. Fusion!Matching(rip) # {} /\ Fusion!Matching(rip) \in SUBSET Nat
    BY <1>1 DEF Fusion!MacroOpFusionLookup, Fusion!Matching
  <2>2. \E i \in Fusion!Matching(rip) : \A j \in Fusion!Matching(rip) : i <= j
    BY <2>1, Least
  <2>. QED  BY <2>2 DEF Fusion!Found, Fusion!Matching
<1>3. gFusionBuffer' = [gFusionBuffer EXCEPT ![Base] = c]
      /\ UNCHANGED <<gFusionPairs, gFusionAttempts, gFusionSuccesses, reported>>
  BY DEF Fusion!MacroOpFusionLookup
<1>. HIDE DEF k
<1>4. b[k] \in OpType
  BY <1>1, <1>2
<1>5. e \in OpType /\ e.Rip = b[k].Rip /\ e.ExecutionCount >= b[k].ExecutionCount
  BY <1>4 DEF OpType
<1>. HIDE DEF e
<1>6. c \in Seq(OpType) /\ Len(c) = Len(b) /\ DOMAIN c = DOMAIN b
      /\ \A i \in DOMAIN b : c[i] = IF i = k THEN e ELSE b[i]
  BY <1>1, <1>2, <1>5
<1>. HIDE DEF c
<1>7. gFusionBuffer'[Base] = c /\ \A u \in Version : u # Base => gFusionBuffer'[u] = gFusionBuffer[u]
  BY <1>1, <1>3
<1>8. ASSUME NEW u \in Version
      PROVE  /\ TablesOf(u)'
             /\ \A i \in DOMAIN gFusionBuffer[u] :
                  /\ i \in DOMAIN gFusionBuffer'[u]
                  /\ gFusionBuffer'[u][i].Rip = gFusionBuffer[u][i].Rip
                  /\ gFusionBuffer'[u][i].ExecutionCount >= gFusionBuffer[u][i].ExecutionCount
  <2>1. TablesOf(u)
    BY DEF FusionInv
  <2>2. \A i \in DOMAIN gFusionBuffer[u] : gFusionBuffer[u][i].ExecutionCount \in Nat
    BY <2>1, CountsAreNumbers
  <2>3. CASE u = Base
    BY <1>3, <1>5, <1>6, <1>7, <2>1, <2>2, <2>3 DEF TablesOf
  <2>4. CASE u # Base
    BY <1>3, <1>7, <2>1, <2>2, <2>4 DEF TablesOf
  <2>. QED  BY <2>3, <2>4
<1>9. Fusion!ReportedIsFound'
  <2>. SUFFICES ASSUME NEW r \in reported, Len(c) # BufferSize[Base]
                PROVE  \E i \in DOMAIN c : c[i].Rip = r
    BY <1>3, <1>7 DEF Fusion!ReportedIsFound, Fusion!Matching
  <2>1. PICK i \in DOMAIN b : b[i].Rip = r
    BY <1>6 DEF FusionInv, Fusion!ReportedIsFound, Fusion!Matching
  <2>. QED  BY <1>5, <1>6, <2>1
<1>. QED  BY <1>1, <1>3, <1>8, <1>9 DEF FusionInv

\* What one step may do to the fused operations stored.
Stays == \A v \in Version : gFusionAttempts'[v] >= gFusionAttempts[v] =>
           \A i \in DOMAIN gFusionBuffer[v] :
             /\ i \in DOMAIN gFusionBuffer'[v]
             /\ gFusionBuffer'[v][i].Rip = gFusionBuffer[v][i].Rip
             /\ gFusionBuffer'[v][i].ExecutionCount >= gFusionBuffer[v][i].ExecutionCount

\* Unless its counters are reset, nothing happens to an operation.
LEMMA StaysUnchanged ==
  ASSUME FusionInv, NEW v \in Version,
         \A i \in DOMAIN gFusionBuffer[v] :
           i \in DOMAIN gFusionBuffer'[v] /\ gFusionBuffer'[v][i] = gFusionBuffer[v][i]
  PROVE  \A i \in DOMAIN gFusionBuffer[v] :
             /\ i \in DOMAIN gFusionBuffer'[v]
             /\ gFusionBuffer'[v][i].Rip = gFusionBuffer[v][i].Rip
             /\ gFusionBuffer'[v][i].ExecutionCount >= gFusionBuffer[v][i].ExecutionCount
BY CountsAreNumbers DEF FusionInv

\* A reset that does not lower the count of attempts finds nothing stored.
LEMMA ResetStays ==
  ASSUME Fusion!FusionAssumption, FusionInv, NEW v \in Version, Fusion!Reset(v),
         gFusionAttempts'[v] = 0, gFusionBuffer'[v] = <<>>,
         \A u \in Version : u # v => gFusionBuffer'[u] = gFusionBuffer[u]
  PROVE  Stays
<1>1. gFusionAttempts'[v] >= gFusionAttempts[v] => DOMAIN gFusionBuffer[v] = {}
  <2>1. TablesOf(v) /\ BufferSize[v] \in Nat
    BY DEF FusionInv, Fusion!FusionAssumption
  <2>2. gFusionAttempts[v] <= 0 => Len(gFusionBuffer[v]) = 0
    BY <2>1 DEF TablesOf
  <2>. QED  BY <2>1, <2>2 DEF TablesOf
<1>2. ASSUME NEW u \in Version, u # v
      PROVE  \A i \in DOMAIN gFusionBuffer[u] :
               i \in DOMAIN gFusionBuffer'[u] /\ gFusionBuffer'[u][i] = gFusionBuffer[u][i]
  BY <1>2
<1>. QED  BY <1>1, <1>2, StaysUnchanged DEF Stays

LEMMA NextFusion ==
  ASSUME Fusion!FusionAssumption, FusionInv, [Fusion!Next]_fusionVars
  PROVE  FusionInv' /\ Stays
<1>0. Base \in Version /\ V71 \in Version /\ Base # V71
  BY DEF Fusion!FusionAssumption
<1>1. CASE Fusion!MacroOpFusionInit
  <2>1. FusionInv' /\ gFusionAttempts'[Base] = 0 /\ gFusionBuffer'[Base] = <<>>
        /\ \A u \in Version : u # Base => gFusionBuffer'[u] = gFusionBuffer[u]
    BY <1>0, <1>1, FusionResets DEF Fusion!MacroOpFusionInit
  <2>. QED  BY <1>0, <1>1, <2>1, ResetStays DEF Fusion!MacroOpFusionInit
<1>2. CASE Fusion!MacroOpFusionV71Init
  <2>1. FusionInv' /\ gFusionAttempts'[V71] = 0 /\ gFusionBuffer'[V71] = <<>>
        /\ \A u \in Version : u # V71 => gFusionBuffer'[u] = gFusionBuffer[u]
    BY <1>0, <1>2, FusionResets DEF Fusion!MacroOpFusionV71Init
  <2>. QED  BY <1>0, <1>2, <2>1, ResetStays DEF Fusion!MacroOpFusionV71Init
<1>3. ASSUME NEW v \in Version, NEW p \in Pairs, Fusion!TryFuse(v, p)
      PROVE  FusionInv' /\ Stays
  BY <1>3, FusionTries, StaysUnchanged DEF Stays
<1>4. ASSUME NEW p \in Pairs, Fusion!MacroOpFusionTryFuse(p) \/ Fusion!MacroOpFusionV71TryFuse(p)
      PROVE  FusionInv' /\ Stays
  BY <1>0, <1>3, <1>4 DEF Fusion!MacroOpFusionTryFuse, Fusion!MacroOpFusionV71TryFuse
<1>5. ASSUME UNCHANGED <<gFusionPairs, gFusionBuffer, gFusionAttempts, gFusionSuccesses, reported>>
      PROVE  FusionInv' /\ Stays
  <2>1. FusionInv'
    BY <1>5 DEF FusionInv, TablesOf, Fusion!ReportedIsFound, Fusion!Matching
  <2>. QED  BY <1>5, <2>1, StaysUnchanged DEF Stays
<1>6. ASSUME NEW r \in Regions, Fusion!MacroOpFusionDboAnalyze(r[1], r[2])
      PROVE  FusionInv' /\ Stays
  BY <1>5, <1>6 DEF Fusion!MacroOpFusionDboAnalyze
<1>7. ASSUME NEW p \in Pairs, Fusion!MacroOpFusionLookup(p.rip)
      PROVE  FusionInv' /\ Stays
  BY <1>7, FusionLooksUp DEF Stays
<1>8. CASE UNCHANGED fusionVars
  BY <1>5, <1>8 DEF fusionVars
<1>. QED  BY <1>1, <1>2, <1>4, <1>6, <1>7, <1>8 DEF Fusion!Next

LEMMA StepOfFusion == [Next]_vars => [Fusion!Next]_fusionVars
<1>1. FusionStep => Fusion!Next
  BY DEF FusionStep
<1>2. [Next]_vars => FusionStep \/ UNCHANGED fusionVars
  BY DEF Next, vars, L0Step, IrqStep, GovStep, HmcStep, TageStep
<1>. QED  BY <1>1, <1>2

LEMMA FusionInvAlways == Spec => []FusionInv
<1>1. Fusion!FusionAssumption
  BY UnitsAssumption DEF UnitsAssumption
<1>2. Init => FusionInv
  BY <1>1, FusionStarts DEF Init
<1>3. FusionInv /\ [Next]_vars => FusionInv'
  BY <1>1, NextFusion, StepOfFusion
<1>. QED  BY <1>2, <1>3, PTL DEF Spec

\* A pair reported fused is found again unless the buffer is full, and what is
\* stored counts the successes and has a type.
THEOREM FusionAlways == Spec => []FusionFound
<1>1. ASSUME FusionInv
      PROVE  FusionFound
  <2>1. ASSUME NEW v \in Version
        PROVE  /\ \A i \in DOMAIN gFusionPairs[v] : gFusionPairs[v][i] # "None"
               /\ gFusionSuccesses[v] <= gFusionAttempts[v]
    BY <1>1 DEF FusionInv, TablesOf, Stored
  <2>. QED  BY <1>1, <2>1 DEF FusionInv, TablesOf, FusionFound, Fusion!StoredPairsTyped,
                             Fusion!MacroOpFusionGetStats
<1>. QED  BY <1>1, FusionInvAlways, PTL

LEMMA StoredStaysAlways == Spec => Fusion!StoredStays
<1>1. Fusion!FusionAssumption
  BY UnitsAssumption DEF UnitsAssumption
<1>2. FusionInv /\ [Next]_vars => [Stays]_Fusion!fusionVars
  BY <1>1, NextFusion, StepOfFusion
<1>. QED  BY <1>2, FusionInvAlways, PTL DEF Spec, Stays, Fusion!StoredStays

-------------------------------------------------------------------------------
(* The branch predictor                                                    *)

EntryType == [Valid : BOOLEAN, Tag : Tage!TagsUsed, Taken : BOOLEAN, Useful : 0 .. MaxUseful]
BranchType == [Valid : BOOLEAN, TargetRip : Nat, TargetAddress : Nat]

\* A valid entry e at place x of table t was learned from a branch that has it.
Learned(t, x, e) ==
  e.Valid => \E s \in Tage!Branches :
    Tage!TageIndex(s, t) = x /\ Tage!TageTag(s, t) = e.Tag /\ e.Taken \in outcomes[s]

\* A hit in the target buffer is the branch's last target.
LastTarget(r) ==
  Tage!BtbHit(r) => gBtb[Tage!BtbSlot(r)].TargetAddress = lastTarget[r]

TageTyped ==
  /\ gTageTables \in [Tage!Table -> [Tage!Index -> EntryType]]
  /\ gBtb \in [Tage!BtbIndex -> BranchType]
  /\ DOMAIN outcomes = Tage!Branches /\ DOMAIN lastTarget = Tage!Branches

Counted ==
  /\ gTagePredictions \in Nat /\ gTageCorrect \in Nat /\ gTageMispredictions \in Nat
  /\ gTageCorrect + gTageMispredictions <= gTagePredictions

TageInv ==
  /\ TageTyped /\ Counted
  /\ \A t \in Tage!Table : \A x \in Tage!Index : Learned(t, x, gTageTables[t][x])
  /\ \A r \in Tage!Branches : LastTarget(r)

-------------------------------------------------------------------------------

\* A non-empty set of numbers below a bound has one greatest member.
LEMMA GreatestOf ==
  ASSUME NEW n \in Nat, NEW s \in SUBSET (0 .. n), s # {}
  PROVE  Tage!Greatest(s) \in s /\ \A u \in s : u <= Tage!Greatest(s)
<1>. DEFINE flip == {n - i : i \in s}
<1>1. flip \in SUBSET Nat /\ flip # {}
  <2>1. \A i \in s : n - i \in Nat
    OBVIOUS
  <2>. QED  BY <2>1
<1>. HIDE DEF flip
<1>2. PICK k \in flip : \A l \in flip : k <= l
  BY <1>1, Least
<1>3. PICK m \in s : k = n - m
  BY DEF flip
<1>4. \A u \in s : u <= m
  BY <1>2, <1>3 DEF flip
<1>. QED  BY <1>3, <1>4 DEF Tage!Greatest

LEMMA LeastOf ==
  ASSUME NEW s \in SUBSET Nat, s # {}
  PROVE  Tage!Least(s) \in s
BY Least DEF Tage!Least

LEMMA BranchesAreNumbers ==
  ASSUME Tage!TageAssumption
  PROVE  /\ Tage!Branches \subseteq Nat /\ Rips \subseteq Tage!Branches
         /\ \A k \in Kernels : \A i \in DOMAIN k[2] :
              k[1] + 16 * (i - 1) \in Tage!Branches /\ k[2][i] \in Nat
<1>1. ASSUME NEW k \in Kernels, NEW i \in DOMAIN k[2]
      PROVE  k[1] + 16 * (i - 1) \in Nat /\ k[2][i] \in Nat
  BY DEF Tage!TageAssumption
<1>2. Tage!Branches = Rips \cup UNION {{k[1] + 16 * (i - 1) : i \in DOMAIN k[2]} : k \in Kernels}
  BY DEF Tage!Branches
<1>3. ASSUME NEW r \in Tage!Branches
      PROVE  r \in Nat
  <2>1. r \in Rips \/ \E k \in Kernels : \E i \in DOMAIN k[2] : r = k[1] + 16 * (i - 1)
    BY <1>2, Zenon
  <2>. QED  BY <1>1, <2>1 DEF Tage!TageAssumption
<1>4. ASSUME NEW k \in Kernels, NEW i \in DOMAIN k[2]
      PROVE  k[1] + 16 * (i - 1) \in Tage!Branches
  <2>1. k[1] + 16 * (i - 1) \in {k[1] + 16 * (j - 1) : j \in DOMAIN k[2]}
    OBVIOUS
  <2>. QED  BY <1>2, <2>1
<1>. QED  BY <1>1, <1>2, <1>3, <1>4

\* The index functions stay inside their tables.
LEMMA Indices ==
  ASSUME Tage!TageAssumption, NEW r \in Tage!Branches
  PROVE  /\ \A t \in Tage!Table : /\ Tage!TageIndex(r, t) \in Tage!Index
                                  /\ Tage!TageTag(r, t) \in Tage!TagsUsed
         /\ Tage!BtbSlot(r) \in Tage!BtbIndex
<1>1. r \in Nat
  BY BranchesAreNumbers
<1>2. ASSUME NEW t \in Tage!Table
      PROVE  Tage!TageIndex(r, t) \in Tage!Index
  BY <1>1 DEF Tage!TageAssumption, Tage!TageIndex, Tage!Index
<1>3. \A t \in Tage!Table : Tage!TageTag(r, t) \in Tage!TagsUsed
  BY DEF Tage!TagsUsed
<1>. QED  BY <1>1, <1>2, <1>3 DEF Tage!BtbSlot, Tage!BtbIndex, Tage!TageAssumption

LEMMA NewEntryType ==
  ASSUME Tage!TageAssumption, NEW r \in Tage!Branches, NEW t \in Tage!Table,
         NEW taken \in BOOLEAN, NEW useful \in {0, 2}
  PROVE  LET e == Tage!NewEntry(r, t, taken, useful)
         IN  /\ e \in EntryType /\ e.Valid /\ e.Tag = Tage!TageTag(r, t) /\ e.Taken = taken
<1>1. useful \in 0 .. MaxUseful /\ Tage!TageTag(r, t) \in Tage!TagsUsed
  BY Indices DEF Tage!TageAssumption
<1>. QED  BY <1>1 DEF Tage!NewEntry, EntryType

\* Training keeps the entry or turns it to the outcome it is given.
LEMMA TrainedType ==
  ASSUME Tage!TageAssumption, NEW e \in EntryType, NEW taken \in BOOLEAN
  PROVE  LET f == Tage!Trained(e, taken)
         IN  /\ f \in EntryType /\ f.Valid = e.Valid /\ f.Tag = e.Tag
             /\ f.Taken \in {e.Taken, taken}
<1>. DEFINE f == Tage!Trained(e, taken)
<1>0. MaxUseful \in Nat /\ e.Useful \in 0 .. MaxUseful
  BY DEF Tage!TageAssumption, EntryType
<1>1. CASE e.Taken = taken
  <2>. DEFINE u == IF e.Useful < MaxUseful THEN e.Useful + 1 ELSE e.Useful
  <2>1. u \in 0 .. MaxUseful
    BY <1>0
  <2>2. f = [e EXCEPT !.Useful = u]
    BY <1>1 DEF Tage!Trained
  <2>. HIDE DEF u, f
  <2>3. f \in EntryType /\ f.Valid = e.Valid /\ f.Tag = e.Tag /\ f.Taken = e.Taken
    BY <2>1, <2>2 DEF EntryType
  <2>. QED  BY <2>3 DEF f
<1>2. CASE e.Taken # taken /\ e.Useful > 0
  <2>1. e.Useful - 1 \in 0 .. MaxUseful
    BY <1>0, <1>2
  <2>2. f = [e EXCEPT !.Useful = e.Useful - 1]
    BY <1>2 DEF Tage!Trained
  <2>. HIDE DEF f
  <2>3. f \in EntryType /\ f.Valid = e.Valid /\ f.Tag = e.Tag /\ f.Taken = e.Taken
    BY <2>1, <2>2 DEF EntryType
  <2>. QED  BY <2>3 DEF f
<1>3. CASE e.Taken # taken /\ ~(e.Useful > 0)
  <2>1. f = [e EXCEPT !.Taken = taken]
    BY <1>3 DEF Tage!Trained
  <2>. HIDE DEF f
  <2>2. f \in EntryType /\ f.Valid = e.Valid /\ f.Tag = e.Tag /\ f.Taken = taken
    BY <2>1 DEF EntryType
  <2>. QED  BY <2>2 DEF f
<1>. QED  BY <1>1, <1>2, <1>3

\* Branches keep their histories, and their entries what they were learned from.
LEMMA StillLearned ==
  ASSUME NEW t, NEW x, NEW e, Learned(t, x, e),
         \A s \in Tage!Branches : outcomes[s] \subseteq outcomes'[s]
  PROVE  e.Valid => \E s \in Tage!Branches :
           Tage!TageIndex(s, t) = x /\ Tage!TageTag(s, t) = e.Tag /\ e.Taken \in outcomes'[s]
BY DEF Learned

LEMMA EmptyTage ==
  ASSUME Tage!TageAssumption
  PROVE  /\ Tage!NoEntry \in EntryType /\ ~Tage!NoEntry.Valid
         /\ Tage!NoBranch \in BranchType /\ ~Tage!NoBranch.Valid
BY DEF Tage!TageAssumption, Tage!NoEntry, Tage!NoBranch, EntryType, BranchType, Tage!TagsUsed

LEMMA TageStarts ==
  ASSUME Tage!TageAssumption, Tage!Init
  PROVE  TageInv
<1>1. TageTyped /\ Counted
  BY EmptyTage DEF Tage!Init, Tage!EmptyTables, Tage!EmptyBtb, TageTyped, Counted
<1>2. \A t \in Tage!Table : \A x \in Tage!Index : Learned(t, x, gTageTables[t][x])
  BY EmptyTage DEF Tage!Init, Tage!EmptyTables, Learned
<1>3. \A r \in Tage!Branches : LastTarget(r)
  BY EmptyTage, Indices DEF Tage!Init, Tage!EmptyBtb, LastTarget, Tage!BtbHit
<1>. QED  BY <1>1, <1>2, <1>3 DEF TageInv

LEMMA TageRestarts ==
  ASSUME Tage!TageAssumption, Tage!TagePredictorInit
  PROVE  TageInv'
<1>1. TageTyped' /\ Counted'
  BY EmptyTage DEF Tage!TagePredictorInit, Tage!EmptyTables, Tage!EmptyBtb, TageTyped, Counted
<1>2. \A t \in Tage!Table : \A x \in Tage!Index : Learned(t, x, gTageTables[t][x])'
  BY EmptyTage DEF Tage!TagePredictorInit, Tage!EmptyTables, Learned
<1>3. \A r \in Tage!Branches : LastTarget(r)'
  BY EmptyTage, Indices DEF Tage!TagePredictorInit, Tage!EmptyBtb, LastTarget, Tage!BtbHit
<1>. QED  BY <1>1, <1>2, <1>3 DEF TageInv

\* The tables after an update differ in one entry of a branch and a table, which
\* was learned from that branch.
LEMMA TablesUpdated ==
  ASSUME Tage!TageAssumption, TageInv, NEW rip \in Rips, NEW taken \in BOOLEAN,
         \/ Tage!Knowing(rip) # {} /\ Tage!Learn(rip, taken)
         \/ Tage!Replaceable(rip) # {} /\ Tage!Allocate(rip, taken)
         \/ Tage!Crowded
  PROVE  /\ \/ UNCHANGED gTageTables
            \/ \E t \in Tage!Table : \E e \in EntryType :
                 /\ gTageTables' = [gTageTables EXCEPT ![t][Tage!TageIndex(rip, t)] = e]
                 /\ e.Valid => e.Tag = Tage!TageTag(rip, t)
                 /\ e.Taken = taken \/ (/\ e.Taken = Tage!Entry(rip, t).Taken
                                        /\ Tage!Entry(rip, t).Valid = e.Valid
                                        /\ Tage!Entry(rip, t).Tag = e.Tag)
         /\ gTageCorrect' \in Nat /\ gTageMispredictions' \in Nat
         /\ gTageCorrect' + gTageMispredictions' <= gTagePredictions + 1
<1>0. /\ rip \in Tage!Branches /\ Tables - 1 \in Nat /\ Tage!Table = 0 .. Tables - 1
      /\ gTagePredictions \in Nat /\ gTageCorrect \in Nat /\ gTageMispredictions \in Nat
      /\ gTageCorrect + gTageMispredictions <= gTagePredictions
      /\ gTageTables \in [Tage!Table -> [Tage!Index -> EntryType]]
  <2>1. rip \in Tage!Branches
    BY BranchesAreNumbers
  <2>2. Tables - 1 \in Nat /\ Tage!Table = 0 .. Tables - 1
    BY DEF Tage!Table, Tage!TageAssumption
  <2>. QED  BY <2>1, <2>2 DEF TageInv, TageTyped, Counted
<1>1. CASE Tage!Knowing(rip) # {} /\ Tage!Learn(rip, taken)
  <2>. DEFINE t == Tage!Greatest(Tage!Knowing(rip))
              old == Tage!Entry(rip, t)
              e == Tage!Trained(old, taken)
  <2>1. t \in Tage!Knowing(rip)
    BY <1>0, <1>1, GreatestOf DEF Tage!Knowing
  <2>2. t \in Tage!Table /\ Tage!Knows(rip, t)
    BY <2>1 DEF Tage!Knowing
  <2>3. gTageTables' = [gTageTables EXCEPT ![t][Tage!TageIndex(rip, t)] = e]
    BY <1>0, <1>1 DEF Tage!Learn, Tage!Entry
  <2>10. /\ gTageCorrect' \in Nat /\ gTageMispredictions' \in Nat
         /\ gTageCorrect' + gTageMispredictions' <= gTagePredictions + 1
    <3>1. \/ gTageCorrect' = gTageCorrect + 1 /\ gTageMispredictions' = gTageMispredictions + 0
          \/ gTageCorrect' = gTageCorrect + 0 /\ gTageMispredictions' = gTageMispredictions + 1
      BY <1>1 DEF Tage!Learn
    <3>. QED  BY <1>0, <3>1
  <2>. HIDE DEF t
  <2>4. old \in EntryType
    BY <1>0, <2>2, Indices DEF Tage!Entry
  <2>5. e \in EntryType /\ e.Valid = old.Valid /\ e.Tag = old.Tag /\ e.Taken \in {old.Taken, taken}
    BY <2>4, TrainedType
  <2>6. old.Tag = Tage!TageTag(rip, t)
    BY <2>2 DEF Tage!Knows
  <2>. HIDE DEF e, old
  <2>7. e.Taken = taken \/ (e.Taken = old.Taken /\ old.Valid = e.Valid /\ old.Tag = e.Tag)
    BY <2>5
  <2>8. e.Taken = taken \/ (/\ e.Taken = Tage!Entry(rip, t).Taken
                             /\ Tage!Entry(rip, t).Valid = e.Valid
                             /\ Tage!Entry(rip, t).Tag = e.Tag)
    BY <2>7 DEF old
  <2>9. e.Valid => e.Tag = Tage!TageTag(rip, t)
    BY <2>5, <2>6
  <2>. QED  BY <2>2, <2>3, <2>5, <2>8, <2>9, <2>10, Zenon
<1>2. CASE Tage!Replaceable(rip) # {} /\ Tage!Allocate(rip, taken)
  <2>. DEFINE t == Tage!Least(Tage!Replaceable(rip))
              e == Tage!NewEntry(rip, t, taken, 0)
  <2>1. t \in Tage!Table
    <3>1. Tage!Replaceable(rip) \in SUBSET Nat /\ Tage!Replaceable(rip) \subseteq Tage!Table
      <4>1. Tage!Table \subseteq Nat
        BY <1>0
      <4>2. Tage!Replaceable(rip) \subseteq Tage!Table
        BY Zenon DEF Tage!Replaceable
      <4>. QED  BY <4>1, <4>2
    <3>. QED  BY <1>2, <3>1, LeastOf
  <2>2. gTageTables' = [gTageTables EXCEPT ![t][Tage!TageIndex(rip, t)] = e]
        /\ UNCHANGED <<gTageCorrect, gTageMispredictions>>
    BY <1>2 DEF Tage!Allocate
  <2>. HIDE DEF t
  <2>3. e \in EntryType /\ e.Tag = Tage!TageTag(rip, t) /\ e.Taken = taken
    BY <1>0, <2>1, NewEntryType
  <2>. HIDE DEF e
  <2>4. gTageCorrect' + gTageMispredictions' <= gTagePredictions + 1
        /\ gTageCorrect' \in Nat /\ gTageMispredictions' \in Nat
    BY <1>0, <2>2
  <2>. QED  BY <2>1, <2>2, <2>3, <2>4, Zenon
<1>3. CASE Tage!Crowded
  BY <1>0, <1>3 DEF Tage!Crowded
<1>. QED  BY <1>1, <1>2, <1>3

\* After an update every entry is still learned from a branch that has it.
LEMMA TageUpdates ==
  ASSUME Tage!TageAssumption, TageInv, NEW rip \in Rips, NEW taken \in BOOLEAN,
         NEW target \in Targets, Tage!TageUpdate(rip, taken, target)
  PROVE  TageInv'
<1>. DEFINE n == [Valid |-> TRUE, TargetRip |-> rip, TargetAddress |-> target]
<1>1. /\ rip \in Tage!Branches /\ Tage!Branches \subseteq Nat
      /\ rip \in Nat /\ target \in Nat /\ gTagePredictions \in Nat
      /\ Tage!BtbSlot(rip) \in Tage!BtbIndex /\ TageTyped
  BY BranchesAreNumbers, Indices DEF Tage!TageAssumption, TageInv, Counted
<1>2. /\ gTagePredictions' = gTagePredictions + 1
      /\ gBtb' = [gBtb EXCEPT ![Tage!BtbSlot(rip)] = n]
      /\ outcomes' = [outcomes EXCEPT ![rip] = @ \cup {taken}]
      /\ lastTarget' = [lastTarget EXCEPT ![rip] = target]
  BY DEF Tage!TageUpdate
<1>3. /\ \/ UNCHANGED gTageTables
         \/ \E t \in Tage!Table : \E e \in EntryType :
              /\ gTageTables' = [gTageTables EXCEPT ![t][Tage!TageIndex(rip, t)] = e]
              /\ e.Valid => e.Tag = Tage!TageTag(rip, t)
              /\ e.Taken = taken \/ (/\ e.Taken = Tage!Entry(rip, t).Taken
                                     /\ Tage!Entry(rip, t).Valid = e.Valid
                                     /\ Tage!Entry(rip, t).Tag = e.Tag)
      /\ gTageCorrect' \in Nat /\ gTageMispredictions' \in Nat
      /\ gTageCorrect' + gTageMispredictions' <= gTagePredictions + 1
  BY TablesUpdated DEF Tage!TageUpdate
<1>4. Counted'
  BY <1>1, <1>2, <1>3 DEF Counted
<1>5. \A s \in Tage!Branches : outcomes'[s] = IF s = rip THEN outcomes[s] \cup {taken} ELSE outcomes[s]
  BY <1>1, <1>2 DEF TageTyped
<1>6. n \in BranchType /\ n.Valid /\ n.TargetRip = rip /\ n.TargetAddress = target
  BY <1>1 DEF BranchType
<1>. HIDE DEF n
<1>7. gBtb' \in [Tage!BtbIndex -> BranchType]
      /\ DOMAIN outcomes' = Tage!Branches /\ DOMAIN lastTarget' = Tage!Branches
  BY <1>1, <1>2, <1>6 DEF TageTyped
<1>8. /\ gTageTables' \in [Tage!Table -> [Tage!Index -> EntryType]]
      /\ \A t \in Tage!Table : \A x \in Tage!Index : Learned(t, x, gTageTables[t][x])'
  <2>0. \A t \in Tage!Table : \A x \in Tage!Index : Learned(t, x, gTageTables[t][x])
    BY DEF TageInv
  <2>1. CASE UNCHANGED gTageTables
    BY <1>1, <1>5, <2>0, <2>1 DEF TageTyped, Learned
  <2>2. ASSUME NEW k \in Tage!Table, NEW e \in EntryType,
               gTageTables' = [gTageTables EXCEPT ![k][Tage!TageIndex(rip, k)] = e],
               e.Valid => e.Tag = Tage!TageTag(rip, k),
               e.Taken = taken \/ (/\ e.Taken = Tage!Entry(rip, k).Taken
                                  /\ Tage!Entry(rip, k).Valid = e.Valid
                                  /\ Tage!Entry(rip, k).Tag = e.Tag)
        PROVE  /\ gTageTables' \in [Tage!Table -> [Tage!Index -> EntryType]]
               /\ \A t \in Tage!Table : \A x \in Tage!Index : Learned(t, x, gTageTables[t][x])'
    <3>. DEFINE y == Tage!TageIndex(rip, k)
    <3>1. y \in Tage!Index
      BY <1>1, Indices
    <3>2. gTageTables \in [Tage!Table -> [Tage!Index -> EntryType]]
      BY <1>1 DEF TageTyped
    <3>3. gTageTables' \in [Tage!Table -> [Tage!Index -> EntryType]]
      BY <2>2, <3>1, <3>2
    <3>4. ASSUME NEW t \in Tage!Table, NEW x \in Tage!Index
          PROVE  gTageTables'[t][x] = IF t = k /\ x = y THEN e ELSE gTageTables[t][x]
      BY <2>2, <3>1, <3>2
    <3>5. ASSUME e.Valid
          PROVE  \E s \in Tage!Branches :
                   /\ Tage!TageIndex(s, k) = y /\ Tage!TageTag(s, k) = e.Tag
                   /\ e.Taken \in outcomes'[s]
      <4>1. CASE e.Taken = taken
        BY <1>1, <1>5, <2>2, <3>5, <4>1
      <4>2. CASE e.Taken # taken
        <5>1. Learned(k, y, Tage!Entry(rip, k))
          BY <2>0, <3>1 DEF Tage!Entry
        <5>. QED  BY <1>5, <2>2, <3>5, <4>2, <5>1 DEF Learned
      <4>. QED  BY <4>1, <4>2
    <3>6. ASSUME NEW t \in Tage!Table, NEW x \in Tage!Index
          PROVE  Learned(t, x, gTageTables[t][x])'
      <4>1. CASE t = k /\ x = y
        BY <3>4, <3>5, <4>1 DEF Learned
      <4>2. CASE ~(t = k /\ x = y)
        <5>1. gTageTables'[t][x] = gTageTables[t][x] /\ Learned(t, x, gTageTables[t][x])
          BY <2>0, <3>4, <4>2
        <5>. QED  BY <1>5, <5>1 DEF Learned
      <4>. QED  BY <4>1, <4>2
    <3>. QED  BY <3>3, <3>6
  <2>. QED  BY <1>3, <2>1, <2>2
<1>9. ASSUME NEW r \in Tage!Branches
      PROVE  LastTarget(r)'
  <2>1. Tage!BtbSlot(r) \in Tage!BtbIndex /\ LastTarget(r)
    BY Indices DEF TageInv
  <2>2. lastTarget'[r] = IF r = rip THEN target ELSE lastTarget[r]
    BY <1>1, <1>2 DEF TageTyped
  <2>3. gBtb'[Tage!BtbSlot(r)] = IF Tage!BtbSlot(r) = Tage!BtbSlot(rip) THEN n
                                 ELSE gBtb[Tage!BtbSlot(r)]
    BY <1>1, <1>2, <2>1 DEF TageTyped
  <2>. QED  BY <1>6, <2>1, <2>2, <2>3 DEF LastTarget, Tage!BtbHit
<1>. QED  BY <1>4, <1>7, <1>8, <1>9 DEF TageInv, TageTyped

\* The last branch of a kernel that lies at a place is the one that stays there.
LEMMA LastOfKernel ==
  ASSUME Tage!TageAssumption, NEW k \in Kernels, NEW S \in SUBSET DOMAIN k[2], S # {}
  PROVE  /\ Tage!Greatest(S) \in S /\ \A j \in S : j <= Tage!Greatest(S)
         /\ \A R \in SUBSET S : Tage!Greatest(S) \in R => Tage!Greatest(R) = Tage!Greatest(S)
<1>1. k[2] \in Seq(Nat) /\ Len(k[2]) \in Nat /\ DOMAIN k[2] = 1 .. Len(k[2])
  BY DEF Tage!TageAssumption
<1>2. S \in SUBSET (0 .. Len(k[2]))
  BY <1>1
<1>3. Tage!Greatest(S) \in S /\ \A j \in S : j <= Tage!Greatest(S)
  BY <1>1, <1>2, GreatestOf
<1>4. ASSUME NEW R \in SUBSET S, Tage!Greatest(S) \in R
      PROVE  Tage!Greatest(R) = Tage!Greatest(S)
  <2>1. Tage!Greatest(R) \in R /\ \A j \in R : j <= Tage!Greatest(R)
    BY <1>1, <1>2, <1>4, GreatestOf
  <2>2. Tage!Greatest(S) <= Tage!Greatest(R) /\ Tage!Greatest(R) <= Tage!Greatest(S)
    BY <1>3, <1>4, <2>1
  <2>3. Tage!Greatest(S) \in Int /\ Tage!Greatest(R) \in Int
    BY <1>2, <1>3, <2>1
  <2>. QED  BY <2>2, <2>3
<1>. QED  BY <1>3, <1>4

\* A pre-filled kernel teaches every table its branches at once.
LEMMA TagePrefills ==
  ASSUME Tage!TageAssumption, TageInv, NEW k \in Kernels,
         Tage!TagePrefillKernel(k[1], k[2])
  PROVE  TageInv'
<1>. DEFINE targets == k[2]
            At(i) == k[1] + 16 * (i - 1)
            In(t, x) == {i \in DOMAIN targets : Tage!TageIndex(At(i), t) = x}
            Place(b) == {i \in DOMAIN targets : Tage!BtbSlot(At(i)) = b}
            Named(r) == {i \in DOMAIN targets : At(i) = r}
            learned(t, x) == LET i == Tage!Greatest(In(t, x))
                             IN  Tage!NewEntry(At(i), t, targets[i] > At(i), 2)
            filled(b) == LET i == Tage!Greatest(Place(b))
                         IN  [Valid |-> TRUE, TargetRip |-> At(i), TargetAddress |-> targets[i]]
<1>1. /\ gTageTables' = [t \in Tage!Table |-> [x \in Tage!Index |->
            IF In(t, x) = {} THEN gTageTables[t][x] ELSE learned(t, x)]]
      /\ gBtb' = [b \in Tage!BtbIndex |-> IF Place(b) = {} THEN gBtb[b] ELSE filled(b)]
      /\ outcomes' = [r \in Tage!Branches |-> outcomes[r] \cup {targets[i] > r : i \in Named(r)}]
      /\ lastTarget' = [r \in Tage!Branches |->
            IF Named(r) = {} THEN lastTarget[r] ELSE targets[Tage!Greatest(Named(r))]]
      /\ UNCHANGED <<gTagePredictions, gTageCorrect, gTageMispredictions>>
  BY DEF Tage!TagePrefillKernel, Tage!statistics
<1>2. \A i \in DOMAIN targets : At(i) \in Tage!Branches /\ targets[i] \in Nat
  BY BranchesAreNumbers
<1>3. Tage!Branches \subseteq Nat /\ TageTyped
  BY BranchesAreNumbers DEF TageInv
<1>. HIDE DEF At
<1>4. ASSUME NEW t \in Tage!Table, NEW x \in Tage!Index, In(t, x) # {}
      PROVE  /\ learned(t, x) \in EntryType
             /\ \E s \in Tage!Branches :
                  /\ Tage!TageIndex(s, t) = x /\ Tage!TageTag(s, t) = learned(t, x).Tag
                  /\ learned(t, x).Taken \in outcomes'[s]
  <2>. DEFINE i == Tage!Greatest(In(t, x))  up == targets[i] > At(i)
  <2>1. i \in In(t, x)
    BY <1>4, LastOfKernel
  <2>2. i \in DOMAIN targets /\ Tage!TageIndex(At(i), t) = x /\ At(i) \in Tage!Branches
    BY <1>2, <2>1
  <2>3. up \in BOOLEAN /\ 2 \in {0, 2}
    OBVIOUS
  <2>4. learned(t, x) = Tage!NewEntry(At(i), t, up, 2)
    OBVIOUS
  <2>5. up \in outcomes'[At(i)]
    <3>1. i \in Named(At(i))
      BY <2>2
    <3>2. outcomes'[At(i)] = outcomes[At(i)] \cup {targets[j] > At(i) : j \in Named(At(i))}
      BY <1>1, <2>2
    <3>. QED  BY <3>1, <3>2
  <2>. HIDE DEF i, up, learned
  <2>6. /\ learned(t, x) \in EntryType /\ learned(t, x).Tag = Tage!TageTag(At(i), t)
        /\ learned(t, x).Taken = up
    BY <2>2, <2>3, <2>4, NewEntryType
  <2>. QED  BY <2>2, <2>5, <2>6
<1>5. ASSUME NEW b \in Tage!BtbIndex, Place(b) # {}
      PROVE  LET i == Tage!Greatest(Place(b))
             IN  /\ filled(b) \in BranchType /\ i \in Place(b)
                 /\ filled(b).TargetRip = At(i) /\ filled(b).TargetAddress = targets[i]
                 /\ \A R \in SUBSET Place(b) : i \in R => Tage!Greatest(R) = i
  <2>. DEFINE i == Tage!Greatest(Place(b))
  <2>1. i \in Place(b) /\ \A R \in SUBSET Place(b) : i \in R => Tage!Greatest(R) = i
    BY <1>5, LastOfKernel
  <2>2. At(i) \in Nat /\ targets[i] \in Nat
    BY <1>2, <1>3, <2>1
  <2>. HIDE DEF i
  <2>3. [Valid |-> TRUE, TargetRip |-> At(i), TargetAddress |-> targets[i]] \in BranchType
    BY <2>2 DEF BranchType
  <2>. QED  BY <2>1, <2>3 DEF i
<1>6. ASSUME NEW r \in Tage!Branches
      PROVE  LastTarget(r)'
  <2>. DEFINE b == Tage!BtbSlot(r)
  <2>1. b \in Tage!BtbIndex /\ LastTarget(r) /\ Named(r) \subseteq Place(b)
    BY Indices DEF TageInv
  <2>2. lastTarget'[r] = IF Named(r) = {} THEN lastTarget[r]
                         ELSE targets[Tage!Greatest(Named(r))]
    BY <1>1
  <2>3. gBtb'[b] = IF Place(b) = {} THEN gBtb[b] ELSE filled(b)
    BY <1>1, <2>1
  <2>4. CASE Place(b) = {}
    BY <2>1, <2>2, <2>3, <2>4 DEF LastTarget, Tage!BtbHit
  <2>5. CASE Place(b) # {}
    <3>. DEFINE i == Tage!Greatest(Place(b))
    <3>1. /\ i \in Place(b) /\ gBtb'[b].TargetRip = At(i) /\ gBtb'[b].TargetAddress = targets[i]
          /\ i \in Named(r) => Tage!Greatest(Named(r)) = i
      BY <1>5, <2>1, <2>3, <2>5
    <3>. HIDE DEF i, filled
    <3>2. At(i) = r => i \in Named(r)
      BY <3>1
    <3>. QED  BY <2>2, <3>1, <3>2 DEF LastTarget, Tage!BtbHit
  <2>. QED  BY <2>4, <2>5
<1>. HIDE DEF learned, filled
<1>7. gBtb' \in [Tage!BtbIndex -> BranchType]
  BY <1>1, <1>3, <1>5 DEF TageTyped
<1>8. ASSUME NEW t \in Tage!Table, NEW x \in Tage!Index
      PROVE  gTageTables'[t][x] \in EntryType /\ Learned(t, x, gTageTables[t][x])'
  <2>1. gTageTables'[t][x] = IF In(t, x) = {} THEN gTageTables[t][x] ELSE learned(t, x)
    BY <1>1
  <2>2. CASE In(t, x) = {}
    <3>1. gTageTables'[t][x] = gTageTables[t][x] /\ gTageTables[t][x] \in EntryType
          /\ Learned(t, x, gTageTables[t][x])
      BY <1>3, <2>1, <2>2 DEF TageInv, TageTyped
    <3>2. \A s \in Tage!Branches : outcomes[s] \subseteq outcomes'[s]
      BY <1>1
    <3>. QED  BY <3>1, <3>2 DEF Learned
  <2>3. CASE In(t, x) # {}
    BY <1>4, <2>1, <2>3 DEF Learned
  <2>. QED  BY <2>2, <2>3
<1>9. gTageTables' \in [Tage!Table -> [Tage!Index -> EntryType]]
  BY <1>1, <1>8
<1>10. DOMAIN outcomes' = Tage!Branches /\ DOMAIN lastTarget' = Tage!Branches /\ Counted'
  BY <1>1 DEF TageInv, Counted
<1>. QED  BY <1>6, <1>7, <1>8, <1>9, <1>10 DEF TageInv, TageTyped

LEMMA NextTage ==
  ASSUME Tage!TageAssumption, TageInv, [Tage!Next]_tageVars
  PROVE  TageInv'
<1>1. CASE UNCHANGED tageVars
  BY <1>1 DEF tageVars, TageInv, TageTyped, Counted, Learned, LastTarget, Tage!BtbHit
<1>. QED  BY <1>1, TageRestarts, TageUpdates, TagePrefills DEF Tage!Next

LEMMA StepOfTage == [Next]_vars => [Tage!Next]_tageVars
<1>1. TageStep => Tage!Next
  BY DEF TageStep
<1>2. [Next]_vars => TageStep \/ UNCHANGED tageVars
  BY DEF Next, vars, L0Step, IrqStep, GovStep, HmcStep, FusionStep
<1>. QED  BY <1>1, <1>2

LEMMA TageInvAlways == Spec => []TageInv
<1>1. Tage!TageAssumption
  BY UnitsAssumption DEF UnitsAssumption
<1>2. Init => TageInv
  BY <1>1, TageStarts DEF Init
<1>3. TageInv /\ [Next]_vars => TageInv'
  BY <1>1, NextTage, StepOfTage
<1>. QED  BY <1>2, <1>3, PTL DEF Spec

\* A branch that shares no tag is predicted its way by every table that knows
\* it, because the entry can only have been learned from it.
LEMMA SteadyIsLearned ==
  ASSUME Tage!TageAssumption, TageInv
  PROVE  Tage!SteadyBranchLearned
<1>. SUFFICES ASSUME NEW r \in Tage!Branches, NEW d \in BOOLEAN, outcomes[r] = {d},
                     \A s \in Tage!Branches : ~Tage!Aliases(r, s), Tage!Knowing(r) # {}
              PROVE  Tage!TagePredict(r).taken = d
  BY DEF Tage!SteadyBranchLearned
<1>. DEFINE t == Tage!Greatest(Tage!Knowing(r))
<1>1. t \in Tage!Table /\ Tage!Knows(r, t)
  <2>1. Tables - 1 \in Nat /\ Tage!Knowing(r) \in SUBSET (0 .. Tables - 1)
    BY DEF Tage!Knowing, Tage!Table, Tage!TageAssumption
  <2>2. t \in Tage!Knowing(r)
    BY <2>1, GreatestOf
  <2>. QED  BY <2>2 DEF Tage!Knowing
<1>2. Tage!TagePredict(r).taken = Tage!Entry(r, t).Taken
  BY DEF Tage!TagePredict
<1>. HIDE DEF t
<1>3. Tage!TageIndex(r, t) \in Tage!Index
  BY <1>1, Indices
<1>4. Learned(t, Tage!TageIndex(r, t), Tage!Entry(r, t))
  BY <1>1, <1>3 DEF TageInv, Tage!Entry
<1>5. PICK s \in Tage!Branches :
        /\ Tage!TageIndex(s, t) = Tage!TageIndex(r, t)
        /\ Tage!TageTag(s, t) = Tage!TageTag(r, t) /\ Tage!Entry(r, t).Taken \in outcomes[s]
  BY <1>1, <1>4 DEF Learned, Tage!Knows
<1>6. s = r
  BY <1>1, <1>5 DEF Tage!Aliases
<1>. QED  BY <1>2, <1>5, <1>6

\* A branch that always went one way is predicted that way by what was learned
\* from it, and every predicted target is the branch's own.
THEOREM BranchesAlways == Spec => []BranchesLearned
<1>1. Tage!TageAssumption
  BY UnitsAssumption DEF UnitsAssumption
<1>2. ASSUME TageInv
      PROVE  Tage!TargetIsLast
  BY <1>2 DEF TageInv, LastTarget, Tage!TargetIsLast, Tage!TagePredict
<1>3. TageInv => BranchesLearned
  BY <1>1, <1>2, SteadyIsLearned DEF BranchesLearned
<1>. QED  BY <1>3, TageInvAlways, PTL

-------------------------------------------------------------------------------
(* The units together                                                      *)

\* An L0 invalidation reaches every unit, an interrupt is dropped only from a
\* full table, and a fused operation stays until a reset.
THEOREM NothingLostAlways == Spec => NothingLost
BY InvalidationReaches, DropsWhenFull, StoredStaysAlways, PTL DEF NothingLost

\* Every unit keeps its types.
THEOREM UnitTypes == Spec => []TypeOK
<1>1. L0Inv => L0!TypeOK
  BY DEF L0Inv, CacheSound, CacheType, LineType, L0!TypeOK
<1>2. IrqInv => Irq!TypeOK
  BY DEF IrqInv
<1>3. GovernorInv => Gov!TypeOK
  BY GovernorInvGives
<1>4. CompressorInv => Hmc!TypeOK
  BY DEF CompressorInv, Hmc!TypeOK
<1>5. TageInv => Tage!TypeOK
  <2>. SUFFICES ASSUME TageInv PROVE Tage!TypeOK
    OBVIOUS
  <2>1. gTageCorrect + gTageMispredictions \in 0 .. gTagePredictions
    BY DEF TageInv, Counted
  <2>. QED  BY <2>1 DEF TageInv, TageTyped, EntryType, BranchType, Tage!TypeOK, Tage!TageGetStats
<1>6. FusionInv => Fusion!TypeOK
  <2>. SUFFICES ASSUME FusionInv, NEW v \in Version
                PROVE  /\ gFusionPairs[v] \in Seq(Fusion!Types)
                       /\ Len(gFusionPairs[v]) <= MaxPairs[v]
                       /\ Len(gFusionBuffer[v]) <= BufferSize[v]
                       /\ gFusionSuccesses[v] \in 0 .. gFusionAttempts[v]
    BY DEF Fusion!TypeOK
  <2>1. TablesOf(v) /\ MaxPairs[v] \in Nat /\ BufferSize[v] \in Nat
    BY UnitsAssumption DEF UnitsAssumption, Fusion!FusionAssumption, FusionInv
  <2>2. gFusionPairs[v] \in Seq(Fusion!Types)
    BY <2>1 DEF TablesOf, Stored
  <2>. QED  BY <2>1, <2>2 DEF TablesOf
<1>7. L0Inv /\ IrqInv /\ GovernorInv /\ CompressorInv /\ TageInv /\ FusionInv => TypeOK
  BY <1>1, <1>2, <1>3, <1>4, <1>5, <1>6 DEF TypeOK
<1>. QED  BY <1>7, L0InvAlways, IrqInvAlways, GovernorInvAlways, CompressorInvAlways,
             TageInvAlways, FusionInvAlways, PTL

===============================================================================
