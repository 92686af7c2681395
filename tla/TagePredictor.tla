----------------------------- MODULE TagePredictor -----------------------------
(***************************************************************************)
(* The branch predictor, performance/tage/tagepredictor.c: tagged tables,  *)
(* looked up from the last to the first, and a branch target buffer that   *)
(* gives the target and, when no table knows the branch, the answer        *)
(* "taken".                                                                *)
(*                                                                         *)
(* Addresses are integers and the indices and tags are the code's          *)
(* functions of them, with the sizes as parameters.  MaxUpdates bounds the *)
(* updates counted since the last initialisation.                          *)
(***************************************************************************)
EXTENDS Integers, Sequences, FiniteSets

CONSTANTS
  Tables,       \* TAGE_TABLE_COUNT
  Entries,      \* TAGE_ENTRIES_PER_TABLE
  TagBits,      \* TAGE_TAG_BITS
  BtbEntries,   \* BTB_ENTRIES
  MaxUseful,    \* 7, the largest value of Useful
  Rips, Targets,
  Kernels,      \* <<KernelBase, BranchTargets>> of the calls that pre-fill
  MaxUpdates

Table    == 0 .. Tables - 1
Index    == 0 .. Entries - 1
BtbIndex == 0 .. BtbEntries - 1

\* Addresses are natural numbers.  The last conjunct is a fact of arithmetic
\* that the provers do not know.
TageAssumption ==
  /\ Tables \in Nat \ {0} /\ Entries \in Nat \ {0} /\ BtbEntries \in Nat \ {0}
  /\ TagBits \in Nat /\ MaxUseful \in Nat \ {0, 1} /\ MaxUpdates \in Nat
  /\ Rips \subseteq Nat /\ Targets \subseteq Nat
  /\ \A k \in Kernels : k[1] \in Nat /\ k[2] \in Seq(Nat)
  /\ \A t \in Table : 2^(4 * t + 2) \in Nat \ {0}

VARIABLES
  gTageTables, gBtb,
  gTagePredictions, gTageCorrect, gTageMispredictions,
  outcomes,     \* the directions each branch was given since the initialisation
  lastTarget    \* the target each branch was given last

statistics == <<gTagePredictions, gTageCorrect, gTageMispredictions>>
tageVars   == <<gTageTables, gBtb, statistics, outcomes, lastTarget>>

NoEntry == [Valid |-> FALSE, Tag |-> 0, Taken |-> FALSE, Useful |-> 0]
NoBranch == [Valid |-> FALSE, TargetRip |-> 0, TargetAddress |-> 0]

TageIndex(rip, t) == (rip \div 2^(4 * t + 2)) % Entries

\* C's ^ on natural numbers.
Xor[a \in Nat, b \in Nat] ==
  IF a = 0 THEN b ELSE ((a + b) % 2) + 2 * Xor[a \div 2, b \div 2]

TageTag(rip, t)   == Xor[rip \div 2^(4 * t + 6), rip % 2^TagBits]
BtbSlot(rip)      == rip % BtbEntries

\* The branches whose history is kept: those updated and those pre-filled.
Branches == Rips \cup UNION {{k[1] + 16 * (i - 1) : i \in DOMAIN k[2]} : k \in Kernels}

-------------------------------------------------------------------------------

EmptyTables == [t \in Table |-> [x \in Index |-> NoEntry]]
EmptyBtb    == [b \in BtbIndex |-> NoBranch]

Init ==
  /\ gTageTables = EmptyTables /\ gBtb = EmptyBtb
  /\ gTagePredictions = 0 /\ gTageCorrect = 0 /\ gTageMispredictions = 0
  /\ outcomes = [r \in Branches |-> {}]
  /\ lastTarget = [r \in Branches |-> 0]

TagePredictorInit ==
  /\ gTageTables' = EmptyTables /\ gBtb' = EmptyBtb
  /\ gTagePredictions' = 0 /\ gTageCorrect' = 0 /\ gTageMispredictions' = 0
  /\ outcomes' = [r \in Branches |-> {}]
  /\ lastTarget' = [r \in Branches |-> 0]

Entry(rip, t) == gTageTables[t][TageIndex(rip, t)]

Knows(rip, t) == Entry(rip, t).Valid /\ Entry(rip, t).Tag = TageTag(rip, t)

Knowing(rip) == {t \in Table : Knows(rip, t)}

Greatest(S) == CHOOSE t \in S : \A u \in S : u <= t
Least(S)    == CHOOSE t \in S : \A u \in S : t <= u

\* Mutant of BtbHit: the address in the entry is not compared.
BtbHitAny(rip) == gBtb[BtbSlot(rip)].Valid

BtbHit(rip) == gBtb[BtbSlot(rip)].Valid /\ gBtb[BtbSlot(rip)].TargetRip = rip

TagePredict(rip) ==
  [taken  |-> IF Knowing(rip) # {} THEN Entry(rip, Greatest(Knowing(rip))).Taken
                                   ELSE BtbHit(rip),
   target |-> IF BtbHit(rip) THEN gBtb[BtbSlot(rip)].TargetAddress ELSE rip + 4]

\* Mutant of Trained: the direction is inverted at the end of the count.
TrainedAway(e, taken) ==
  IF e.Taken = taken THEN [e EXCEPT !.Useful = (@ + 1) % (MaxUseful + 1),
                                    !.Taken = IF e.Useful = MaxUseful THEN ~@ ELSE @]
  ELSE IF e.Useful > 0 THEN [e EXCEPT !.Useful = @ - 1]
  ELSE [e EXCEPT !.Taken = taken]

Trained(e, taken) ==
  IF e.Taken = taken THEN [e EXCEPT !.Useful = IF @ < MaxUseful THEN @ + 1 ELSE @]
  ELSE IF e.Useful > 0 THEN [e EXCEPT !.Useful = @ - 1]
  ELSE [e EXCEPT !.Taken = taken]

Replaceable(rip) == {t \in Table : ~Entry(rip, t).Valid \/ Entry(rip, t).Useful = 0}

NewEntry(rip, t, taken, useful) ==
  [Valid |-> TRUE, Tag |-> TageTag(rip, t), Taken |-> taken, Useful |-> useful]

Learn(rip, taken) ==
  LET t == Greatest(Knowing(rip))
      right == Entry(rip, t).Taken = taken
  IN  /\ gTageTables' = [gTageTables EXCEPT ![t][TageIndex(rip, t)] = Trained(@, taken)]
      /\ gTageCorrect' = gTageCorrect + (IF right THEN 1 ELSE 0)
      /\ gTageMispredictions' = gTageMispredictions + (IF right THEN 0 ELSE 1)

Allocate(rip, taken) ==
  LET t == Least(Replaceable(rip))
  IN  /\ gTageTables' = [gTageTables EXCEPT ![t][TageIndex(rip, t)] =
                           NewEntry(rip, t, taken, 0)]
      /\ UNCHANGED <<gTageCorrect, gTageMispredictions>>

\* Every table has a useful entry of another branch where this one would go.
Crowded == UNCHANGED <<gTageTables, gTageCorrect, gTageMispredictions>>

TageUpdate(rip, taken, target) ==
  /\ gTagePredictions < MaxUpdates
  /\ gTagePredictions' = gTagePredictions + 1
  /\ \/ Knowing(rip) # {} /\ Learn(rip, taken)
     \/ Knowing(rip) = {} /\ Replaceable(rip) # {} /\ Allocate(rip, taken)
     \/ Knowing(rip) = {} /\ Replaceable(rip) = {} /\ Crowded
  /\ gBtb' = [gBtb EXCEPT ![BtbSlot(rip)] =
                [Valid |-> TRUE, TargetRip |-> rip, TargetAddress |-> target]]
  /\ outcomes' = [outcomes EXCEPT ![rip] = @ \cup {taken}]
  /\ lastTarget' = [lastTarget EXCEPT ![rip] = target]

\* Branch i of the kernel lies at KernelBase + 16 i; where two of them share
\* an entry the later one stays.
TagePrefillKernel(base, targets) ==
  LET At(i) == base + 16 * (i - 1)
      In(t, x) == {i \in DOMAIN targets : TageIndex(At(i), t) = x}
      Slot(b) == {i \in DOMAIN targets : BtbSlot(At(i)) = b}
      Named(r) == {i \in DOMAIN targets : At(i) = r}
  IN  /\ gTageTables' = [t \in Table |-> [x \in Index |->
            IF In(t, x) = {} THEN gTageTables[t][x]
            ELSE LET i == Greatest(In(t, x))
                 IN  NewEntry(At(i), t, targets[i] > At(i), 2)]]
      /\ gBtb' = [b \in BtbIndex |->
            IF Slot(b) = {} THEN gBtb[b]
            ELSE LET i == Greatest(Slot(b))
                 IN  [Valid |-> TRUE, TargetRip |-> At(i), TargetAddress |-> targets[i]]]
      /\ outcomes' = [r \in Branches |-> outcomes[r] \cup {targets[i] > r : i \in Named(r)}]
      /\ lastTarget' = [r \in Branches |->
            IF Named(r) = {} THEN lastTarget[r] ELSE targets[Greatest(Named(r))]]
  /\ UNCHANGED statistics

Next ==
  \/ TagePredictorInit
  \/ \E rip \in Rips, taken \in BOOLEAN, target \in Targets : TageUpdate(rip, taken, target)
  \/ \E k \in Kernels : TagePrefillKernel(k[1], k[2])

Spec == Init /\ [][Next]_tageVars

TageGetStats ==
  [predictions |-> gTagePredictions, correct |-> gTageCorrect,
   mispredictions |-> gTageMispredictions]

-------------------------------------------------------------------------------

TagsUsed == {0} \cup {TageTag(r, t) : r \in Branches, t \in Table}

\* Every entry has its type: Useful stays in its bit field.
TypeOK ==
  /\ gTageTables \in [Table -> [Index -> [Valid : BOOLEAN, Tag : TagsUsed, Taken : BOOLEAN,
                                          Useful : 0 .. MaxUseful]]]
  /\ gBtb \in [BtbIndex -> [Valid : BOOLEAN, TargetRip : Nat, TargetAddress : Nat]]
  /\ TageGetStats.correct + TageGetStats.mispredictions \in 0 .. TageGetStats.predictions

\* Branch s can be taken for branch r by some table.
Aliases(r, s) ==
  r # s /\ \E t \in Table : /\ TageIndex(r, t) = TageIndex(s, t)
                            /\ TageTag(r, t) = TageTag(s, t)

\* Whatever other branches do to the tables, a branch that always went one way
\* and shares no tag with another is predicted that way by any table that still
\* knows it.  Only a branch the tables have lost gets the target buffer's
\* answer, which is "taken" whichever way it went.
SteadyBranchLearned ==
  \A r \in Branches : \A d \in BOOLEAN :
    outcomes[r] = {d} /\ (\A s \in Branches : ~Aliases(r, s)) /\ Knowing(r) # {}
      => TagePredict(r).taken = d

\* The predicted target of a branch is the last target it was given, also where
\* branches share an entry of the target buffer, or the next instruction.
TargetIsLast ==
  \A r \in Branches : TagePredict(r).target \in {lastTarget[r], r + 4}

===============================================================================
