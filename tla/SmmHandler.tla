------------------------------- MODULE SmmHandler -------------------------------
(***************************************************************************)
(* The system management handler, hwcompat/smm/smmhandler.c: it takes the  *)
(* time when a management interrupt begins and ends and keeps the longest  *)
(* one and how many exceeded the budget.                                   *)
(*                                                                         *)
(* Nothing in the handler makes callers pair the two calls, initialise     *)
(* first or not initialise in between.  The registration of memory regions *)
(* and processors changes nothing.  MaxTime bounds the time stamp counter  *)
(* and MaxSmis the interrupts.                                             *)
(***************************************************************************)
EXTENDS Integers

CONSTANTS
  TicksPerUs,  \* TscFrequency / 1000000 once the handler is initialised
  BudgetUs,    \* SMM_LATENCY_BUDGET_US
  MaxTime, MaxSmis

SmmAssumption == TicksPerUs \in Nat \ {0} /\ BudgetUs \in Nat /\ MaxTime \in Nat

VARIABLES
  tsc,        \* the processor's time stamp counter
  gSmmState,  \* TraceCacheBase and TraceCacheSize present, SaveTimestamp, saved entries
  gSmmStats,  \* TscFrequency in ticks per microsecond, and the statistics
  gSmmActive,
  fault,      \* the division of a restore trapped
  began,      \* when the current interrupt began, and -1 outside one
  late,       \* some interrupt since the last SmmHandlerInit exceeded the budget
  unpaired    \* since then, a restore without a save, or a save after a save

vars == <<tsc, gSmmState, gSmmStats, gSmmActive, fault, began, late, unpaired>>

-------------------------------------------------------------------------------

NoState == [base |-> FALSE, size |-> FALSE, save |-> 0, entries |-> 0]
NoStats == [ticks |-> 0, max |-> 0, count |-> 0, violations |-> 0, smrr |-> FALSE]

Init ==
  /\ tsc = 0 /\ gSmmState = NoState /\ gSmmStats = NoStats
  /\ gSmmActive = FALSE /\ fault = FALSE
  /\ began = -1 /\ late = FALSE /\ unpaired = FALSE

Wait == tsc < MaxTime /\ tsc' = tsc + 1 /\
        UNCHANGED <<gSmmState, gSmmStats, gSmmActive, fault, began, late, unpaired>>

\* gSmmActive is not cleared: an interrupt under way loses its time stamp.
SmmHandlerInit(b, s) ==
  /\ gSmmState' = [NoState EXCEPT !.base = b, !.size = s]
  /\ gSmmStats' = [NoStats EXCEPT !.ticks = TicksPerUs, !.smrr = b /\ s]
  /\ late' = FALSE
  /\ unpaired' = gSmmActive
  /\ UNCHANGED <<tsc, gSmmActive, fault, began>>

SmmHandlerSaveState ==
  /\ gSmmStats.count < MaxSmis
  /\ gSmmState' = [gSmmState EXCEPT !.save = tsc,
                                    !.entries = IF gSmmState.base THEN 1024 ELSE @]
  /\ gSmmStats' = [gSmmStats EXCEPT !.count = @ + 1]
  /\ gSmmActive' = TRUE
  /\ began' = tsc
  /\ unpaired' = (unpaired \/ gSmmActive)
  /\ UNCHANGED <<tsc, fault, late>>

\* Microseconds since the last save, cut off.
ElapsedUs == (tsc - gSmmState.save) \div gSmmStats.ticks

\* Mutant of OverBudget: exactly the budget is too much.
OverBudgetAt == ElapsedUs >= BudgetUs

OverBudget == ElapsedUs > BudgetUs

\* The statistics are kept per restore, so a restore without a save is counted
\* as an interrupt that began with the last one, or when the counter started.
SmmHandlerRestoreState ==
  /\ gSmmStats.ticks > 0
  /\ gSmmStats.violations < MaxSmis
  /\ gSmmStats' = [gSmmStats EXCEPT !.max = IF ElapsedUs > @ THEN ElapsedUs ELSE @,
                                    !.violations = IF OverBudget THEN @ + 1 ELSE @]
  /\ gSmmActive' = FALSE
  /\ late' = (late \/ (began >= 0 /\ tsc - began >= TicksPerUs * (BudgetUs + 1)))
  /\ unpaired' = (unpaired \/ ~gSmmActive)
  /\ began' = -1
  /\ UNCHANGED <<tsc, gSmmState, fault>>

\* Before SmmHandlerInit the frequency is zero, and the division traps.
SmmHandlerRestoreFault ==
  /\ gSmmStats.ticks = 0
  /\ fault' = TRUE
  /\ gSmmActive' = FALSE
  /\ began' = -1
  /\ UNCHANGED <<tsc, gSmmState, gSmmStats, late, unpaired>>

\* TRUE is EFI_TIMEOUT.
SmmHandlerValidate == gSmmStats.violations > 0

SmmHandlerGetStats ==
  [total |-> gSmmStats.count, max |-> gSmmStats.max, violations |-> gSmmStats.violations]

Next ==
  \/ Wait
  \/ ~fault /\ \E b, s \in BOOLEAN : SmmHandlerInit(b, s)
  \/ ~fault /\ SmmHandlerSaveState
  \/ ~fault /\ SmmHandlerRestoreState
  \/ ~fault /\ SmmHandlerRestoreFault

Spec == Init /\ [][Next]_vars

-------------------------------------------------------------------------------

\* The state has its type, and time stamps are in the past.
TypeOK ==
  /\ tsc \in 0 .. MaxTime /\ began \in -1 .. tsc
  /\ gSmmState \in [base : BOOLEAN, size : BOOLEAN, save : 0 .. tsc, entries : {0, 1024}]
  /\ gSmmStats.ticks \in {0, TicksPerUs}

\* While callers pair their calls, SmmHandlerValidate answers EFI_TIMEOUT exactly
\* when an interrupt took longer than the budget: not for one that took the whole
\* budget, and not for the time between two.
TimeoutIsReal == ~unpaired => (SmmHandlerValidate <=> late)

\* Whatever the order of the calls, the violations and the maximum reported tell
\* the same story, and only protected trace caches have been reported as saved.
StatisticsAgree ==
  /\ SmmHandlerGetStats.violations > 0 <=> SmmHandlerGetStats.max > BudgetUs
  /\ ~unpaired => SmmHandlerGetStats.violations <= SmmHandlerGetStats.total
  /\ gSmmState.entries > 0 => gSmmState.base

\* The handler's verdict and its statistics can be relied on.
SmmBudget == TimeoutIsReal /\ StatisticsAgree

===============================================================================
