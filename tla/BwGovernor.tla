------------------------------ MODULE BwGovernor ------------------------------
(***************************************************************************)
(* The bandwidth governor, performance/bwgov/bandwidthgovernor.c.          *)
(* Transactions are counted over a monitoring window; at its end a busy    *)
(* window takes the governor one level up (normal, throttled, severe) and  *)
(* a quiet one takes it one level down, and the number of threads that may *)
(* run is set with the level.                                              *)
(*                                                                         *)
(* A transaction is 0.15 GB/s; the two thresholds are compared in          *)
(* hundredths, exactly.  The running average and the count of windows,     *)
(* which are only printed, are left out.  MaxTotal bounds the transactions *)
(* and MaxPrefetches the reports of the prefetcher.                        *)
(***************************************************************************)
EXTENDS Integers

CONSTANTS
  ThreadCounts,    \* values of MaxThreads
  Peaks,           \* values of PeakBwGbs; 0 asks for the default
  DefaultPeak,     \* BW_PEAK_GBS
  DefaultThreads,  \* V71_MAX_THREADS
  Counts,          \* transactions reported by one call
  MaxTotal, MaxPrefetches,
  NULL

GovernorAssumption ==
  /\ ThreadCounts \subseteq Nat /\ Peaks \subseteq Nat /\ Counts \subseteq Nat
  /\ DefaultPeak \in Nat \ {0} /\ DefaultThreads \in Nat
  /\ MaxTotal \in Nat /\ MaxPrefetches \in Nat

VARIABLE gBwGov    \* NULL, or the structure

States == {"Normal", "Throttled", "Severe"}

Governor ==
  [State : States, MaxThreads : Nat, ActiveThreads : Nat, Peak : Nat \ {0},
   Window : Nat, Total : Nat, ThrottleEvents : Nat, ReenableEvents : Nat,
   Requests : Nat, Hits : Nat]

-------------------------------------------------------------------------------

Init == gBwGov = NULL

Fresh(n, p) ==
  [State |-> "Normal", MaxThreads |-> n, ActiveThreads |-> n,
   Peak |-> IF p > 0 THEN p ELSE DefaultPeak, Window |-> 0, Total |-> 0,
   ThrottleEvents |-> 0, ReenableEvents |-> 0, Requests |-> 0, Hits |-> 0]

\* The allocation may fail, and the pointer to an earlier governor is lost.
BwGovernorInit(n, p) == gBwGov' \in {NULL, Fresh(n, p)}

BwGovernorV71Init == BwGovernorInit(DefaultThreads, DefaultPeak)

BwGovernorRegisterTransaction(c) ==
  /\ gBwGov # NULL /\ gBwGov.Total + c <= MaxTotal
  /\ gBwGov' = [gBwGov EXCEPT !.Window = @ + c, !.Total = @ + c]

BwGovernorV71RegisterDboPrefetch(h) ==
  /\ gBwGov # NULL /\ gBwGov.Requests < MaxPrefetches
  /\ gBwGov' = [gBwGov EXCEPT !.Requests = @ + 1, !.Hits = @ + h]

\* BW_THROTTLE_THRESHOLD and BW_REENABLE_THRESHOLD.
Busy(g)  == 15 * g.Window >= 85 * g.Peak
Quiet(g) == 15 * g.Window <= 60 * g.Peak

\* Mutant of Reduced: the fraction is taken of the running threads.
ReducedActive(g) == (3 * g.ActiveThreads) \div 4

\* BW_DESCHEDULE_FRACTION of the threads stop.
Reduced(g) == (3 * g.MaxThreads) \div 4

Throttled(g) ==
  CASE g.State = "Normal" ->
         [g EXCEPT !.State = "Throttled", !.ActiveThreads = Reduced(g),
                   !.ThrottleEvents = @ + 1]
    [] g.State = "Throttled" ->
         [g EXCEPT !.State = "Severe", !.ActiveThreads = g.MaxThreads \div 2,
                   !.ThrottleEvents = @ + 1]
    [] OTHER -> g

\* Mutant of Reenabled: from the severe level straight to normal.
ReenabledFully(g) ==
  IF g.State = "Normal" THEN g
  ELSE [g EXCEPT !.State = "Normal", !.ActiveThreads = g.MaxThreads,
                 !.ReenableEvents = @ + 1]

Reenabled(g) ==
  CASE g.State = "Severe" ->
         [g EXCEPT !.State = "Throttled", !.ActiveThreads = Reduced(g),
                   !.ReenableEvents = @ + 1]
    [] g.State = "Throttled" ->
         [g EXCEPT !.State = "Normal", !.ActiveThreads = g.MaxThreads,
                   !.ReenableEvents = @ + 1]
    [] OTHER -> g

BwGovernorProcessWindow ==
  /\ gBwGov # NULL
  /\ LET g == gBwGov
         decided == IF Busy(g) THEN Throttled(g)
                    ELSE IF Quiet(g) THEN Reenabled(g) ELSE g
     IN  gBwGov' = [decided EXCEPT !.Window = 0]

Next ==
  \/ \E n \in ThreadCounts, p \in Peaks : BwGovernorInit(n, p)
  \/ BwGovernorV71Init
  \/ \E c \in Counts : BwGovernorRegisterTransaction(c)
  \/ \E h \in 0 .. 1 : BwGovernorV71RegisterDboPrefetch(h)
  \/ BwGovernorProcessWindow

Spec == Init /\ [][Next]_gBwGov

\* What a scheduler asks for.
BwGovernorGetActiveThreads ==
  IF gBwGov = NULL THEN DefaultThreads ELSE gBwGov.ActiveThreads

BwGovernorV71GetEffectiveThreads ==
  IF gBwGov = NULL THEN DefaultThreads
  ELSE IF gBwGov.State = "Normal" THEN gBwGov.MaxThreads
  ELSE gBwGov.ActiveThreads

BwGovernorGetState == IF gBwGov = NULL THEN "Normal" ELSE gBwGov.State

-------------------------------------------------------------------------------

\* The governor has its type, and a window counts no more than the total.
TypeOK ==
  gBwGov # NULL => gBwGov \in Governor /\ gBwGov.Window <= gBwGov.Total

\* On every path through the three levels the two queries, which compute the
\* answer differently, give the scheduler the same number of threads; it is
\* the number of the level BwGovernorGetState reports, whichever side the level
\* was entered from.
ThreadsFollowState ==
  /\ BwGovernorGetActiveThreads = BwGovernorV71GetEffectiveThreads
  /\ gBwGov # NULL =>
       gBwGov.ActiveThreads =
         CASE BwGovernorGetState = "Normal"    -> gBwGov.MaxThreads
           [] BwGovernorGetState = "Throttled" -> (3 * gBwGov.MaxThreads) \div 4
           [] BwGovernorGetState = "Severe"    -> gBwGov.MaxThreads \div 2

\* The event counters are the governor's history: throttle events not yet
\* undone by a re-enable event are the level, so no window skips a level.
EventsGiveLevel ==
  gBwGov # NULL =>
    gBwGov.ThrottleEvents - gBwGov.ReenableEvents =
      CASE gBwGov.State = "Normal"    -> 0
        [] gBwGov.State = "Throttled" -> 1
        [] gBwGov.State = "Severe"    -> 2

\* The level, its history and its number of threads agree on every path.
GovernorLevels == ThreadsFollowState /\ EventsGiveLevel

===============================================================================
