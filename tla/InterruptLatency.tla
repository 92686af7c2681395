--------------------------- MODULE InterruptLatency ---------------------------
(***************************************************************************)
(* The interrupt queue and its latency statistics,                         *)
(* performance/interrupt/interruptlatency.c: a table of Slots events.  A   *)
(* trigger is merged into a pending event of its vector that arrived less  *)
(* than Window ago, or takes the first free slot, or is dropped when there *)
(* is none.  A delivery takes the pending event of the vector with the     *)
(* lowest slot, which need not be the oldest.                              *)
(*                                                                         *)
(* The time stamp counter advances by any amount between calls, up to      *)
(* MaxTime.  MaxTotal bounds the triggers, MaxIdle the deliveries of       *)
(* nothing and the vectors posted.                                         *)
(***************************************************************************)
EXTENDS Integers, FiniteSets

CONSTANTS
  Vectors,
  Slots,       \* MAX_INTERRUPT_VECTORS
  Window,      \* INTERRUPT_COALESCE_WINDOW
  FastLimit,   \* 5: latencies below it count as the fast path
  PostedVector,  \* POSTED_INTERRUPT_VECTOR
  MaxTime, MaxTotal, MaxIdle

Slot == 0 .. Slots - 1

LatencyAssumption ==
  /\ Vectors # {} /\ Slots \in Nat \ {0} /\ Window \in Nat /\ FastLimit \in Nat
  /\ MaxTime \in Nat /\ MaxIdle \in Nat

VARIABLES
  now,           \* the time stamp counter
  event,         \* gInterruptEvents
  handler,       \* gInterruptHandlers: registered, count, total, max
  maxLatency, total, coalesced, fastPath,    \* the gXxx counters
  dropped,       \* triggers that found no slot: nothing in the code counts them
  delivered,     \* events delivered
  idle,          \* deliveries that found no event
  posted         \* gPostedInterrupts

tableVars   == <<event, handler, maxLatency>>
counterVars == <<total, coalesced, fastPath, dropped, delivered, idle, posted>>
vars == <<now, tableVars, counterVars>>

NoEvent == [pending |-> FALSE, vector |-> CHOOSE v \in Vectors : TRUE,
            arrival |-> 0, coalesced |-> FALSE]
NoHandler == [registered |-> FALSE, count |-> 0, total |-> 0, max |-> 0]

-------------------------------------------------------------------------------

Init ==
  /\ now = 0
  /\ event = [s \in Slot |-> NoEvent]
  /\ handler = [v \in Vectors |-> NoHandler]
  /\ maxLatency = 0 /\ total = 0 /\ coalesced = 0 /\ fastPath = 0
  /\ dropped = 0 /\ delivered = 0 /\ idle = 0 /\ posted = 0

InterruptLatencyInit ==
  /\ event' = [s \in Slot |-> NoEvent]
  /\ handler' = [v \in Vectors |-> NoHandler]
  /\ maxLatency' = 0 /\ total' = 0 /\ coalesced' = 0 /\ fastPath' = 0
  /\ dropped' = 0 /\ delivered' = 0 /\ idle' = 0 /\ posted' = 0
  /\ UNCHANGED now

\* Time passes.
Advance ==
  /\ now' \in now + 1 .. MaxTime
  /\ UNCHANGED <<tableVars, counterVars>>

InterruptRegisterHandler(v) ==
  /\ handler' = [handler EXCEPT ![v].registered = TRUE]
  /\ UNCHANGED <<now, event, maxLatency, counterVars>>

Pending(v) == {s \in Slot : event[s].pending /\ event[s].vector = v}

\* Mutant of Mergeable: only the first event of the vector is looked at.
MergeableFirst(v) ==
  {s \in Pending(v) : /\ now - event[s].arrival < Window
                      /\ \A t \in Pending(v) : s <= t}

Mergeable(v) == {s \in Pending(v) : now - event[s].arrival < Window}

\* Mutant of FreeSlots: the last slot is never used.
FreeSlotsShort == {s \in Slot : ~event[s].pending /\ s < Slots - 1}

FreeSlots == {s \in Slot : ~event[s].pending}

First(S) == CHOOSE s \in S : \A t \in S : s <= t

\* Mutant of Merge: the merged trigger takes a slot of its own as well.
MergeAndQueue(v) ==
  /\ event' = [s \in Slot |->
        IF s = First(Mergeable(v)) THEN [event[s] EXCEPT !.coalesced = TRUE]
        ELSE IF FreeSlots # {} /\ s = First(FreeSlots)
        THEN [pending |-> TRUE, vector |-> v, arrival |-> now,
              coalesced |-> FALSE]
        ELSE event[s]]
  /\ coalesced' = coalesced + 1
  /\ UNCHANGED dropped

Merge(v) ==
  /\ event' = [event EXCEPT ![First(Mergeable(v))].coalesced = TRUE]
  /\ coalesced' = coalesced + 1
  /\ UNCHANGED dropped

Queue(v) ==
  /\ IF FreeSlots = {}
     THEN dropped' = dropped + 1 /\ UNCHANGED event
     ELSE /\ event' = [event EXCEPT ![First(FreeSlots)] =
                [pending |-> TRUE, vector |-> v, arrival |-> now,
                 coalesced |-> FALSE]]
          /\ UNCHANGED dropped
  /\ UNCHANGED coalesced

\* Mutant of CountTrigger: a merged trigger is not counted.
CountTriggerLate(v) == total' = IF Mergeable(v) = {} THEN total + 1 ELSE total

CountTrigger(v) == total' = total + 1

InterruptTrigger(v) ==
  /\ total < MaxTotal
  /\ CountTrigger(v)
  /\ IF Mergeable(v) # {} THEN Merge(v) ELSE Queue(v)
  /\ UNCHANGED <<now, handler, maxLatency, fastPath, delivered, idle, posted>>

\* Mutant of Recorded: the maximum is not updated.
RecordedNoMax(h, latency) ==
  [h EXCEPT !.count = @ + 1, !.total = @ + latency]

Recorded(h, latency) ==
  [h EXCEPT !.count = @ + 1, !.total = @ + latency,
            !.max = IF latency > @ THEN latency ELSE @]

\* A delivery without an event has latency 0.
InterruptDeliver(v) ==
  /\ \/ /\ Pending(v) = {} /\ idle < MaxIdle
        /\ idle' = idle + 1
        /\ fastPath' = fastPath + (IF FastLimit > 0 THEN 1 ELSE 0)
        /\ UNCHANGED <<event, handler, maxLatency, delivered>>
     \/ /\ Pending(v) # {}
        /\ LET s == First(Pending(v))
               latency == now - event[s].arrival
           IN  /\ event' = [event EXCEPT ![s].pending = FALSE]
               /\ maxLatency' = IF latency > maxLatency THEN latency
                                                        ELSE maxLatency
               /\ handler' = [handler EXCEPT ![v] =
                     IF @.registered THEN Recorded(@, latency) ELSE @]
               /\ fastPath' = fastPath + (IF latency < FastLimit THEN 1 ELSE 0)
        /\ delivered' = delivered + 1
        /\ UNCHANGED idle
  /\ UNCHANGED <<now, total, coalesced, dropped, posted>>

\* The answer is whether the vector is the one for posted interrupts; it is
\* counted, and not queued.
InterruptUsePosted(v) ==
  /\ v = PostedVector /\ posted < MaxIdle
  /\ posted' = posted + 1
  /\ UNCHANGED <<now, tableVars, total, coalesced, fastPath, dropped, delivered, idle>>

InterruptGetStats ==
  [total |-> total, maxLatency |-> maxLatency, posted |-> posted, coalesced |-> coalesced,
   fastPath |-> fastPath]

Next ==
  \/ InterruptLatencyInit
  \/ Advance
  \/ \E v \in Vectors : InterruptRegisterHandler(v)
  \/ \E v \in Vectors : InterruptTrigger(v)
  \/ \E v \in Vectors : InterruptDeliver(v)
  \/ \E v \in Vectors : InterruptUsePosted(v)

Spec == Init /\ [][Next]_vars

-------------------------------------------------------------------------------

\* Every field has its type, no event arrived in the future and no more
\* triggers were merged than there were.
TypeOK ==
  /\ now \in 0 .. MaxTime
  /\ event \in [Slot -> [pending : BOOLEAN, vector : Vectors,
                         arrival : 0 .. now, coalesced : BOOLEAN]]
  /\ handler \in [Vectors -> [registered : BOOLEAN, count : Nat, total : Nat,
                              max : Nat]]
  /\ maxLatency \in 0 .. MaxTime
  /\ coalesced \in 0 .. total /\ posted \in 0 .. MaxIdle

\* Every trigger is accounted for once in the statistics callers get: merged,
\* dropped, delivered or pending; and the fast path counts every call of a
\* delivery while no latency has reached its limit.
EveryTriggerCounted ==
  LET stats == InterruptGetStats
  IN  /\ stats.total = stats.coalesced + dropped + delivered
                        + Cardinality({s \in Slot : event[s].pending})
      /\ stats.fastPath <= delivered + idle
      /\ FastLimit > stats.maxLatency => stats.fastPath = delivered + idle

\* Coalescing works whatever slots the events of a vector ended up in: two of
\* them never wait for delivery having arrived within one window.
CoalescedInWindow ==
  \A v \in Vectors : \A s, t \in Pending(v) :
    s # t => \/ event[s].arrival - event[t].arrival >= Window
             \/ event[t].arrival - event[s].arrival >= Window

\* The per-handler statistics are consistent with each other and with the
\* global maximum.
LatencyBounds ==
  \A v \in Vectors : /\ handler[v].max <= maxLatency
                     /\ handler[v].total <= handler[v].count * handler[v].max

\* What the statistics promise, taken together.
InterruptsAccounted == EveryTriggerCounted /\ CoalescedInWindow /\ LatencyBounds

\* An interrupt is lost only when every slot is pending.
DroppedOnlyWhenFull ==
  [][dropped' > dropped => \A s \in Slot : event[s].pending]_vars

===============================================================================
