------------------------------- MODULE UnitProofs -------------------------------
(***************************************************************************)
(* What PerformanceUnits promises of its units, for every value of their   *)
(* constants: the interrupt unit, the governor, the compressor and the L0   *)
(* caches.  PredictorProofs has the others.                                *)
(***************************************************************************)
EXTENDS PerformanceUnits, FiniteSetTheorems, WellFoundedInduction, TLAPS

EventType   == [pending : BOOLEAN, vector : Vectors, arrival : 0 .. now, coalesced : BOOLEAN]
HandlerType == [registered : BOOLEAN, count : Nat, total : Nat, max : Nat]
Waiting     == {s \in Irq!Slot : event[s].pending}

\* What the type invariant leaves to the arithmetic.
Counters ==
  /\ total \in Nat /\ coalesced \in Nat /\ fastPath \in Nat /\ dropped \in Nat
  /\ delivered \in Nat /\ idle \in Nat

IrqInv ==
  /\ Irq!TypeOK /\ Counters
  /\ Irq!EveryTriggerCounted /\ Irq!CoalescedInWindow /\ Irq!LatencyBounds

-------------------------------------------------------------------------------
(* Slots                                                                   *)

\* A non-empty set of natural numbers has a least one.
LEMMA Least ==
  ASSUME NEW t \in SUBSET Nat, t # {}
  PROVE  \E k \in t : \A l \in t : k <= l
<1>. DEFINE R == OpToRel(<, Nat)
<1>1. IsWellFoundedOn(R, Nat)
  BY NatLessThanWellFounded
<1>. HIDE DEF R
<1>2. PICK k \in t : \A l \in t : <<l, k>> \notin R
  BY <1>1, WFMin
<1>3. \A l \in t : ~(l < k)
  BY <1>2 DEF R, OpToRel
<1>. QED  BY <1>3

LEMMA FirstIsOne ==
  ASSUME Irq!LatencyAssumption, NEW S \in SUBSET Irq!Slot, S # {}
  PROVE  Irq!First(S) \in S
<1>1. S \in SUBSET Nat
  BY DEF Irq!Slot, Irq!LatencyAssumption
<1>. QED  BY <1>1, Least DEF Irq!First

LEMMA WaitingFinite ==
  ASSUME Irq!LatencyAssumption
  PROVE  IsFiniteSet(Waiting) /\ Cardinality(Waiting) \in Nat
<1>1. IsFiniteSet(Irq!Slot)
  BY FS_Interval DEF Irq!Slot, Irq!LatencyAssumption
<1>. QED  BY <1>1, FS_Subset, FS_CardinalityType DEF Waiting

\* The unit counts the slots as this module does.
LEMMA SameCount == \A S : Irq!Cardinality(S) = Cardinality(S)
BY DEF Irq!Cardinality, Cardinality

LEMMA CountFacts ==
  Irq!EveryTriggerCounted <=>
    /\ total = coalesced + dropped + delivered + Cardinality(Waiting)
    /\ fastPath <= delivered + idle
    /\ FastLimit > maxLatency => fastPath = delivered + idle
BY SameCount DEF Irq!EveryTriggerCounted, Irq!InterruptGetStats, Waiting

\* The total stays within the number of recordings times their maximum.
LEMMA TotalBound ==
  ASSUME NEW c \in Nat, NEW t \in Nat, NEW m \in Nat, NEW l \in Nat, t <= c * m
  PROVE  LET n == IF l > m THEN l ELSE m
         IN  t + l <= (c + 1) * n /\ n \in Nat
<1>. DEFINE n == IF l > m THEN l ELSE m
<1>1. n \in Nat /\ m <= n /\ l <= n
  OBVIOUS
<1>. HIDE DEF n
<1>2. c * m <= c * n /\ c * m \in Nat /\ c * n \in Nat
  BY <1>1, SMT
<1>3. (c + 1) * n = c * n + n
  BY <1>1, SMT
<1>. QED  BY <1>1, <1>2, <1>3 DEF n

-------------------------------------------------------------------------------
(* The invariant is inductive                                              *)

\* The reset of everything, which is also how it starts.
Zeroed ==
  /\ event = [s \in Irq!Slot |-> Irq!NoEvent]
  /\ handler = [v \in Vectors |-> Irq!NoHandler]
  /\ maxLatency = 0 /\ total = 0 /\ coalesced = 0 /\ fastPath = 0
  /\ dropped = 0 /\ delivered = 0 /\ idle = 0 /\ posted = 0
  /\ now \in 0 .. MaxTime

LEMMA ZeroedInv == Irq!LatencyAssumption /\ Zeroed => IrqInv
<1>. SUFFICES ASSUME Irq!LatencyAssumption, Zeroed
     PROVE  IrqInv
  OBVIOUS
<1>1. Irq!NoEvent \in EventType /\ Irq!NoEvent.pending = FALSE
  BY DEF Irq!NoEvent, EventType, Irq!LatencyAssumption, Zeroed
<1>2. \A s \in Irq!Slot : event[s] = Irq!NoEvent
  BY DEF Zeroed
<1>3. event \in [Irq!Slot -> EventType]
  BY <1>1 DEF Zeroed
<1>4. handler \in [Vectors -> HandlerType]
  BY DEF Zeroed, Irq!NoHandler, HandlerType
<1>5. Irq!TypeOK
  BY <1>3, <1>4 DEF Irq!TypeOK, EventType, HandlerType, Zeroed, Irq!LatencyAssumption
<1>6. Waiting = {}
  BY <1>1, <1>2 DEF Waiting
<1>7. Irq!EveryTriggerCounted
  BY <1>6, CountFacts, FS_EmptySet DEF Zeroed
<1>8. Irq!CoalescedInWindow
  BY <1>1, <1>2 DEF Irq!CoalescedInWindow, Irq!Pending
<1>9. Irq!LatencyBounds
  BY DEF Irq!LatencyBounds, Zeroed, Irq!NoHandler
<1>. QED  BY <1>5, <1>7, <1>8, <1>9 DEF IrqInv, Counters, Zeroed

LEMMA AdvanceKeeps ==
  ASSUME Irq!LatencyAssumption, IrqInv, Irq!Advance
  PROVE  IrqInv'
<1>1. now' \in 0 .. MaxTime /\ now <= now' /\ now \in Nat /\ now' \in Nat
  BY DEF Irq!Advance, IrqInv, Irq!TypeOK, Irq!LatencyAssumption
<1>2. UNCHANGED <<Irq!tableVars, Irq!counterVars>>
  BY DEF Irq!Advance
<1>3. event' \in [Irq!Slot -> EventType']
  <2>1. event \in [Irq!Slot -> EventType]
    BY DEF IrqInv, Irq!TypeOK, EventType
  <2>2. EventType \subseteq EventType'
    BY <1>1 DEF EventType
  <2>. QED  BY <1>2, <2>1, <2>2 DEF Irq!tableVars
<1>4. Irq!TypeOK'
  BY <1>1, <1>2, <1>3 DEF Irq!TypeOK, EventType, IrqInv, Irq!tableVars, Irq!counterVars
<1>5. (Irq!EveryTriggerCounted /\ Irq!CoalescedInWindow /\ Irq!LatencyBounds /\ Counters)'
  BY <1>2 DEF IrqInv, Irq!EveryTriggerCounted, Irq!InterruptGetStats, Irq!CoalescedInWindow,
              Irq!Pending,
              Irq!LatencyBounds, Counters, Irq!tableVars, Irq!counterVars
<1>. QED  BY <1>4, <1>5 DEF IrqInv

LEMMA RegisterKeeps ==
  ASSUME Irq!LatencyAssumption, IrqInv, NEW v \in Vectors, Irq!InterruptRegisterHandler(v)
  PROVE  IrqInv'
<1>1. UNCHANGED <<now, event, maxLatency, Irq!counterVars>>
  BY DEF Irq!InterruptRegisterHandler
<1>2. handler \in [Vectors -> HandlerType] /\ handler[v] \in HandlerType
  BY DEF IrqInv, Irq!TypeOK, HandlerType
<1>3. handler' = [handler EXCEPT ![v] = [handler[v] EXCEPT !.registered = TRUE]]
  BY Zenon DEF Irq!InterruptRegisterHandler
<1>4. [handler[v] EXCEPT !.registered = TRUE] \in HandlerType
  BY <1>2 DEF HandlerType
<1>5. handler' \in [Vectors -> HandlerType]
  BY <1>2, <1>3, <1>4
<1>6. \A w \in Vectors : /\ handler'[w].max = handler[w].max
                         /\ handler'[w].total = handler[w].total
                         /\ handler'[w].count = handler[w].count
  <2>1. ASSUME NEW w \in Vectors
        PROVE  /\ handler'[w].max = handler[w].max
               /\ handler'[w].total = handler[w].total
               /\ handler'[w].count = handler[w].count
    <3>1. CASE w = v
      BY <1>2, <1>3, <3>1 DEF HandlerType
    <3>2. CASE w # v
      BY <1>2, <1>3, <3>2
    <3>. QED  BY <3>1, <3>2
  <2>. QED  BY <2>1
<1>7. Irq!TypeOK'
  BY <1>1, <1>5 DEF Irq!TypeOK, HandlerType, IrqInv, Irq!counterVars
<1>8. Irq!LatencyBounds'
  BY <1>1, <1>6 DEF Irq!LatencyBounds, IrqInv
<1>9. (Irq!EveryTriggerCounted /\ Irq!CoalescedInWindow /\ Counters)'
  BY <1>1 DEF IrqInv, Irq!EveryTriggerCounted, Irq!InterruptGetStats, Irq!CoalescedInWindow,
              Irq!Pending,
              Counters, Irq!counterVars
<1>. QED  BY <1>7, <1>8, <1>9 DEF IrqInv

\* The statistics besides the events, when a trigger is counted.
LEMMA TriggerKeeps ==
  ASSUME Irq!LatencyAssumption, IrqInv, NEW v \in Vectors, Irq!InterruptTrigger(v)
  PROVE  IrqInv'
<1>1. /\ now \in 0 .. MaxTime /\ now \in Nat /\ event \in [Irq!Slot -> EventType]
      /\ handler \in [Vectors -> HandlerType]
      /\ coalesced \in 0 .. total /\ total \in Nat /\ dropped \in Nat /\ delivered \in Nat
      /\ idle \in Nat /\ fastPath \in Nat
      /\ total = coalesced + dropped + delivered + Cardinality(Waiting)
      /\ fastPath <= delivered + idle
      /\ FastLimit > maxLatency => fastPath = delivered + idle
  BY CountFacts DEF IrqInv, Irq!TypeOK, EventType, HandlerType, Counters
<1>2. /\ total' = total + 1
      /\ UNCHANGED <<now, handler, maxLatency, fastPath, delivered, idle, posted>>
  BY DEF Irq!InterruptTrigger, Irq!CountTrigger
<1>3. IsFiniteSet(Waiting) /\ Cardinality(Waiting) \in Nat
  BY WaitingFinite
<1>4. Irq!LatencyBounds'
  BY <1>2 DEF IrqInv, Irq!LatencyBounds
<1>5. CASE Irq!Mergeable(v) # {} /\ Irq!Merge(v)
  <2>. DEFINE s == Irq!First(Irq!Mergeable(v))
  <2>1. s \in Irq!Slot
    BY <1>5, FirstIsOne DEF Irq!Mergeable, Irq!Pending
  <2>2. event' = [event EXCEPT ![s] = [event[s] EXCEPT !.coalesced = TRUE]]
        /\ coalesced' = coalesced + 1 /\ dropped' = dropped
    BY <1>5, Zenon DEF Irq!Merge
  <2>. HIDE DEF s
  <2>3. [event[s] EXCEPT !.coalesced = TRUE] \in EventType
    BY <1>1, <2>1 DEF EventType
  <2>4. event' \in [Irq!Slot -> EventType]
    BY <1>1, <2>2, <2>3
  <2>5. \A u \in Irq!Slot : /\ event'[u].pending = event[u].pending
                        /\ event'[u].vector = event[u].vector
                        /\ event'[u].arrival = event[u].arrival
    <3>1. ASSUME NEW u \in Irq!Slot
          PROVE  /\ event'[u].pending = event[u].pending
                 /\ event'[u].vector = event[u].vector
                 /\ event'[u].arrival = event[u].arrival
      <4>1. event[s] \in EventType
        BY <1>1, <2>1
      <4>2. CASE u = s
        BY <1>1, <2>1, <2>2, <4>1, <4>2 DEF EventType
      <4>3. CASE u # s
        BY <1>1, <2>1, <2>2, <4>3
      <4>. QED  BY <4>2, <4>3
    <3>. QED  BY <3>1
  <2>6. Waiting' = Waiting
    BY <2>5 DEF Waiting
  <2>7. Irq!CoalescedInWindow'
    BY <2>5 DEF IrqInv, Irq!CoalescedInWindow, Irq!Pending
  <2>8. coalesced' \in 0 .. total' /\ Counters'
    BY <1>1, <1>2, <2>2 DEF Counters
  <2>9. Irq!TypeOK'
    BY <1>2, <2>4, <2>8 DEF Irq!TypeOK, EventType, IrqInv
  <2>10. /\ total' = coalesced' + dropped' + delivered' + Cardinality(Waiting')
         /\ fastPath' <= delivered' + idle'
         /\ FastLimit > maxLatency' => fastPath' = delivered' + idle'
    BY <1>1, <1>2, <1>3, <2>2, <2>6
  <2>11. Irq!EveryTriggerCounted'
    BY <2>10, SameCount DEF Irq!EveryTriggerCounted, Irq!InterruptGetStats, Waiting
  <2>. QED  BY <1>4, <2>7, <2>8, <2>9, <2>11 DEF IrqInv
<1>6. CASE Irq!Mergeable(v) = {} /\ Irq!Queue(v) /\ Irq!FreeSlots = {}
  <2>1. UNCHANGED <<event, coalesced>> /\ dropped' = dropped + 1
    BY <1>6 DEF Irq!Queue
  <2>2. Waiting' = Waiting /\ Irq!CoalescedInWindow'
    BY <2>1 DEF Waiting, IrqInv, Irq!CoalescedInWindow, Irq!Pending
  <2>3. coalesced' \in 0 .. total' /\ Counters'
    BY <1>1, <1>2, <2>1 DEF Counters
  <2>4. Irq!TypeOK'
    BY <1>2, <2>1, <2>3 DEF Irq!TypeOK, IrqInv
  <2>5. /\ total' = coalesced' + dropped' + delivered' + Cardinality(Waiting')
        /\ fastPath' <= delivered' + idle'
        /\ FastLimit > maxLatency' => fastPath' = delivered' + idle'
    BY <1>1, <1>2, <1>3, <2>1, <2>2
  <2>6. Irq!EveryTriggerCounted'
    BY <2>5, SameCount DEF Irq!EveryTriggerCounted, Irq!InterruptGetStats, Waiting
  <2>. QED  BY <1>4, <2>2, <2>3, <2>4, <2>6 DEF IrqInv
<1>7. CASE Irq!Mergeable(v) = {} /\ Irq!Queue(v) /\ Irq!FreeSlots # {}
  <2>. DEFINE s == Irq!First(Irq!FreeSlots)
              e == [pending |-> TRUE, vector |-> v, arrival |-> now, coalesced |-> FALSE]
  <2>1. s \in Irq!Slot /\ ~event[s].pending
    BY <1>7, FirstIsOne DEF Irq!FreeSlots
  <2>2. event' = [event EXCEPT ![s] = e] /\ UNCHANGED <<coalesced, dropped>>
    BY <1>7 DEF Irq!Queue
  <2>3. e \in EventType
    BY <1>1 DEF EventType
  <2>. HIDE DEF s
  <2>4. event' \in [Irq!Slot -> EventType]
    BY <1>1, <2>2, <2>3
  <2>5. event'[s] = e /\ \A u \in Irq!Slot \ {s} : event'[u] = event[u]
    BY <1>1, <2>1, <2>2
  <2>6. Waiting' = Waiting \cup {s} /\ s \notin Waiting
    BY <2>1, <2>5 DEF Waiting
  <2>7. Cardinality(Waiting') = Cardinality(Waiting) + 1
    BY <1>3, <2>6, FS_AddElement
  <2>8. Irq!CoalescedInWindow'
    <3>1. \A u \in Irq!Pending(v) : now - event[u].arrival >= Window /\ event[u].arrival \in Nat
      <4>1. ASSUME NEW u \in Irq!Pending(v)
            PROVE  now - event[u].arrival >= Window /\ event[u].arrival \in Nat
        <5>1. u \in Irq!Slot /\ ~(now - event[u].arrival < Window)
          BY <1>7 DEF Irq!Mergeable, Irq!Pending
        <5>2. event[u].arrival \in 0 .. now
          BY <1>1, <5>1 DEF EventType
        <5>. QED  BY <1>1, <5>1, <5>2 DEF Irq!LatencyAssumption
      <4>. QED  BY <4>1
    <3>2. ASSUME NEW w \in Vectors, NEW a \in Irq!Pending(w)', NEW b \in Irq!Pending(w)', a # b
          PROVE  \/ event'[a].arrival - event'[b].arrival >= Window
                 \/ event'[b].arrival - event'[a].arrival >= Window
      <4>1. a \in Irq!Slot /\ b \in Irq!Slot
        BY DEF Irq!Pending
      <4>2. CASE a # s /\ b # s
        <5>1. /\ a \in Irq!Pending(w) /\ b \in Irq!Pending(w)
              /\ event'[a] = event[a] /\ event'[b] = event[b]
          BY <2>5, <4>1, <4>2 DEF Irq!Pending
        <5>. QED  BY <3>2, <5>1 DEF IrqInv, Irq!CoalescedInWindow
      <4>3. CASE a = s
        <5>1. w = v /\ b \in Irq!Pending(v) /\ event'[b] = event[b] /\ event'[a].arrival = now
          BY <2>5, <3>2, <4>1, <4>3 DEF Irq!Pending
        <5>. QED  BY <3>1, <5>1
      <4>4. CASE b = s
        <5>1. w = v /\ a \in Irq!Pending(v) /\ event'[a] = event[a] /\ event'[b].arrival = now
          BY <2>5, <3>2, <4>1, <4>4 DEF Irq!Pending
        <5>. QED  BY <3>1, <5>1
      <4>. QED  BY <4>2, <4>3, <4>4
    <3>. QED  BY <3>2 DEF Irq!CoalescedInWindow
  <2>9. coalesced' \in 0 .. total' /\ Counters'
    BY <1>1, <1>2, <2>2 DEF Counters
  <2>10. Irq!TypeOK'
    BY <1>2, <2>4, <2>9 DEF Irq!TypeOK, EventType, IrqInv
  <2>11. /\ total' = coalesced' + dropped' + delivered' + Cardinality(Waiting')
         /\ fastPath' <= delivered' + idle'
         /\ FastLimit > maxLatency' => fastPath' = delivered' + idle'
    BY <1>1, <1>2, <1>3, <2>2, <2>7
  <2>12. Irq!EveryTriggerCounted'
    BY <2>11, SameCount DEF Irq!EveryTriggerCounted, Irq!InterruptGetStats, Waiting
  <2>. QED  BY <1>4, <2>8, <2>9, <2>10, <2>12 DEF IrqInv
<1>. QED  BY <1>5, <1>6, <1>7 DEF Irq!InterruptTrigger

\* A recording counts one more, adds the latency and keeps the greater maximum.
LEMMA RecordedFields ==
  ASSUME NEW h \in HandlerType, NEW l \in Nat
  PROVE  /\ Irq!Recorded(h, l) \in HandlerType
         /\ Irq!Recorded(h, l).count = h.count + 1
         /\ Irq!Recorded(h, l).total = h.total + l
         /\ Irq!Recorded(h, l).max = IF l > h.max THEN l ELSE h.max
<1>. DEFINE c == h.count + 1
            t == h.total + l
            m == IF l > h.max THEN l ELSE h.max
            g == [h EXCEPT !.count = c, !.total = t, !.max = m]
<1>1. Irq!Recorded(h, l) = g
  BY Zenon DEF Irq!Recorded
<1>2. c \in Nat /\ t \in Nat /\ m \in Nat
  BY DEF HandlerType
<1>. HIDE DEF c, t, m
<1>3. g \in HandlerType /\ g.count = c /\ g.total = t /\ g.max = m
  BY <1>2 DEF HandlerType
<1>. HIDE DEF g
<1>. QED  BY <1>1, <1>3 DEF c, t, m

LEMMA DeliverKeeps ==
  ASSUME Irq!LatencyAssumption, IrqInv, NEW v \in Vectors, Irq!InterruptDeliver(v)
  PROVE  IrqInv'
<1>1. /\ now \in 0 .. MaxTime /\ now \in Nat /\ event \in [Irq!Slot -> EventType]
      /\ handler \in [Vectors -> HandlerType] /\ maxLatency \in 0 .. MaxTime
      /\ coalesced \in 0 .. total /\ total \in Nat /\ coalesced \in Nat
      /\ dropped \in Nat /\ delivered \in Nat /\ idle \in Nat /\ fastPath \in Nat
      /\ MaxTime \in Nat /\ FastLimit \in Nat /\ maxLatency \in Nat
      /\ total = coalesced + dropped + delivered + Cardinality(Waiting)
      /\ fastPath <= delivered + idle
      /\ FastLimit > maxLatency => fastPath = delivered + idle
  BY CountFacts DEF IrqInv, Irq!TypeOK, EventType, HandlerType, Counters, Irq!LatencyAssumption
<1>2. UNCHANGED <<now, total, coalesced, dropped, posted>>
  BY DEF Irq!InterruptDeliver
<1>3. IsFiniteSet(Waiting) /\ Cardinality(Waiting) \in Nat
  BY WaitingFinite
<1>4. CASE /\ idle' = idle + 1
           /\ fastPath' = fastPath + (IF FastLimit > 0 THEN 1 ELSE 0)
           /\ UNCHANGED <<event, handler, maxLatency, delivered>>
  <2>1. Waiting' = Waiting /\ Irq!CoalescedInWindow' /\ Irq!LatencyBounds' /\ Irq!TypeOK'
    BY <1>2, <1>4 DEF Waiting, IrqInv, Irq!CoalescedInWindow, Irq!Pending, Irq!LatencyBounds,
                      Irq!TypeOK
  <2>2. Counters'
    BY <1>1, <1>2, <1>4 DEF Counters
  <2>3. /\ total' = coalesced' + dropped' + delivered' + Cardinality(Waiting')
        /\ fastPath' <= delivered' + idle'
        /\ FastLimit > maxLatency' => fastPath' = delivered' + idle'
    BY <1>1, <1>2, <1>3, <1>4, <2>1
  <2>4. Irq!EveryTriggerCounted'
    BY <2>3, SameCount DEF Irq!EveryTriggerCounted, Irq!InterruptGetStats, Waiting
  <2>. QED  BY <2>1, <2>2, <2>4 DEF IrqInv
<1>5. CASE Irq!Pending(v) # {} /\ ~(UNCHANGED delivered)
  <2>. DEFINE s == Irq!First(Irq!Pending(v))
              latency == now - event[s].arrival
              h == handler[v]
  <2>1. /\ event' = [event EXCEPT ![s] = [event[s] EXCEPT !.pending = FALSE]]
        /\ maxLatency' = IF latency > maxLatency THEN latency ELSE maxLatency
        /\ handler' = [handler EXCEPT ![v] = IF h.registered THEN Irq!Recorded(h, latency) ELSE h]
        /\ fastPath' = fastPath + (IF latency < FastLimit THEN 1 ELSE 0)
        /\ delivered' = delivered + 1 /\ idle' = idle
    BY <1>5, Zenon DEF Irq!InterruptDeliver
  <2>2. s \in Irq!Slot /\ event[s].pending
    BY <1>5, FirstIsOne DEF Irq!Pending
  <2>. HIDE DEF s
  <2>3. event[s] \in EventType /\ event[s].arrival \in 0 .. now
    BY <1>1, <2>2 DEF EventType
  <2>4. latency \in Nat /\ latency <= MaxTime
    BY <1>1, <2>3
  <2>5. [event[s] EXCEPT !.pending = FALSE] \in EventType
        /\ [event[s] EXCEPT !.pending = FALSE].pending = FALSE
    BY <2>3 DEF EventType
  <2>6. event' \in [Irq!Slot -> EventType] /\ event'[s].pending = FALSE
        /\ \A u \in Irq!Slot \ {s} : event'[u] = event[u]
    BY <1>1, <2>1, <2>2, <2>5
  <2>7. Waiting' = Waiting \ {s} /\ s \in Waiting
    BY <2>2, <2>6 DEF Waiting
  <2>8. Cardinality(Waiting') = Cardinality(Waiting) - 1
    BY <1>3, <2>7, FS_RemoveElement
  <2>9. Irq!CoalescedInWindow'
    <3>1. ASSUME NEW w \in Vectors, NEW a \in Irq!Pending(w)', NEW b \in Irq!Pending(w)', a # b
          PROVE  \/ event'[a].arrival - event'[b].arrival >= Window
                 \/ event'[b].arrival - event'[a].arrival >= Window
      <4>1. a \in Irq!Slot \ {s} /\ b \in Irq!Slot \ {s}
        BY <2>6 DEF Irq!Pending
      <4>2. /\ a \in Irq!Pending(w) /\ b \in Irq!Pending(w)
            /\ event'[a] = event[a] /\ event'[b] = event[b]
        BY <2>6, <4>1 DEF Irq!Pending
      <4>. QED  BY <3>1, <4>2 DEF IrqInv, Irq!CoalescedInWindow
    <3>. QED  BY <3>1 DEF Irq!CoalescedInWindow
  <2>. HIDE DEF latency
  <2>10. maxLatency' \in 0 .. MaxTime /\ maxLatency <= maxLatency' /\ latency <= maxLatency'
    BY <1>1, <2>1, <2>4
  <2>11. h \in HandlerType
    BY <1>1
  <2>12. /\ h.registered \in BOOLEAN /\ h.count \in Nat /\ h.total \in Nat /\ h.max \in Nat
         /\ h.max <= maxLatency /\ h.total <= h.count * h.max
    BY <2>11 DEF HandlerType, IrqInv, Irq!LatencyBounds
  <2>. DEFINE m == IF latency > h.max THEN latency ELSE h.max
              r == Irq!Recorded(h, latency)
  <2>13. h.total + latency <= (h.count + 1) * m /\ m \in Nat /\ m <= maxLatency'
    BY <2>4, <2>12, <2>10, <1>1, TotalBound
  <2>14. r \in HandlerType /\ r.max = m /\ r.total = h.total + latency /\ r.count = h.count + 1
    BY <2>4, <2>11, RecordedFields
  <2>. DEFINE n == IF h.registered THEN r ELSE h
  <2>15. n \in HandlerType /\ n \in {h, r}
    BY <2>11, <2>14
  <2>. HIDE DEF r, h, m
  <2>16. /\ handler' \in [Vectors -> HandlerType]
         /\ handler'[v] \in {h, r} /\ \A w \in Vectors \ {v} : handler'[w] = handler[w]
    <3>1. handler' = [handler EXCEPT ![v] = n]
      BY <2>1, Zenon DEF r, h
    <3>. HIDE DEF n
    <3>. QED  BY <1>1, <2>15, <3>1
  <2>17. Irq!LatencyBounds'
    <3>1. ASSUME NEW w \in Vectors
          PROVE  /\ handler'[w].max <= maxLatency'
                 /\ handler'[w].total <= handler'[w].count * handler'[w].max
      <4>1. CASE w = v /\ handler'[v] = r
        BY <2>13, <2>14, <4>1
      <4>2. CASE w = v /\ handler'[v] = h
        BY <1>1, <2>10, <2>12, <4>2
      <4>3. CASE w # v
        <5>1. handler[w].max \in Nat /\ handler[w].max <= maxLatency
              /\ handler[w].total <= handler[w].count * handler[w].max
          BY <1>1 DEF IrqInv, Irq!LatencyBounds, HandlerType
        <5>. QED  BY <1>1, <2>10, <2>16, <4>3, <5>1
      <4>. QED  BY <2>16, <4>1, <4>2, <4>3
    <3>. QED  BY <3>1 DEF Irq!LatencyBounds
  <2>18. Irq!TypeOK'
    BY <1>2, <2>6, <2>10, <2>16 DEF Irq!TypeOK, EventType, HandlerType, IrqInv
  <2>19. Counters'
    BY <1>1, <1>2, <2>1 DEF Counters
  <2>20. /\ total' = coalesced' + dropped' + delivered' + Cardinality(Waiting')
         /\ fastPath' <= delivered' + idle'
    BY <1>1, <1>2, <1>3, <2>1, <2>8
  <2>21. FastLimit > maxLatency' => fastPath' = delivered' + idle'
    <3>1. SUFFICES ASSUME FastLimit > maxLatency'
          PROVE  fastPath' = delivered' + idle'
      OBVIOUS
    <3>2. FastLimit > maxLatency /\ latency < FastLimit
      BY <1>1, <2>4, <2>10, <3>1
    <3>. QED  BY <1>1, <2>1, <3>2
  <2>22. Irq!EveryTriggerCounted'
    BY <2>20, <2>21, SameCount DEF Irq!EveryTriggerCounted, Irq!InterruptGetStats, Waiting
  <2>. QED  BY <2>9, <2>17, <2>18, <2>19, <2>22 DEF IrqInv
<1>6. CASE Irq!Pending(v) # {} /\ UNCHANGED delivered /\ delivered' = delivered + 1
  BY <1>1, <1>6
<1>. QED  BY <1>4, <1>5, <1>6 DEF Irq!InterruptDeliver

LEMMA PostedKeeps ==
  ASSUME Irq!LatencyAssumption, IrqInv, NEW v \in Vectors, Irq!InterruptUsePosted(v)
  PROVE  IrqInv'
<1>1. posted' \in 0 .. MaxIdle
  BY DEF Irq!InterruptUsePosted, IrqInv, Irq!TypeOK, Irq!LatencyAssumption
<1>2. UNCHANGED <<now, Irq!tableVars, total, coalesced, fastPath, dropped, delivered, idle>>
  BY DEF Irq!InterruptUsePosted
<1>3. Irq!TypeOK' /\ Counters'
  BY <1>1, <1>2 DEF IrqInv, Irq!TypeOK, Counters, Irq!tableVars
<1>4. (Irq!EveryTriggerCounted /\ Irq!CoalescedInWindow /\ Irq!LatencyBounds)'
  BY <1>2 DEF IrqInv, Irq!EveryTriggerCounted, Irq!InterruptGetStats, Irq!CoalescedInWindow,
              Irq!Pending,
              Irq!LatencyBounds, Irq!tableVars
<1>. QED  BY <1>3, <1>4 DEF IrqInv

LEMMA StepIrq == Irq!LatencyAssumption /\ IrqInv /\ [Irq!Next]_Irq!vars => IrqInv'
<1>. SUFFICES ASSUME Irq!LatencyAssumption, IrqInv, [Irq!Next]_Irq!vars
     PROVE  IrqInv'
  OBVIOUS
<1>1. CASE Irq!InterruptLatencyInit
  <2>1. Zeroed'
    BY <1>1 DEF Irq!InterruptLatencyInit, Zeroed, IrqInv, Irq!TypeOK
  <2>2. Irq!LatencyAssumption'
    BY DEF Irq!LatencyAssumption
  <2>. QED  BY <2>1, <2>2, ZeroedInv, PTL
<1>2. CASE Irq!Advance
  BY <1>2, AdvanceKeeps
<1>3. CASE \E v \in Vectors : Irq!InterruptRegisterHandler(v)
  BY <1>3, RegisterKeeps
<1>4. CASE \E v \in Vectors : Irq!InterruptTrigger(v)
  BY <1>4, TriggerKeeps
<1>5. CASE \E v \in Vectors : Irq!InterruptDeliver(v)
  BY <1>5, DeliverKeeps
<1>6. CASE \E v \in Vectors : Irq!InterruptUsePosted(v)
  BY <1>6, PostedKeeps
<1>7. CASE UNCHANGED Irq!vars
  BY <1>7 DEF IrqInv, Irq!TypeOK, Counters, Irq!EveryTriggerCounted, Irq!InterruptGetStats,
              Irq!CoalescedInWindow, Irq!Pending, Irq!LatencyBounds, Irq!vars, Irq!tableVars,
              Irq!counterVars
<1>. QED  BY <1>1, <1>2, <1>3, <1>4, <1>5, <1>6, <1>7 DEF Irq!Next

-------------------------------------------------------------------------------

\* A step of the units is one of the interrupt unit or leaves it alone.
LEMMA StepOfIrq == [Next]_vars => [Irq!Next]_Irq!vars
<1>1. IrqStep => Irq!Next
  BY DEF IrqStep
<1>2. [Next]_vars => IrqStep \/ UNCHANGED irqVars
  BY DEF Next, vars, L0Step, GovStep, HmcStep, TageStep, FusionStep
<1>3. UNCHANGED irqVars => UNCHANGED Irq!vars
  BY DEF irqVars, Irq!vars, Irq!tableVars, Irq!counterVars
<1>. QED  BY <1>1, <1>2, <1>3

LEMMA IrqInvAlways == Spec => []IrqInv
<1>1. Irq!LatencyAssumption
  BY UnitsAssumption DEF UnitsAssumption
<1>2. Init => IrqInv
  BY <1>1, ZeroedInv DEF Init, Irq!Init, Zeroed, Irq!LatencyAssumption
<1>3. IrqInv /\ [Next]_vars => IrqInv'
  BY <1>1, StepIrq, StepOfIrq
<1>. QED  BY <1>2, <1>3, PTL DEF Spec

\* Whatever the sizes, the window and the order of calls, no trigger is counted
\* twice or forgotten by InterruptTrigger and InterruptDeliver, two events that
\* should have been merged never wait together, and the statistics of a handler
\* agree with each other.
THEOREM AccountsAlways == Spec => []InterruptsAccounted
<1>1. IrqInv => InterruptsAccounted
  BY DEF IrqInv, InterruptsAccounted, Irq!InterruptsAccounted
<1>. QED  BY <1>1, IrqInvAlways, PTL

\* A trigger is dropped only when every slot waits for its delivery.
LEMMA DropsWhenFull == Spec => Irq!DroppedOnlyWhenFull
<1>1. ASSUME IrqInv, [Irq!Next]_Irq!vars, dropped' > dropped
      PROVE  \A s \in Irq!Slot : event[s].pending
  <2>1. dropped \in Nat /\ event \in [Irq!Slot -> EventType]
    BY <1>1 DEF IrqInv, Counters, Irq!TypeOK, EventType
  <2>2. PICK v \in Vectors : Irq!InterruptTrigger(v)
    BY <1>1, <2>1 DEF Irq!Next, Irq!InterruptLatencyInit, Irq!Advance, Irq!counterVars,
          Irq!InterruptRegisterHandler, Irq!InterruptDeliver, Irq!InterruptUsePosted, Irq!vars
  <2>3. Irq!FreeSlots = {}
    BY <1>1, <2>1, <2>2 DEF Irq!InterruptTrigger, Irq!Merge, Irq!Queue
  <2>. QED  BY <2>1, <2>3 DEF Irq!FreeSlots, EventType
<1>2. IrqInv /\ [Next]_vars => [dropped' > dropped => \A s \in Irq!Slot : event[s].pending]_Irq!vars
  BY <1>1, StepOfIrq
<1>. QED  BY <1>2, IrqInvAlways, PTL DEF Spec, Irq!DroppedOnlyWhenFull

-------------------------------------------------------------------------------
(* The governor                                                            *)

\* A governor whose threads and events are those of its level.
LevelOf(g) ==
  /\ g.ActiveThreads = CASE g.State = "Normal"    -> g.MaxThreads
                         [] g.State = "Throttled" -> (3 * g.MaxThreads) \div 4
                         [] g.State = "Severe"    -> g.MaxThreads \div 2
  /\ g.ThrottleEvents - g.ReenableEvents =
       CASE g.State = "Normal"    -> 0
         [] g.State = "Throttled" -> 1
         [] g.State = "Severe"    -> 2

\* What every step keeps of a governor that is there.
Sound(g) == g \in Gov!Governor /\ g.Window <= g.Total /\ LevelOf(g)

GovernorInv == gBwGov # NULL => Sound(gBwGov)

\* Three quarters and a half of the threads are numbers of threads.
LEMMA Fractions ==
  ASSUME NEW n \in Nat
  PROVE  (3 * n) \div 4 \in Nat /\ n \div 2 \in Nat
BY SMT

\* A governor just allocated is sound.
LEMMA FreshSound ==
  ASSUME Gov!GovernorAssumption, NEW n \in Nat, NEW p \in Nat
  PROVE  Sound(Gov!Fresh(n, p))
BY SMT DEF Gov!GovernorAssumption, Gov!Fresh, Sound, LevelOf, Gov!Governor, Gov!States

\* One level up keeps a governor sound.
LEMMA ThrottledSound ==
  ASSUME NEW g, Sound(g)
  PROVE  Sound(Gov!Throttled(g))
<1>. g.MaxThreads \in Nat /\ g \in Gov!Governor
  BY DEF Sound, Gov!Governor
<1>1. CASE g.State = "Normal"
  <2>. DEFINE h == [g EXCEPT !.State = "Throttled", !.ActiveThreads = Gov!Reduced(g),
                             !.ThrottleEvents = @ + 1]
  <2>1. Gov!Throttled(g) = h
    BY <1>1, Zenon DEF Gov!Throttled
  <2>2. /\ h.State = "Throttled" /\ h.ActiveThreads = Gov!Reduced(g)
        /\ h.ThrottleEvents = g.ThrottleEvents + 1 /\ h.ReenableEvents = g.ReenableEvents
        /\ h.MaxThreads = g.MaxThreads
        /\ h.Window = g.Window /\ h.Total = g.Total
    BY DEF Gov!Governor
  <2>. Gov!Reduced(g) \in Nat /\ g.ThrottleEvents + 1 \in Nat
    BY Fractions DEF Gov!Governor, Gov!Reduced
  <2>3. h \in Gov!Governor
    BY DEF Gov!Governor, Gov!States
  <2>4. g.ThrottleEvents - g.ReenableEvents = 0 /\ g.Window <= g.Total
    BY <1>1 DEF Sound, LevelOf
  <2>5. h.ThrottleEvents - h.ReenableEvents = 1
    BY <2>2, <2>4 DEF Gov!Governor
  <2>6. LevelOf(h)
    BY <2>2, <2>5 DEF LevelOf, Gov!Reduced
  <2>. HIDE DEF h
  <2>. QED  BY <2>1, <2>2, <2>3, <2>4, <2>6 DEF Sound
<1>2. CASE g.State = "Throttled"
  <2>. DEFINE h == [g EXCEPT !.State = "Severe", !.ActiveThreads = g.MaxThreads \div 2,
                             !.ThrottleEvents = @ + 1]
  <2>1. Gov!Throttled(g) = h
    BY <1>2, Zenon DEF Gov!Throttled
  <2>2. /\ h.State = "Severe" /\ h.ActiveThreads = g.MaxThreads \div 2
        /\ h.ThrottleEvents = g.ThrottleEvents + 1 /\ h.ReenableEvents = g.ReenableEvents
        /\ h.MaxThreads = g.MaxThreads
        /\ h.Window = g.Window /\ h.Total = g.Total
    BY DEF Gov!Governor
  <2>. g.MaxThreads \div 2 \in Nat /\ g.ThrottleEvents + 1 \in Nat
    BY Fractions DEF Gov!Governor, Gov!Reduced
  <2>3. h \in Gov!Governor
    BY DEF Gov!Governor, Gov!States
  <2>4. g.ThrottleEvents - g.ReenableEvents = 1 /\ g.Window <= g.Total
    BY <1>2 DEF Sound, LevelOf
  <2>5. h.ThrottleEvents - h.ReenableEvents = 2
    BY <2>2, <2>4 DEF Gov!Governor
  <2>6. LevelOf(h)
    BY <2>2, <2>5 DEF LevelOf, Gov!Reduced
  <2>. HIDE DEF h
  <2>. QED  BY <2>1, <2>2, <2>3, <2>4, <2>6 DEF Sound
<1>3. CASE g.State \notin {"Normal", "Throttled"}
  BY <1>3 DEF Gov!Throttled
<1>. QED  BY <1>1, <1>2, <1>3

\* One level down keeps a governor sound.
LEMMA ReenabledSound ==
  ASSUME NEW g, Sound(g)
  PROVE  Sound(Gov!Reenabled(g))
<1>. g.MaxThreads \in Nat /\ g \in Gov!Governor
  BY DEF Sound, Gov!Governor
<1>1. CASE g.State = "Severe"
  <2>. DEFINE h == [g EXCEPT !.State = "Throttled", !.ActiveThreads = Gov!Reduced(g),
                             !.ReenableEvents = @ + 1]
  <2>1. Gov!Reenabled(g) = h
    BY <1>1, Zenon DEF Gov!Reenabled
  <2>2. /\ h.State = "Throttled" /\ h.ActiveThreads = Gov!Reduced(g)
        /\ h.ReenableEvents = g.ReenableEvents + 1 /\ h.ThrottleEvents = g.ThrottleEvents
        /\ h.MaxThreads = g.MaxThreads
        /\ h.Window = g.Window /\ h.Total = g.Total
    BY DEF Gov!Governor
  <2>. Gov!Reduced(g) \in Nat /\ g.ReenableEvents + 1 \in Nat
    BY Fractions DEF Gov!Governor, Gov!Reduced
  <2>3. h \in Gov!Governor
    BY DEF Gov!Governor, Gov!States
  <2>4. g.ThrottleEvents - g.ReenableEvents = 2 /\ g.Window <= g.Total
    BY <1>1 DEF Sound, LevelOf
  <2>5. h.ThrottleEvents - h.ReenableEvents = 1
    BY <2>2, <2>4 DEF Gov!Governor
  <2>6. LevelOf(h)
    BY <2>2, <2>5 DEF LevelOf, Gov!Reduced
  <2>. HIDE DEF h
  <2>. QED  BY <2>1, <2>2, <2>3, <2>4, <2>6 DEF Sound
<1>2. CASE g.State = "Throttled"
  <2>. DEFINE h == [g EXCEPT !.State = "Normal", !.ActiveThreads = g.MaxThreads,
                             !.ReenableEvents = @ + 1]
  <2>1. Gov!Reenabled(g) = h
    BY <1>2, Zenon DEF Gov!Reenabled
  <2>2. /\ h.State = "Normal" /\ h.ActiveThreads = g.MaxThreads
        /\ h.ReenableEvents = g.ReenableEvents + 1 /\ h.ThrottleEvents = g.ThrottleEvents
        /\ h.MaxThreads = g.MaxThreads
        /\ h.Window = g.Window /\ h.Total = g.Total
    BY DEF Gov!Governor
  <2>. g.MaxThreads \in Nat /\ g.ReenableEvents + 1 \in Nat
    BY Fractions DEF Gov!Governor, Gov!Reduced
  <2>3. h \in Gov!Governor
    BY DEF Gov!Governor, Gov!States
  <2>4. g.ThrottleEvents - g.ReenableEvents = 1 /\ g.Window <= g.Total
    BY <1>2 DEF Sound, LevelOf
  <2>5. h.ThrottleEvents - h.ReenableEvents = 0
    BY <2>2, <2>4 DEF Gov!Governor
  <2>6. LevelOf(h)
    BY <2>2, <2>5 DEF LevelOf, Gov!Reduced
  <2>. HIDE DEF h
  <2>. QED  BY <2>1, <2>2, <2>3, <2>4, <2>6 DEF Sound
<1>3. CASE g.State \notin {"Severe", "Throttled"}
  BY <1>3 DEF Gov!Reenabled
<1>. QED  BY <1>1, <1>2, <1>3

\* Closing the window changes neither the level nor its history.
LEMMA WindowClosed ==
  ASSUME NEW g, Sound(g)
  PROVE  Sound([g EXCEPT !.Window = 0])
<1>. DEFINE h == [g EXCEPT !.Window = 0]
<1>1. h \in Gov!Governor /\ h.Window <= h.Total
  BY DEF Sound, Gov!Governor
<1>2. /\ h.State = g.State /\ h.ActiveThreads = g.ActiveThreads
      /\ h.MaxThreads = g.MaxThreads /\ h.ThrottleEvents = g.ThrottleEvents
      /\ h.ReenableEvents = g.ReenableEvents
  BY DEF Sound, Gov!Governor
<1>. HIDE DEF h
<1>3. Sound(h)
  BY <1>1, <1>2, Zenon DEF Sound, LevelOf
<1>. QED  BY <1>3 DEF h

LEMMA InitGovernor == Gov!Init => GovernorInv
BY DEF Gov!Init, GovernorInv

\* Every call keeps the governor sound.
LEMMA NextGovernor ==
  ASSUME Gov!GovernorAssumption, GovernorInv, [Gov!Next]_gBwGov
  PROVE  GovernorInv'
<1>1. ASSUME NEW n \in Nat, NEW p \in Nat, Gov!BwGovernorInit(n, p)
      PROVE  GovernorInv'
  BY <1>1, FreshSound DEF Gov!BwGovernorInit, GovernorInv
<1>2. ASSUME NEW c \in Counts, Gov!BwGovernorRegisterTransaction(c)
      PROVE  GovernorInv'
  <2>1. c \in Nat /\ Sound(gBwGov)
    BY <1>2 DEF Gov!GovernorAssumption, GovernorInv, Gov!BwGovernorRegisterTransaction
  <2>. DEFINE h == [gBwGov EXCEPT !.Window = @ + c, !.Total = @ + c]
  <2>2. Sound(h)
    <3>1. /\ gBwGov.Window + c \in Nat /\ gBwGov.Total + c \in Nat
          /\ gBwGov.Window + c <= gBwGov.Total + c
      BY <2>1 DEF Sound, Gov!Governor
    <3>2. h \in Gov!Governor /\ h.Window <= h.Total
      BY <2>1, <3>1 DEF Sound, Gov!Governor
    <3>3. /\ h.State = gBwGov.State /\ h.ActiveThreads = gBwGov.ActiveThreads
          /\ h.MaxThreads = gBwGov.MaxThreads /\ h.ThrottleEvents = gBwGov.ThrottleEvents
          /\ h.ReenableEvents = gBwGov.ReenableEvents
      BY <2>1 DEF Sound, Gov!Governor
    <3>. HIDE DEF h
    <3>. QED  BY <2>1, <3>2, <3>3, Zenon DEF Sound, LevelOf
  <2>. QED  BY <1>2, <2>2 DEF Gov!BwGovernorRegisterTransaction, GovernorInv
<1>3. ASSUME NEW k \in 0 .. 1, Gov!BwGovernorV71RegisterDboPrefetch(k)
      PROVE  GovernorInv'
  <2>1. Sound(gBwGov)
    BY <1>3 DEF GovernorInv, Gov!BwGovernorV71RegisterDboPrefetch
  <2>. DEFINE h == [gBwGov EXCEPT !.Requests = @ + 1, !.Hits = @ + k]
  <2>2. Sound(h)
    <3>1. gBwGov.Requests + 1 \in Nat /\ gBwGov.Hits + k \in Nat
      BY <2>1 DEF Sound, Gov!Governor
    <3>2. h \in Gov!Governor /\ h.Window <= h.Total
      BY <2>1, <3>1 DEF Sound, Gov!Governor
    <3>3. /\ h.State = gBwGov.State /\ h.ActiveThreads = gBwGov.ActiveThreads
          /\ h.MaxThreads = gBwGov.MaxThreads /\ h.ThrottleEvents = gBwGov.ThrottleEvents
          /\ h.ReenableEvents = gBwGov.ReenableEvents
      BY <2>1 DEF Sound, Gov!Governor
    <3>. HIDE DEF h
    <3>. QED  BY <2>1, <3>2, <3>3, Zenon DEF Sound, LevelOf
  <2>. QED  BY <1>3, <2>2 DEF Gov!BwGovernorV71RegisterDboPrefetch, GovernorInv
<1>4. CASE Gov!BwGovernorProcessWindow
  <2>1. Sound(gBwGov)
    BY <1>4 DEF GovernorInv, Gov!BwGovernorProcessWindow
  <2>. DEFINE decided == IF Gov!Busy(gBwGov) THEN Gov!Throttled(gBwGov)
                         ELSE IF Gov!Quiet(gBwGov) THEN Gov!Reenabled(gBwGov) ELSE gBwGov
  <2>2. Sound(decided)
    BY <2>1, ThrottledSound, ReenabledSound
  <2>3. gBwGov' = [decided EXCEPT !.Window = 0]
    BY <1>4 DEF Gov!BwGovernorProcessWindow
  <2>. HIDE DEF decided
  <2>. QED  BY <2>2, <2>3, WindowClosed DEF GovernorInv
<1>5. CASE UNCHANGED gBwGov
  BY <1>5 DEF GovernorInv
<1>6. DefaultThreads \in Nat /\ DefaultPeak \in Nat
      /\ ThreadCounts \subseteq Nat /\ Peaks \subseteq Nat
  BY DEF Gov!GovernorAssumption
<1>. QED  BY <1>1, <1>2, <1>3, <1>4, <1>5, <1>6 DEF Gov!Next, Gov!BwGovernorV71Init

\* Type correctness and the levels follow from the invariant.
LEMMA GovernorInvGives ==
  ASSUME GovernorInv
  PROVE  Gov!TypeOK /\ Gov!GovernorLevels
<1>1. CASE gBwGov = NULL
  BY <1>1 DEF Gov!TypeOK, Gov!GovernorLevels, Gov!ThreadsFollowState, Gov!EventsGiveLevel,
              Gov!BwGovernorGetActiveThreads, Gov!BwGovernorV71GetEffectiveThreads
<1>2. CASE gBwGov # NULL
  <2>1. Sound(gBwGov) /\ gBwGov.State \in Gov!States
    BY <1>2 DEF GovernorInv, Sound, Gov!Governor
  <2>2. Gov!BwGovernorGetActiveThreads = Gov!BwGovernorV71GetEffectiveThreads
    BY <1>2, <2>1 DEF Sound, LevelOf, Gov!BwGovernorGetActiveThreads,
                      Gov!BwGovernorV71GetEffectiveThreads
  <2>. QED  BY <1>2, <2>1, <2>2 DEF Sound, LevelOf, Gov!TypeOK, Gov!GovernorLevels,
                 Gov!ThreadsFollowState, Gov!EventsGiveLevel, Gov!BwGovernorGetState
<1>. QED  BY <1>1, <1>2

LEMMA StepOfGovernor == [Next]_vars => [Gov!Next]_gBwGov
<1>1. GovStep => Gov!Next
  BY DEF GovStep
<1>2. [Next]_vars => GovStep \/ UNCHANGED gBwGov
  BY DEF Next, vars, L0Step, IrqStep, HmcStep, TageStep, FusionStep
<1>. QED  BY <1>1, <1>2

LEMMA GovernorInvAlways == Spec => []GovernorInv
<1>1. Gov!GovernorAssumption
  BY UnitsAssumption DEF UnitsAssumption
<1>2. Init => GovernorInv
  BY <1>1, InitGovernor DEF Init
<1>3. GovernorInv /\ [Next]_vars => GovernorInv'
  BY <1>1, NextGovernor, StepOfGovernor
<1>. QED  BY <1>2, <1>3, PTL DEF Spec

\* The number of threads a scheduler is told, by either query, is that of the
\* level, and the event counters give the level, on every path.
THEOREM LevelsAlways == Spec => []GovernorLevels
<1>1. GovernorInv => GovernorLevels
  BY GovernorInvGives DEF GovernorLevels
<1>. QED  BY <1>1, GovernorInvAlways, PTL

-------------------------------------------------------------------------------
(* The memory compressor                                                   *)

\* The counters of each direction pay for themselves at the smallest ratio, and
\* the ratio in force is not below it.
Honest(c) ==
  /\ c.Ratio >= least /\ least >= Hmc!MinRatio /\ c.PeakPhysical = PhysicalBw
  /\ \A d \in Hmc!Dir : c.Raw[d] * 10 >= least * c.Compressed[d]

CompressorInv ==
  /\ least \in Nat
  /\ gMemComp # NULL => /\ gMemComp \in Hmc!Compressor /\ Honest(gMemComp)
                        /\ Hmc!PeakFollowsRatio /\ Hmc!LinesHoldBytes

\* A size divided by a ratio and multiplied again has not grown, and the ratio
\* may be lowered.
LEMMA CompressedPays ==
  ASSUME NEW n \in Nat, NEW r \in Nat, NEW l \in Nat, r >= l, l > 0
  PROVE  /\ (n * 10) \div r \in Nat
         /\ n * 10 >= l * ((n * 10) \div r)
<1>. DEFINE q == (n * 10) \div r
<1>1. q \in Nat /\ n * 10 >= r * q
  BY SMT
<1>. HIDE DEF q
<1>2. r * q >= l * q /\ l * q \in Nat /\ r * q \in Nat
  BY <1>1, SMT
<1>. QED  BY <1>1, <1>2 DEF q

\* A number of lines, rounded up, holds the bytes.
LEMMA RoundedUp ==
  ASSUME NEW n \in Nat, NEW s \in Nat \ {0}
  PROVE  /\ (n + s - 1) \div s \in Nat
         /\ ((n + s - 1) \div s) * s >= n
<1>. DEFINE q == (n + s - 1) \div s
<1>1. q \in Nat /\ n + s - 1 < s * (q + 1)
  BY SMT
<1>. HIDE DEF q
<1>2. s * (q + 1) = q * s + s /\ q * s \in Nat
  BY <1>1, SMT
<1>. QED  BY <1>1, <1>2 DEF q

LEMMA Ratios ==
  ASSUME NEW p \in DOMAIN Hmc!PatternRatio
  PROVE  /\ Hmc!PatternRatio[p] \in Nat /\ Hmc!PatternRatio[p] >= Hmc!MinRatio
         /\ Hmc!PatternRatio[p] # Hmc!V72Ratio
BY DEF Hmc!PatternRatio, Hmc!MinRatio, Hmc!V72Ratio

LEMMA CompressorStarts ==
  ASSUME Hmc!CompressorAssumption, NEW r \in TargetRatios, Hmc!MemoryCompressorInit(r)
  PROVE  CompressorInv'
<1>1. CASE gMemComp' = NULL /\ least' = 0
  BY <1>1 DEF CompressorInv
<1>2. CASE ~(gMemComp' = NULL /\ least' = 0)
  <2>. DEFINE c == gMemComp'  k == Hmc!Clamped(r)  none == [d \in Hmc!Dir |-> 0]
  <2>1. k \in Nat /\ k >= Hmc!MinRatio /\ Hmc!MinRatio > 0 /\ PhysicalBw * k \in Nat
        /\ PhysicalBw \in Nat
    BY DEF Hmc!CompressorAssumption, Hmc!Clamped, Hmc!MinRatio
  <2>. HIDE DEF k
  <2>2. c = [Ratio |-> k, PeakPhysical |-> PhysicalBw, PeakEffective |-> PhysicalBw * k,
             Raw |-> none, Compressed |-> none, Lines |-> none, Latency |-> 0]
        /\ least' = k
    BY <1>2 DEF Hmc!MemoryCompressorInit, k
  <2>3. none \in [Hmc!Dir -> Nat] /\ \A d \in Hmc!Dir : none[d] = 0
    OBVIOUS
  <2>. HIDE DEF none
  <2>4. c \in Hmc!Compressor
    BY <2>1, <2>2, <2>3 DEF Hmc!Compressor
  <2>5. "read" \in Hmc!Dir /\ LinkLine \in Nat /\ k * 0 = 0 /\ 0 * LinkLine = 0
    BY <2>1 DEF Hmc!Dir, Hmc!CompressorAssumption
  <2>6. Honest(gMemComp)'
    BY <2>1, <2>2, <2>3, <2>5 DEF Honest
  <2>7. Hmc!LinesHoldBytes'
    BY <2>2, <2>3, <2>5 DEF Hmc!LinesHoldBytes
  <2>8. Hmc!PeakFollowsRatio'
    BY <2>1, <2>2 DEF Hmc!PeakFollowsRatio, Hmc!MemoryCompressorV72GetEffectiveBW,
                      Hmc!CompressorAssumption
  <2>. QED  BY <2>1, <2>2, <2>4, <2>6, <2>7, <2>8 DEF CompressorInv
<1>. QED  BY <1>1, <1>2

LEMMA CompressorAccess ==
  ASSUME Hmc!CompressorAssumption, CompressorInv,
         NEW d \in Hmc!Dir, NEW n \in Transfers, Hmc!Access(d, n)
  PROVE  CompressorInv'
<1>. DEFINE c == gMemComp
            k == Hmc!CompressedSize(n)
            m == Hmc!LinesOf(n)
            more == IF d = "read" THEN m ELSE 0
<1>1. /\ c # NULL /\ c \in Hmc!Compressor /\ Honest(c) /\ least \in Nat /\ least' = least
      /\ n \in Nat /\ LinkLine \in Nat \ {0} /\ least > 0
  BY DEF CompressorInv, Hmc!Access, Hmc!CompressorAssumption, Honest, Hmc!MinRatio
<1>2. k \in Nat /\ n * 10 >= least * k
  BY <1>1, CompressedPays DEF Hmc!CompressedSize, Honest, Hmc!Compressor
<1>3. m \in Nat /\ m * LinkLine >= n
  BY <1>1, RoundedUp DEF Hmc!LinesOf
<1>4. c' = [c EXCEPT !.Raw[d] = @ + n, !.Compressed[d] = @ + k, !.Lines[d] = @ + m,
                     !.Latency = @ + more]
  BY DEF Hmc!Access
<1>. HIDE DEF k, m
<1>5. /\ c.Raw \in [Hmc!Dir -> Nat] /\ c.Compressed \in [Hmc!Dir -> Nat]
      /\ c.Lines \in [Hmc!Dir -> Nat] /\ c.Latency \in Nat /\ c.Ratio \in Nat
      /\ c.PeakPhysical \in Nat /\ c.PeakEffective \in Nat
  BY <1>1 DEF Hmc!Compressor
<1>. DEFINE raw   == [c.Raw EXCEPT ![d] = @ + n]
            comp  == [c.Compressed EXCEPT ![d] = @ + k]
            lines == [c.Lines EXCEPT ![d] = @ + m]
<1>6. c' = [Ratio |-> c.Ratio, PeakPhysical |-> c.PeakPhysical,
            PeakEffective |-> c.PeakEffective, Raw |-> raw, Compressed |-> comp,
            Lines |-> lines, Latency |-> c.Latency + more]
  BY <1>1, <1>4 DEF Hmc!Compressor
<1>7. raw \in [Hmc!Dir -> Nat] /\ comp \in [Hmc!Dir -> Nat] /\ lines \in [Hmc!Dir -> Nat]
      /\ more \in Nat
  BY <1>1, <1>2, <1>3, <1>5
<1>8. \A e \in Hmc!Dir :
        /\ raw[e] * 10 >= least * comp[e] /\ lines[e] * LinkLine >= raw[e]
  <2>. SUFFICES ASSUME NEW e \in Hmc!Dir
                PROVE  raw[e] * 10 >= least * comp[e] /\ lines[e] * LinkLine >= raw[e]
    OBVIOUS
  <2>1. c.Raw[e] * 10 >= least * c.Compressed[e] /\ c.Lines[e] * LinkLine >= c.Raw[e]
    BY <1>1 DEF Honest, CompressorInv, Hmc!LinesHoldBytes
  <2>2. CASE e # d
    BY <1>5, <2>1, <2>2
  <2>3. CASE e = d
    <3>1. raw[e] = c.Raw[e] + n /\ comp[e] = c.Compressed[e] + k /\ lines[e] = c.Lines[e] + m
      BY <1>5, <2>3
    <3>2. c.Raw[e] \in Nat /\ c.Compressed[e] \in Nat /\ c.Lines[e] \in Nat
      BY <1>5
    <3>3. least * (c.Compressed[e] + k) = least * c.Compressed[e] + least * k
          /\ (c.Lines[e] + m) * LinkLine = c.Lines[e] * LinkLine + m * LinkLine
      BY <1>1, <1>2, <1>3, <3>2, SMT
    <3>4. least * c.Compressed[e] \in Nat /\ least * k \in Nat /\ m * LinkLine \in Nat
          /\ c.Lines[e] * LinkLine \in Nat
      BY <1>1, <1>2, <1>3, <3>2, SMT
    <3>. HIDE DEF raw, comp, lines
    <3>. QED  BY <1>1, <1>2, <1>3, <2>1, <3>1, <3>2, <3>3, <3>4
  <2>. QED  BY <2>2, <2>3
<1>9. c.Latency + more = lines["read"] /\ "read" \in Hmc!Dir
  <2>1. c.Latency = c.Lines["read"] /\ "read" \in Hmc!Dir
    BY <1>1 DEF CompressorInv, Hmc!LinesHoldBytes, Hmc!Dir
  <2>. QED  BY <1>3, <1>5, <2>1
<1>. HIDE DEF raw, comp, lines, more
<1>10. c' \in Hmc!Compressor
  BY <1>5, <1>6, <1>7 DEF Hmc!Compressor
<1>11. Honest(gMemComp)'
  BY <1>1, <1>6, <1>8 DEF Honest
<1>12. Hmc!PeakFollowsRatio' /\ Hmc!LinesHoldBytes'
  BY <1>1, <1>6, <1>8, <1>9 DEF CompressorInv, Hmc!PeakFollowsRatio, Hmc!LinesHoldBytes
<1>. QED  BY <1>1, <1>10, <1>11, <1>12 DEF CompressorInv

\* A new ratio lowers the smallest one with it.
LEMMA CompressorRetargets ==
  ASSUME Hmc!CompressorAssumption, CompressorInv, gMemComp # NULL,
         NEW r \in Nat, r >= Hmc!MinRatio, NEW peak \in Nat, peak = PhysicalBw * r,
         Hmc!Retarget(r, peak), least' = Hmc!AtMost(least, r)
  PROVE  CompressorInv'
<1>. DEFINE c == gMemComp
<1>1. /\ c \in Hmc!Compressor /\ Honest(c) /\ least \in Nat
      /\ PhysicalBw * Hmc!V72Ratio = Hmc!V72Effective
  BY DEF CompressorInv, Hmc!CompressorAssumption
<1>2. c' = [Ratio |-> r, PeakPhysical |-> c.PeakPhysical, PeakEffective |-> peak,
            Raw |-> c.Raw, Compressed |-> c.Compressed, Lines |-> c.Lines,
            Latency |-> c.Latency]
  BY <1>1 DEF Hmc!Retarget, Hmc!Compressor
<1>3. least' \in Nat /\ least' <= least /\ least' <= r /\ least' >= Hmc!MinRatio
  BY <1>1 DEF Hmc!AtMost, Honest, Hmc!MinRatio
<1>4. c' \in Hmc!Compressor
  BY <1>1, <1>2 DEF Hmc!Compressor
<1>5. ASSUME NEW d \in Hmc!Dir
      PROVE  c.Raw[d] * 10 >= least' * c.Compressed[d]
  <2>1. c.Raw[d] \in Nat /\ c.Compressed[d] \in Nat
    BY <1>1 DEF Hmc!Compressor
  <2>2. least' * c.Compressed[d] <= least * c.Compressed[d]
        /\ least' * c.Compressed[d] \in Nat /\ least * c.Compressed[d] \in Nat
    BY <1>1, <1>3, <2>1, SMT
  <2>3. c.Raw[d] * 10 >= least * c.Compressed[d]
    BY <1>1 DEF Honest
  <2>. QED  BY <2>1, <2>2, <2>3
<1>6. Honest(gMemComp)'
  BY <1>1, <1>2, <1>3, <1>5 DEF Honest
<1>7. Hmc!LinesHoldBytes'
  BY <1>2 DEF CompressorInv, Hmc!LinesHoldBytes
<1>8. Hmc!PeakFollowsRatio'
  BY <1>1, <1>2 DEF Hmc!PeakFollowsRatio, Hmc!MemoryCompressorV72GetEffectiveBW, Honest
<1>. QED  BY <1>3, <1>4, <1>6, <1>7, <1>8 DEF CompressorInv

LEMMA NextCompressor ==
  ASSUME Hmc!CompressorAssumption, CompressorInv, [Hmc!Next]_hmcVars
  PROVE  CompressorInv'
<1>1. ASSUME NEW n \in Transfers, Hmc!MemoryCompressorWrite(n)
      PROVE  CompressorInv'
  <2>1. "write" \in Hmc!Dir /\ Hmc!Access("write", n)
    BY <1>1 DEF Hmc!Dir, Hmc!MemoryCompressorWrite
  <2>. QED  BY <2>1, CompressorAccess
<1>2. ASSUME NEW n \in Transfers, Hmc!MemoryCompressorRead(n)
      PROVE  CompressorInv'
  <2>1. "read" \in Hmc!Dir /\ Hmc!Access("read", n)
    BY <1>2 DEF Hmc!Dir, Hmc!MemoryCompressorRead
  <2>. QED  BY <2>1, CompressorAccess
<1>3. ASSUME NEW p \in DOMAIN Hmc!PatternRatio, Hmc!MemoryCompressorSetWorkloadPattern(p)
      PROVE  CompressorInv'
  <2>. DEFINE r == Hmc!PatternRatio[p]
  <2>1. r \in Nat /\ r >= Hmc!MinRatio
    BY Ratios
  <2>2. gMemComp # NULL /\ gMemComp.PeakPhysical = PhysicalBw /\ PhysicalBw \in Nat
    BY <1>3 DEF Hmc!MemoryCompressorSetWorkloadPattern, CompressorInv, Honest,
                Hmc!CompressorAssumption
  <2>3. Hmc!Retarget(r, PhysicalBw * r) /\ least' = Hmc!AtMost(least, r)
    BY <1>3, <2>2, Zenon DEF Hmc!MemoryCompressorSetWorkloadPattern
  <2>. HIDE DEF r
  <2>4. PhysicalBw * r \in Nat
    BY <2>1, <2>2
  <2>. QED  BY <2>1, <2>2, <2>3, <2>4, CompressorRetargets
<1>4. CASE Hmc!MemoryCompressorV72Init
  <2>1. Hmc!V72Effective = PhysicalBw * Hmc!V72Ratio
    BY DEF Hmc!CompressorAssumption
  <2>2. Hmc!V72Effective \in Nat /\ Hmc!V72Ratio \in Nat /\ Hmc!V72Ratio >= Hmc!MinRatio
    BY DEF Hmc!V72Effective, Hmc!V72Ratio, Hmc!MinRatio
  <2>3. Hmc!Retarget(Hmc!V72Ratio, Hmc!V72Effective) /\ gMemComp # NULL
        /\ least' = Hmc!AtMost(least, Hmc!V72Ratio)
    BY <1>4, Zenon DEF Hmc!MemoryCompressorV72Init
  <2>. QED  BY <2>1, <2>2, <2>3, CompressorRetargets
<1>5. CASE UNCHANGED hmcVars
  BY <1>5 DEF hmcVars, CompressorInv, Honest, Hmc!PeakFollowsRatio, Hmc!LinesHoldBytes,
              Hmc!MemoryCompressorV72GetEffectiveBW
<1>. QED  BY <1>1, <1>2, <1>3, <1>4, <1>5, CompressorStarts DEF Hmc!Next

\* What the compressor reports follows from the invariant.
LEMMA CompressorInvGives ==
  ASSUME CompressorInv
  PROVE  CompressorReports
<1>. SUFFICES ASSUME gMemComp # NULL
              PROVE  Hmc!AtLeast(least) /\ Hmc!AtLeast(Hmc!MinRatio)
  BY DEF CompressorReports, CompressorInv, Hmc!ReportCoversTarget, Hmc!PeakFollowsRatio,
         Hmc!LinesHoldBytes
<1>. DEFINE a == gMemComp.Raw["read"]         b == gMemComp.Raw["write"]
            x == gMemComp.Compressed["read"]  y == gMemComp.Compressed["write"]
<1>1. a \in Nat /\ b \in Nat /\ x \in Nat /\ y \in Nat /\ least \in Nat /\ least >= 10
  BY DEF CompressorInv, Hmc!Compressor, Hmc!Dir, Honest, Hmc!MinRatio
<1>2. a * 10 >= least * x /\ b * 10 >= least * y
  BY DEF CompressorInv, Honest, Hmc!Dir
<1>. HIDE DEF a, b, x, y
<1>3. least * (x + y) = least * x + least * y /\ least * x \in Nat /\ least * y \in Nat
  BY <1>1, SMT
<1>4. least * (x + y) >= 10 * (x + y)
  BY <1>1, SMT
<1>5. (a + b) * 10 >= least * (x + y) /\ (a + b) * 10 >= 10 * (x + y)
  BY <1>1, <1>2, <1>3, <1>4
<1>. QED  BY <1>5 DEF a, b, x, y, Hmc!AtLeast, Hmc!TotalRaw, Hmc!TotalCompressed, Hmc!MinRatio

LEMMA StepOfCompressor == [Next]_vars => [Hmc!Next]_hmcVars
<1>1. HmcStep => Hmc!Next
  BY DEF HmcStep
<1>2. [Next]_vars => HmcStep \/ UNCHANGED hmcVars
  BY DEF Next, vars, L0Step, IrqStep, GovStep, TageStep, FusionStep
<1>. QED  BY <1>1, <1>2

LEMMA CompressorInvAlways == Spec => []CompressorInv
<1>1. Hmc!CompressorAssumption
  BY UnitsAssumption DEF UnitsAssumption
<1>2. Init => CompressorInv
  BY DEF Init, Hmc!Init, CompressorInv
<1>3. CompressorInv /\ [Next]_vars => CompressorInv'
  BY <1>1, NextCompressor, StepOfCompressor
<1>. QED  BY <1>2, <1>3, PTL DEF Spec

\* However ratios and accesses alternate, the bandwidth reported is at least
\* that of the smallest ratio, the peak is that of the ratio in force, and the
\* lines counted hold the bytes.
THEOREM ReportsAlways == Spec => []CompressorReports
BY CompressorInvAlways, CompressorInvGives, PTL

-------------------------------------------------------------------------------
(* The L0 micro-caches                                                     *)

LineType  == [valid : BOOLEAN, tag : Tags, data : [L0!Offset -> Values \cup {0}]]
CacheType == [line : [L0!Index -> LineType],
              accesses : Nat, hits : Nat, misses : Nat, writes : Nat]
WordType  == L0!Unit \X Tags \X L0!Index \X L0!Offset \X Values

\* A byte of a line that is not zero is what unit u wrote there.
Sourced(u, i, l) ==
  l.valid => \A o \in L0!Offset : l.data[o] # 0 => <<u, l.tag, i, o, l.data[o]>> \in wrote

\* The cache c of unit u.
CacheSound(u, c) ==
  /\ c \in CacheType /\ u < activeUnits
  /\ \A i \in L0!Index : Sourced(u, i, c.line[i])
  /\ c.accesses = c.hits + c.misses + c.writes

L0Inv ==
  /\ activeUnits \in 0 .. MaxUnits /\ wrote \subseteq WordType
  /\ cache \in [L0!Unit -> CacheType \cup {NULL}]
  /\ \A u \in L0!Unit : cache[u] # NULL => CacheSound(u, cache[u])

LEMMA SomeTag ==
  ASSUME L0!L0Assumption
  PROVE  L0!AnyTag \in Tags
BY DEF L0!L0Assumption, L0!AnyTag

LEMMA ZeroLineType ==
  ASSUME NEW t \in Tags
  PROVE  /\ L0!ZeroLine(t) \in LineType /\ L0!ZeroLine(t).tag = t
         /\ \A o \in L0!Offset : L0!ZeroLine(t).data[o] = 0
BY DEF L0!ZeroLine, LineType

LEMMA EmptyCacheType ==
  ASSUME L0!L0Assumption
  PROVE  LET c == L0!EmptyCache(L0!AnyTag)
         IN  /\ c \in CacheType /\ c.accesses = 0 /\ c.hits = 0 /\ c.misses = 0 /\ c.writes = 0
             /\ \A i \in L0!Index : ~c.line[i].valid
<1>. DEFINE t == L0!AnyTag
            z == [L0!ZeroLine(t) EXCEPT !.valid = FALSE]
<1>1. z \in LineType /\ z.valid = FALSE
  BY SomeTag, ZeroLineType DEF LineType
<1>. HIDE DEF z
<1>2. [i \in L0!Index |-> z] \in [L0!Index -> LineType]
  BY <1>1
<1>. QED  BY <1>1, <1>2 DEF L0!EmptyCache, CacheType, z

LEMMA L0Starts ==
  ASSUME L0!L0Assumption, L0!Init
  PROVE  L0Inv
BY DEF L0!L0Assumption, L0!Init, L0Inv

LEMMA L0Initialised ==
  ASSUME L0!L0Assumption, L0Inv, NEW n \in Nat, NEW f \in Nat, L0!L0CacheInit(n, f)
  PROVE  L0Inv'
<1>. DEFINE e == L0!EmptyCache(L0!AnyTag)  k == L0!Clamped(n)
<1>1. k \in 0 .. MaxUnits
  BY DEF L0!Clamped, L0!L0Assumption
<1>. HIDE DEF e, k
<1>2. cache' = [u \in L0!Unit |-> IF u < k /\ u < f THEN e ELSE NULL]
      /\ activeUnits' = k /\ wrote' = {}
  BY DEF L0!L0CacheInit, e, k
<1>3. /\ e \in CacheType /\ e.accesses = 0 /\ e.hits = 0 /\ e.misses = 0 /\ e.writes = 0
      /\ \A i \in L0!Index : ~e.line[i].valid
  BY EmptyCacheType DEF e
<1>4. ASSUME NEW u \in L0!Unit, cache'[u] # NULL
      PROVE  CacheSound(u, cache[u])'
  <2>1. cache'[u] = e /\ u < k
    BY <1>2, <1>4
  <2>. QED  BY <1>2, <1>3, <2>1 DEF CacheSound, Sourced
<1>5. cache' \in [L0!Unit -> CacheType \cup {NULL}]
  BY <1>2, <1>3
<1>. QED  BY <1>1, <1>2, <1>4, <1>5 DEF L0Inv

\* A read leaves a line of its unit that is sourced as the one before was.
LEMMA L0Reads ==
  ASSUME L0!L0Assumption, L0Inv,
         NEW u \in L0!Unit, NEW t \in Tags, NEW i \in L0!Index, L0!L0CacheRead(u, t, i)
  PROVE  L0Inv'
<1>. DEFINE c == cache[u]
            l == c.line[i]
            hit == L0!Matches(l, t)
            new == IF hit THEN l ELSE L0!Installed(l, t)
            counted == L0!CountRead(c, hit)
            d == [counted EXCEPT !.line[i] = new]
<1>1. c # NULL /\ CacheSound(u, c) /\ c \in CacheType /\ l \in LineType
  BY DEF L0!L0CacheRead, L0!Ready, L0Inv, CacheSound, CacheType
<1>2. cache' = [cache EXCEPT ![u] = d] /\ UNCHANGED <<activeUnits, wrote>>
  BY DEF L0!L0CacheRead
<1>3. hit \in BOOLEAN
  BY DEF L0!Matches, LineType
<1>4. new \in LineType /\ Sourced(u, i, new)
  <2>1. CASE hit
    BY <1>1, <2>1 DEF CacheSound
  <2>2. CASE ~hit
    BY <2>2, ZeroLineType DEF L0!Installed, Sourced
  <2>. QED  BY <2>1, <2>2
<1>. HIDE DEF new, hit
<1>5. /\ counted \in CacheType /\ counted.line = c.line
      /\ counted.accesses = counted.hits + counted.misses + counted.writes
  <2>. DEFINE h == IF hit THEN c.hits + 1 ELSE c.hits
              m == IF hit THEN c.misses ELSE c.misses + 1
  <2>1. /\ c.accesses \in Nat /\ c.hits \in Nat /\ c.misses \in Nat /\ c.writes \in Nat
        /\ c.line \in [L0!Index -> LineType]
        /\ c.accesses = c.hits + c.misses + c.writes
    BY <1>1 DEF CacheSound, CacheType
  <2>2. h \in Nat /\ m \in Nat /\ c.accesses + 1 = h + m + c.writes
    BY <2>1
  <2>3. counted = [c EXCEPT !.accesses = @ + 1, !.hits = h, !.misses = m]
    BY DEF L0!CountRead
  <2>. HIDE DEF h, m
  <2>4. counted = [line |-> c.line, accesses |-> c.accesses + 1, hits |-> h, misses |-> m,
                   writes |-> c.writes]
    BY <1>1, <2>3 DEF CacheType
  <2>. QED  BY <2>1, <2>2, <2>4 DEF CacheType
<1>. HIDE DEF counted
<1>6. /\ d \in CacheType /\ d.line = [c.line EXCEPT ![i] = new]
      /\ d.accesses = d.hits + d.misses + d.writes
  BY <1>4, <1>5 DEF CacheType
<1>. HIDE DEF d
<1>7. \A j \in L0!Index : Sourced(u, j, d.line[j])
  BY <1>1, <1>4, <1>6 DEF CacheSound, CacheType
<1>8. CacheSound(u, d)
  BY <1>1, <1>6, <1>7 DEF CacheSound
<1>9. cache' \in [L0!Unit -> CacheType \cup {NULL}]
  BY <1>2, <1>6 DEF L0Inv
<1>10. \A w \in L0!Unit : cache'[w] # NULL => CacheSound(w, cache'[w])
  BY <1>2, <1>8 DEF L0Inv
<1>11. \A w \in L0!Unit : cache'[w] # NULL => CacheSound(w, cache[w])'
  BY <1>2, <1>10 DEF CacheSound, Sourced
<1>. QED  BY <1>2, <1>9, <1>11 DEF L0Inv

\* A write replaces what was written to its bytes, in the line and in the
\* history alike.
LEMMA L0Writes ==
  ASSUME L0!L0Assumption, L0Inv,
         NEW u \in L0!Unit, NEW t \in Tags, NEW i \in L0!Index, NEW o \in L0!Offset,
         NEW n \in Sizes, NEW v \in Values, L0!L0CacheWrite(u, t, i, o, n, v)
  PROVE  L0Inv'
<1>. DEFINE c == cache[u]
            l == c.line[i]
            bytes == L0!Bytes(o, n)
            line == IF L0!Matches(l, t) THEN l ELSE L0!Installed(l, t)
            stored == [b \in L0!Offset |-> IF b \in bytes THEN v ELSE line.data[b]]
            new == [line EXCEPT !.data = stored]
            kept == {w \in wrote : ~(<<w[1], w[2], w[3]>> = <<u, t, i>> /\ w[4] \in bytes)}
<1>1. c # NULL /\ CacheSound(u, c) /\ c \in CacheType /\ l \in LineType
  BY DEF L0!L0CacheWrite, L0!Ready, L0Inv, CacheSound, CacheType
<1>2. /\ cache' = [cache EXCEPT ![u].line[i] = new,
                                ![u].accesses = @ + 1, ![u].writes = @ + 1]
      /\ wrote' = kept \cup {<<u, t, i, b, v>> : b \in bytes}
      /\ UNCHANGED activeUnits
  BY DEF L0!L0CacheWrite
<1>3. bytes \subseteq L0!Offset /\ wrote \subseteq WordType
  BY DEF L0!Bytes, L0Inv
<1>4. line \in LineType /\ (line.valid => line.tag = t)
      /\ \A b \in L0!Offset : line.valid /\ line.data[b] # 0 => <<u, t, i, b, line.data[b]>> \in wrote
  <2>1. CASE L0!Matches(l, t)
    BY <1>1, <2>1 DEF CacheSound, Sourced, L0!Matches
  <2>2. CASE ~L0!Matches(l, t)
    BY <2>2, ZeroLineType DEF L0!Installed
  <2>. QED  BY <2>1, <2>2
<1>. HIDE DEF line, bytes
<1>5. /\ new \in LineType /\ new.valid = line.valid /\ new.tag = line.tag
      /\ \A b \in L0!Offset : new.data[b] = IF b \in bytes THEN v ELSE line.data[b]
  <2>1. stored \in [L0!Offset -> Values \cup {0}]
    BY <1>3, <1>4 DEF LineType
  <2>2. \A b \in L0!Offset : stored[b] = IF b \in bytes THEN v ELSE line.data[b]
    OBVIOUS
  <2>. HIDE DEF stored
  <2>. QED  BY <1>4, <2>1, <2>2 DEF LineType
<1>. HIDE DEF new
<1>. DEFINE d == [c EXCEPT !.line[i] = new, !.accesses = @ + 1, !.writes = @ + 1]
<1>6. cache' = [cache EXCEPT ![u] = d]
  BY <1>1, <1>2 DEF L0Inv
<1>7. /\ d \in CacheType /\ d.line = [c.line EXCEPT ![i] = new]
      /\ d.accesses = d.hits + d.misses + d.writes
  <2>. DEFINE lines == [c.line EXCEPT ![i] = new]
  <2>1. /\ c.accesses \in Nat /\ c.hits \in Nat /\ c.misses \in Nat /\ c.writes \in Nat
        /\ lines \in [L0!Index -> LineType]
        /\ c.accesses = c.hits + c.misses + c.writes
    BY <1>1, <1>5 DEF CacheSound, CacheType
  <2>2. d = [line |-> lines, accesses |-> c.accesses + 1, hits |-> c.hits,
             misses |-> c.misses, writes |-> c.writes + 1]
    <3>1. c = [line |-> c.line, accesses |-> c.accesses, hits |-> c.hits,
               misses |-> c.misses, writes |-> c.writes]
      BY <1>1 DEF CacheType
    <3>2. d = [c EXCEPT !.line = lines, !.accesses = c.accesses + 1,
                        !.writes = c.writes + 1]
      BY <3>1
    <3>. HIDE DEF lines, d
    <3>. QED  BY <3>1, <3>2, Zenon
  <2>. HIDE DEF lines, d
  <2>3. d \in CacheType /\ d.line = lines /\ d.accesses = d.hits + d.misses + d.writes
    BY <2>1, <2>2 DEF CacheType
  <2>. QED  BY <2>3 DEF lines
<1>. HIDE DEF d, kept
<1>8. ASSUME NEW w \in wrote, <<w[1], w[2], w[3]>> # <<u, t, i>> \/ w[4] \notin bytes
      PROVE  w \in wrote'
  BY <1>2, <1>8 DEF kept
<1>9. ASSUME NEW b \in L0!Offset, new.valid, new.data[b] # 0
      PROVE  <<u, new.tag, i, b, new.data[b]>> \in wrote'
  <2>1. new.tag = t
    BY <1>4, <1>5, <1>9
  <2>2. CASE b \in bytes
    BY <1>2, <1>5, <2>1, <2>2
  <2>3. CASE b \notin bytes
    <3>1. <<u, t, i, b, line.data[b]>> \in wrote /\ new.data[b] = line.data[b]
      BY <1>4, <1>5, <1>9, <2>3
    <3>. QED  BY <1>8, <2>1, <2>3, <3>1
  <2>. QED  BY <2>2, <2>3
<1>10. ASSUME NEW w \in L0!Unit, NEW j \in L0!Index, w # u \/ j # i,
              cache[w] # NULL
       PROVE  Sourced(w, j, cache[w].line[j])'
  <2>1. cache'[w].line[j] = cache[w].line[j]
    BY <1>1, <1>6, <1>7, <1>10 DEF L0Inv, CacheType
  <2>2. Sourced(w, j, cache[w].line[j])
    BY <1>10 DEF L0Inv, CacheSound
  <2>3. ASSUME NEW b \in L0!Offset, cache[w].line[j].valid, cache[w].line[j].data[b] # 0
        PROVE  <<w, cache[w].line[j].tag, j, b, cache[w].line[j].data[b]>> \in wrote'
    <3>1. <<w, cache[w].line[j].tag, j, b, cache[w].line[j].data[b]>> \in wrote
      BY <2>2, <2>3 DEF Sourced
    <3>. QED  BY <1>8, <1>10, <3>1
  <2>. QED  BY <2>1, <2>3 DEF Sourced
<1>11. cache' \in [L0!Unit -> CacheType \cup {NULL}]
  BY <1>6, <1>7 DEF L0Inv
<1>12. CacheSound(u, cache[u])'
  <2>1. cache'[u] = d /\ u < activeUnits
    BY <1>1, <1>6 DEF L0Inv, CacheSound
  <2>2. Sourced(u, i, cache[u].line[i])'
    BY <1>1, <1>7, <1>9, <2>1 DEF Sourced, CacheType
  <2>3. \A j \in L0!Index : Sourced(u, j, cache[u].line[j])'
    BY <1>1, <1>10, <2>2
  <2>. QED  BY <1>2, <1>7, <2>1, <2>3 DEF CacheSound
<1>13. ASSUME NEW w \in L0!Unit, w # u, cache'[w] # NULL
       PROVE  CacheSound(w, cache[w])'
  <2>1. cache'[w] = cache[w] /\ CacheSound(w, cache[w])
    BY <1>6, <1>13 DEF L0Inv
  <2>2. \A j \in L0!Index : Sourced(w, j, cache[w].line[j])'
    BY <1>10, <1>13, <2>1
  <2>. QED  BY <1>2, <2>1, <2>2 DEF CacheSound
<1>14. wrote' \subseteq WordType
  BY <1>2, <1>3 DEF kept, WordType
<1>. QED  BY <1>2, <1>11, <1>12, <1>13, <1>14 DEF L0Inv

\* An invalidation reaches every unit that has the line, because a unit beyond
\* the active ones has no cache.
LEMMA L0Invalidates ==
  ASSUME L0Inv, NEW t \in Tags, NEW i \in L0!Index, L0!L0CacheInvalidate(t, i)
  PROVE  /\ L0Inv'
         /\ \A u \in L0!Unit : cache'[u] # NULL => ~L0!Matches(cache'[u].line[i], t)
<1>1. UNCHANGED <<activeUnits, wrote>>
  BY DEF L0!L0CacheInvalidate
<1>2. ASSUME NEW u \in L0!Unit
      PROVE  /\ cache'[u] \in CacheType \cup {NULL}
             /\ cache'[u] # NULL => /\ CacheSound(u, cache'[u])
                                    /\ ~L0!Matches(cache'[u].line[i], t)
  <2>1. CASE u \in L0!Holders(t, i)
    <3>. DEFINE c == cache[u]
                d == [c EXCEPT !.line[i].valid = FALSE]
    <3>1. cache'[u] = d
      BY <2>1 DEF L0!L0CacheInvalidate
    <3>2. c \in CacheType /\ CacheSound(u, c) /\ c.line[i] \in LineType
      BY <2>1 DEF L0!Holders, L0!Ready, L0Inv, CacheType
    <3>. DEFINE off == [c.line[i] EXCEPT !.valid = FALSE]
    <3>3. off \in LineType /\ ~off.valid
      BY <3>2 DEF LineType
    <3>4. d = [c EXCEPT !.line = [c.line EXCEPT ![i] = off]]
      BY <3>2 DEF CacheType
    <3>. HIDE DEF off, d
    <3>5. /\ d \in CacheType /\ d.line = [c.line EXCEPT ![i] = off]
          /\ d.accesses = d.hits + d.misses + d.writes
      BY <3>2, <3>3, <3>4 DEF CacheType, CacheSound
    <3>6. \A j \in L0!Index : Sourced(u, j, d.line[j])
      BY <3>2, <3>3, <3>5 DEF CacheSound, Sourced, CacheType
    <3>7. ~L0!Matches(d.line[i], t)
      BY <3>2, <3>3, <3>5 DEF L0!Matches, CacheType
    <3>. QED  BY <3>1, <3>2, <3>5, <3>6, <3>7 DEF CacheSound
  <2>2. CASE u \notin L0!Holders(t, i)
    <3>1. cache'[u] = cache[u]
      BY <2>2 DEF L0!L0CacheInvalidate
    <3>2. cache[u] # NULL => CacheSound(u, cache[u]) /\ u < activeUnits
      BY DEF L0Inv, CacheSound
    <3>3. cache[u] # NULL => ~L0!Matches(cache[u].line[i], t)
      BY <2>2, <3>2 DEF L0!Holders, L0!Ready
    <3>. QED  BY <3>1, <3>2, <3>3 DEF L0Inv
  <2>. QED  BY <2>1, <2>2
<1>3. \A u \in L0!Unit : cache'[u] # NULL => CacheSound(u, cache[u])'
  BY <1>1, <1>2 DEF CacheSound, Sourced
<1>4. cache' \in [L0!Unit -> CacheType \cup {NULL}]
  BY <1>2 DEF L0!L0CacheInvalidate
<1>. QED  BY <1>1, <1>2, <1>3, <1>4 DEF L0Inv

LEMMA NextL0 ==
  ASSUME L0!L0Assumption, L0Inv, [L0!Next]_l0Vars
  PROVE  L0Inv'
<1>1. ASSUME NEW n \in 0 .. MaxUnits + 1, NEW f \in 0 .. MaxUnits, L0!L0CacheInit(n, f)
      PROVE  L0Inv'
  BY <1>1, L0Initialised
<1>2. ASSUME NEW f \in 0 .. MaxUnits, L0!L0CacheV71Init(f)
      PROVE  L0Inv'
  BY <1>2, L0Initialised DEF L0!L0CacheV71Init, L0!L0Assumption
<1>3. CASE UNCHANGED l0Vars
  BY <1>3 DEF l0Vars, L0Inv, CacheSound, Sourced
<1>. QED  BY <1>1, <1>2, <1>3, L0Reads, L0Writes, L0Invalidates DEF L0!Next

LEMMA StepOfL0 == [Next]_vars => [L0!Next]_l0Vars
<1>1. L0Step => L0!Next
  BY DEF L0Step
<1>2. [Next]_vars => L0Step \/ UNCHANGED l0Vars
  BY DEF Next, vars, IrqStep, GovStep, HmcStep, TageStep, FusionStep
<1>. QED  BY <1>1, <1>2

LEMMA L0InvAlways == Spec => []L0Inv
<1>1. L0!L0Assumption
  BY UnitsAssumption DEF UnitsAssumption
<1>2. Init => L0Inv
  BY <1>1, L0Starts DEF Init
<1>3. L0Inv /\ [Next]_vars => L0Inv'
  BY <1>1, NextL0, StepOfL0
<1>. QED  BY <1>2, <1>3, PTL DEF Spec

\* A unit never reads the bytes of one address at another, and counts each
\* access as one of hit, miss and write.
THEOREM CachesApart == Spec => []L0KeepsApart
<1>1. L0Inv => L0KeepsApart
  <2>. SUFFICES ASSUME L0Inv PROVE L0KeepsApart
    OBVIOUS
  <2>1. \A u \in L0!Unit : cache[u] # NULL => CacheSound(u, cache[u])
    BY DEF L0Inv
  <2>2. L0!NoForeignBytes
    BY <2>1 DEF CacheSound, Sourced, L0!NoForeignBytes
  <2>3. L0!StatisticsAddUp
    BY <2>1 DEF CacheSound, L0!StatisticsAddUp
  <2>. QED  BY <2>2, <2>3 DEF L0KeepsApart
<1>. QED  BY <1>1, L0InvAlways, PTL

\* After an invalidation no unit hits on the address.
LEMMA InvalidationReaches == Spec => L0!InvalidateReachesAll
<1>1. L0Inv => [\A t \in Tags, i \in L0!Index : L0!L0CacheInvalidate(t, i) =>
                  \A u \in L0!Unit : cache'[u] # NULL => ~L0!Matches(cache'[u].line[i], t)]_L0!vars
  BY L0Invalidates
<1>. QED  BY <1>1, L0InvAlways, PTL DEF L0!InvalidateReachesAll

===============================================================================
