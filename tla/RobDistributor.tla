---------------------------- MODULE RobDistributor ----------------------------
(***************************************************************************)
(* The v7.1 reorder-buffer distributor, performance/rob/robdistributor.c:  *)
(* RobBanks independent ring buffers of RobEntriesPerBank slots each.  A    *)
(* micro-op takes the tail slot of the first bank with room, scanning      *)
(* round robin from NextAllocBank.  It retires in any order, but slots are *)
(* given back only from the head of their bank, so a retired slot waits    *)
(* for every older slot of its bank.                                       *)
(*                                                                         *)
(* A micro-op (Rip, MicroOpStart, MicroOpCount) is represented by its      *)
(* allocation number.  The distributor has no lock and one caller at a     *)
(* time, so every operation is one step.  MaxAllocations, MaxStalls and    *)
(* MaxCycles bound the three UINT64 counters that only grow.               *)
(***************************************************************************)
EXTENDS Integers, FiniteSets

CONSTANTS
  RobBanks,            \* ROB_BANKS
  RobEntriesPerBank,   \* ROB_ENTRIES_PER_BANK
  MaxAllocations,      \* bound on TotalAllocations
  MaxStalls,           \* bound on TotalStalls
  MaxCycles            \* bound on CycleCounter

ASSUME RobAssumption ==
  /\ RobBanks \in Nat \ {0}
  /\ RobEntriesPerBank \in Nat \ {0}
  /\ MaxAllocations \in Nat /\ MaxStalls \in Nat /\ MaxCycles \in Nat

VARIABLES
  ready,             \* gRob # NULL
  head, tail, count, maxCount,                  \* per bank: the ROB_BANK fields
  state, uop, allocTick, retireTick,            \* per slot: the ROB_ENTRY fields
  nextAllocBank, totalAllocations, totalRetirements, totalStalls, cycleCounter

bankVars  == <<head, tail, count, maxCount>>
slotVars  == <<state, uop, allocTick, retireTick>>
vars == <<ready, bankVars, slotVars, nextAllocBank,
          totalAllocations, totalRetirements, totalStalls, cycleCounter>>

Bank == 0 .. RobBanks - 1
Slot == 0 .. RobEntriesPerBank - 1

FREE      == "FREE"
ALLOCATED == "ALLOCATED"
RETIRED   == "RETIRED"

\* Mutant of NextSlot: the ring wraps one slot early.
NextSlotShort(s) == (s + 1) % (RobEntriesPerBank - 1)

NextSlot(s) == (s + 1) % RobEntriesPerBank

\* The bank the allocation scan tries after i others.
ScanBank(i) == (nextAllocBank + i) % RobBanks

\* How far slot s lies behind the head of bank b; the bank's window of live
\* slots is the count[b] slots nearest its head.
Offset(b, s) == IF s >= head[b] THEN s - head[b]
                                ELSE s - head[b] + RobEntriesPerBank

-------------------------------------------------------------------------------

\* A zeroed distributor.
Cleared(x) == [b \in Bank |-> x]
ClearedSlots(x) == [b \in Bank |-> [s \in Slot |-> x]]

Init ==
  /\ ready = FALSE
  /\ head = Cleared(0) /\ tail = Cleared(0)
  /\ count = Cleared(0) /\ maxCount = Cleared(0)
  /\ state = ClearedSlots(FREE) /\ uop = ClearedSlots(0)
  /\ allocTick = ClearedSlots(0) /\ retireTick = ClearedSlots(0)
  /\ nextAllocBank = 0
  /\ totalAllocations = 0 /\ totalRetirements = 0
  /\ totalStalls = 0 /\ cycleCounter = 0

\* A second call replaces the distributor by an empty one, and a failed
\* allocation leaves gRob NULL: either way nothing of the old one is reachable.
RobDistributorInit ==
  /\ ready' \in BOOLEAN
  /\ head' = Cleared(0) /\ tail' = Cleared(0)
  /\ count' = Cleared(0) /\ maxCount' = Cleared(0)
  /\ state' = ClearedSlots(FREE) /\ uop' = ClearedSlots(0)
  /\ allocTick' = ClearedSlots(0) /\ retireTick' = ClearedSlots(0)
  /\ nextAllocBank' = 0
  /\ totalAllocations' = 0 /\ totalRetirements' = 0
  /\ totalStalls' = 0 /\ cycleCounter' = 0

\* Mutant of HasRoom: off by one at the capacity.
HasRoomOffByOne(b) == count[b] <= RobEntriesPerBank

HasRoom(b) == count[b] < RobEntriesPerBank

\* Mutant of NoRoom: only the bank whose turn it is is asked.
NoRoomNext == ~HasRoom(nextAllocBank)

NoRoom == \A b \in Bank : ~HasRoom(b)

\* The tail slot of bank b takes the next micro-op.
AllocateIn(b) ==
  /\ nextAllocBank' = (b + 1) % RobBanks
  /\ state' = [state EXCEPT ![b][tail[b]] = ALLOCATED]
  /\ uop' = [uop EXCEPT ![b][tail[b]] = totalAllocations]
  /\ allocTick' = [allocTick EXCEPT ![b][tail[b]] = cycleCounter]
  /\ retireTick' = [retireTick EXCEPT ![b][tail[b]] = 0]
  /\ tail' = [tail EXCEPT ![b] = NextSlot(@)]
  /\ count' = [count EXCEPT ![b] = @ + 1]
  /\ maxCount' = [maxCount EXCEPT ![b] =
                    IF count[b] + 1 > @ THEN count[b] + 1 ELSE @]

\* Allocation in the first bank with room, scanning from nextAllocBank.
RobAllocateEntry ==
  /\ ready
  /\ totalAllocations < MaxAllocations
  /\ \E i \in Bank :
       /\ HasRoom(ScanBank(i))
       /\ \A j \in 0 .. i - 1 : ~HasRoom(ScanBank(j))
       /\ AllocateIn(ScanBank(i))
  /\ totalAllocations' = totalAllocations + 1
  /\ UNCHANGED <<ready, head, totalRetirements, totalStalls, cycleCounter>>

\* The other exit of RobAllocateEntry: no bank has room.
RobAllocateStall ==
  /\ ready
  /\ totalStalls < MaxStalls
  /\ NoRoom
  /\ totalStalls' = totalStalls + 1
  /\ UNCHANGED <<ready, bankVars, slotVars, nextAllocBank,
                 totalAllocations, totalRetirements, cycleCounter>>

\* Mutant of Drains: an "if" in place of the loop, at most one slot is freed.
DrainsOnce(b, st, k) == k = IF st[head[b]] = RETIRED THEN 1 ELSE 0

\* Mutant of Drains: the head goes with every retirement, in flight or not.
DrainsHead(b, st, k) == k = 1

\* k is the number of slots the drain loop frees from the head of bank b when
\* the slots' states are st: it stops at the first one that is not RETIRED.
Drains(b, st, k) ==
  /\ \A s \in Slot : Offset(b, s) < k => st[s] = RETIRED
  /\ k < count[b] => \E s \in Slot : Offset(b, s) = k /\ st[s] # RETIRED

\* Mutant of Retirable: the state of the slot is not looked at.
RetirableAny(b, s) == TRUE

Retirable(b, s) == state[b][s] = ALLOCATED

\* Slot s of bank b is marked retired and the first k slots are freed.
RetireAndFree(b, s, k) ==
  LET st == [state[b] EXCEPT ![s] = RETIRED]
  IN  /\ Drains(b, st, k)
      /\ state' = [state EXCEPT ![b] =
            [t \in Slot |-> IF Offset(b, t) < k THEN FREE ELSE st[t]]]
      /\ head' = [head EXCEPT ![b] = (@ + k) % RobEntriesPerBank]
      /\ count' = [count EXCEPT ![b] = @ - k]

RobRetireEntry(b, s) ==
  /\ ready
  /\ Retirable(b, s)
  /\ \E k \in 0 .. count[b] : RetireAndFree(b, s, k)
  /\ retireTick' = [retireTick EXCEPT ![b][s] = cycleCounter]
  /\ totalRetirements' = totalRetirements + 1
  /\ UNCHANGED <<ready, tail, maxCount, uop, allocTick, nextAllocBank,
                 totalAllocations, totalStalls, cycleCounter>>

RobTick ==
  /\ ready
  /\ cycleCounter < MaxCycles
  /\ cycleCounter' = cycleCounter + 1
  /\ UNCHANGED <<ready, bankVars, slotVars, nextAllocBank,
                 totalAllocations, totalRetirements, totalStalls>>

Next ==
  \/ RobDistributorInit
  \/ RobAllocateEntry
  \/ RobAllocateStall
  \/ \E b \in Bank, s \in Slot : RobRetireEntry(b, s)
  \/ RobTick

Spec == Init /\ [][Next]_vars

-------------------------------------------------------------------------------

TypeOK ==
  /\ ready \in BOOLEAN
  /\ head \in [Bank -> Slot] /\ tail \in [Bank -> Slot]
  /\ count \in [Bank -> 0 .. RobEntriesPerBank]
  /\ maxCount \in [Bank -> 0 .. RobEntriesPerBank]
  /\ state \in [Bank -> [Slot -> {FREE, ALLOCATED, RETIRED}]]
  /\ uop \in [Bank -> [Slot -> Nat]]
  /\ allocTick \in [Bank -> [Slot -> Nat]]
  /\ retireTick \in [Bank -> [Slot -> Nat]]
  /\ nextAllocBank \in Bank
  /\ totalAllocations \in Nat /\ totalRetirements \in Nat
  /\ totalStalls \in Nat /\ cycleCounter \in Nat

\* The counters and the slot states describe one window per bank: a slot is in
\* use exactly when it is one of the count slots from the head, and the tail is
\* the slot just past them, so an allocation never lands on a live entry.
WindowInv ==
  \A b \in Bank :
    /\ \A s \in Slot : state[b][s] # FREE <=> Offset(b, s) < count[b]
    /\ IF count[b] = RobEntriesPerBank THEN tail[b] = head[b]
                                       ELSE Offset(b, tail[b]) = count[b]

\* The drain loop leaves nothing behind: a retired entry keeps its slot only
\* while an older entry of its bank is still in flight.
HeadPending ==
  \A b \in Bank : count[b] > 0 => state[b][head[b]] = ALLOCATED

\* From head to tail a bank holds its micro-ops in allocation order, stamped
\* with cycles that never go back, although they retire in any order.
ProgramOrder ==
  \A b \in Bank :
    /\ \A s, t \in Slot :
         Offset(b, s) < Offset(b, t) /\ Offset(b, t) < count[b] =>
           /\ uop[b][s] < uop[b][t]
           /\ allocTick[b][s] <= allocTick[b][t]
    /\ \A s \in Slot :
         Offset(b, s) < count[b] =>
           /\ uop[b][s] < totalAllocations
           /\ allocTick[b][s] <= cycleCounter

InFlight == {p \in Bank \X Slot : state[p[1]][p[2]] = ALLOCATED}

\* Every allocation is retired once or is still in flight: the two statistics
\* never disagree with the slots, whatever order micro-ops retire in and
\* however often a caller retires the same slot.
RetireAccounting ==
  totalAllocations - totalRetirements = Cardinality(InFlight)

\* The five invariants together are inductive.
IInv == TypeOK /\ WindowInv /\ HeadPending /\ ProgramOrder /\ RetireAccounting

\* The distributor refuses a micro-op only when every slot of every bank is in
\* use: the round-robin scan skips no bank with room.
StallsOnlyWhenFull ==
  [][totalStalls' > totalStalls =>
       \A b \in Bank, s \in Slot : state[b][s] # FREE]_vars

===============================================================================
