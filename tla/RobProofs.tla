------------------------------- MODULE RobProofs ------------------------------
(***************************************************************************)
(* The window, program-order and accounting invariants of RobDistributor   *)
(* for every number of banks and slots, and that it implements the         *)
(* in-order queues of ReorderQueue.                                        *)
(***************************************************************************)
EXTENDS RobRefinement, TLAPS, FiniteSetTheorems, SequenceTheorems,
        WellFoundedInduction

\* A ring index advanced by at most one full turn wraps at most once.
LEMMA WrapOnce ==
  ASSUME NEW n \in Nat \ {0}, NEW x \in 0 .. n - 1, NEW k \in 0 .. n
  PROVE  (x + k) % n = IF x + k < n THEN x + k ELSE x + k - n
<1>1. CASE x + k < n
  BY <1>1, SMT
<1>2. CASE x + k >= n
  <2>1. x + k = n * 1 + (x + k - n) /\ x + k - n \in 0 .. n - 1
    BY <1>2
  <2>. QED  BY <2>1, <1>2, SMTT(30)
<1>. QED  BY <1>1, <1>2

\* The slot k places behind slot h.
LEMMA SlotAdvance ==
  ASSUME NEW h \in Slot, NEW k \in 0 .. RobEntriesPerBank
  PROVE  /\ (h + k) % RobEntriesPerBank =
              IF h + k < RobEntriesPerBank THEN h + k ELSE h + k - RobEntriesPerBank
         /\ (h + k) % RobEntriesPerBank \in Slot
<1>1. h \in 0 .. RobEntriesPerBank - 1
  BY DEF Slot
<1>2. (h + k) % RobEntriesPerBank =
        IF h + k < RobEntriesPerBank THEN h + k ELSE h + k - RobEntriesPerBank
  BY <1>1, WrapOnce, RobAssumption
<1>. QED  BY <1>1, <1>2, RobAssumption DEF Slot

\* The slot index after s, and any scanned bank, are in range.
LEMMA IndexRanges ==
  ASSUME TypeOK
  PROVE  /\ \A s \in Slot : NextSlot(s) = IF s + 1 < RobEntriesPerBank THEN s + 1 ELSE 0
         /\ \A s \in Slot : NextSlot(s) \in Slot
         /\ \A i \in Bank : ScanBank(i) \in Bank
         /\ \A b \in Bank : (b + 1) % RobBanks \in Bank
<1>1. ASSUME NEW s \in Slot
      PROVE  NextSlot(s) = IF s + 1 < RobEntriesPerBank THEN s + 1 ELSE 0
  <2>1. s \in 0 .. RobEntriesPerBank - 1 /\ 1 \in 0 .. RobEntriesPerBank
    BY RobAssumption DEF Slot
  <2>2. (s + 1) % RobEntriesPerBank =
          IF s + 1 < RobEntriesPerBank THEN s + 1 ELSE s + 1 - RobEntriesPerBank
    BY <2>1, WrapOnce, RobAssumption
  <2>3. s + 1 < RobEntriesPerBank \/ s + 1 - RobEntriesPerBank = 0
    BY <2>1, RobAssumption
  <2>. QED  BY <2>2, <2>3 DEF NextSlot
<1>2. ASSUME NEW i \in Bank, NEW j \in Bank
      PROVE  (i + j) % RobBanks \in Bank
  <2>1. i \in 0 .. RobBanks - 1 /\ j \in 0 .. RobBanks
    BY RobAssumption DEF Bank
  <2>. QED  BY <2>1, WrapOnce, RobAssumption DEF Bank
<1>3. ASSUME NEW b \in Bank
      PROVE  (b + 1) % RobBanks \in Bank
  <2>1. b \in 0 .. RobBanks - 1 /\ 1 \in 0 .. RobBanks
    BY RobAssumption DEF Bank
  <2>. QED  BY <2>1, WrapOnce, RobAssumption DEF Bank
<1>4. ASSUME NEW s \in Slot
      PROVE  NextSlot(s) \in Slot
  BY <1>1, RobAssumption DEF Slot
<1>5. ASSUME NEW i \in Bank
      PROVE  ScanBank(i) \in Bank
  BY <1>2 DEF ScanBank, TypeOK
<1>. QED  BY <1>1, <1>3, <1>4, <1>5

\* The zeroed indices are in range.
LEMMA ZeroInRange == 0 \in Bank /\ 0 \in Slot /\ 0 \in 0 .. RobEntriesPerBank
BY RobAssumption DEF Bank, Slot

\* The zeroed distributor is well typed.
LEMMA InitTypeOK == Init => TypeOK
<1>. SUFFICES ASSUME Init PROVE TypeOK
  OBVIOUS
<1>1. /\ head \in [Bank -> Slot] /\ tail \in [Bank -> Slot]
      /\ count \in [Bank -> 0 .. RobEntriesPerBank]
      /\ maxCount \in [Bank -> 0 .. RobEntriesPerBank]
  BY ZeroInRange DEF Init, Cleared
<1>2. /\ state \in [Bank -> [Slot -> {FREE, ALLOCATED, RETIRED}]]
      /\ uop \in [Bank -> [Slot -> Nat]]
      /\ allocTick \in [Bank -> [Slot -> Nat]]
      /\ retireTick \in [Bank -> [Slot -> Nat]]
  BY DEF Init, ClearedSlots
<1>. QED  BY <1>1, <1>2, ZeroInRange DEF Init, TypeOK

\* Every operation keeps the types.
LEMMA NextTypeOK == TypeOK /\ [Next]_vars => TypeOK'
<1>. SUFFICES ASSUME TypeOK, [Next]_vars PROVE TypeOK'
  OBVIOUS
<1>1. CASE RobDistributorInit
  <2>1. /\ head' \in [Bank -> Slot] /\ tail' \in [Bank -> Slot]
        /\ count' \in [Bank -> 0 .. RobEntriesPerBank]
        /\ maxCount' \in [Bank -> 0 .. RobEntriesPerBank]
    BY <1>1, ZeroInRange DEF RobDistributorInit, Cleared
  <2>2. /\ state' \in [Bank -> [Slot -> {FREE, ALLOCATED, RETIRED}]]
        /\ uop' \in [Bank -> [Slot -> Nat]]
        /\ allocTick' \in [Bank -> [Slot -> Nat]]
        /\ retireTick' \in [Bank -> [Slot -> Nat]]
    BY <1>1 DEF RobDistributorInit, ClearedSlots
  <2>. QED  BY <1>1, <2>1, <2>2, ZeroInRange DEF RobDistributorInit, TypeOK
<1>2. CASE RobAllocateEntry
  <2>1. PICK b \in Bank : HasRoom(b) /\ AllocateIn(b)
    BY <1>2, IndexRanges DEF RobAllocateEntry
  <2>2. tail[b] \in Slot /\ NextSlot(tail[b]) \in Slot /\ (b + 1) % RobBanks \in Bank
    BY <2>1, IndexRanges DEF TypeOK
  <2>3. count[b] + 1 \in 0 .. RobEntriesPerBank
    BY <2>1, RobAssumption DEF HasRoom, TypeOK
  <2>4. state' \in [Bank -> [Slot -> {FREE, ALLOCATED, RETIRED}]]
    BY <2>1, <2>2 DEF AllocateIn, TypeOK
  <2>5. /\ uop' \in [Bank -> [Slot -> Nat]]
        /\ allocTick' \in [Bank -> [Slot -> Nat]]
        /\ retireTick' \in [Bank -> [Slot -> Nat]]
    BY <2>1, <2>2 DEF AllocateIn, TypeOK
  <2>6. /\ tail' \in [Bank -> Slot]
        /\ count' \in [Bank -> 0 .. RobEntriesPerBank]
        /\ maxCount' \in [Bank -> 0 .. RobEntriesPerBank]
        /\ nextAllocBank' \in Bank
    BY <2>1, <2>2, <2>3 DEF AllocateIn, TypeOK
  <2>. QED  BY <1>2, <2>4, <2>5, <2>6 DEF RobAllocateEntry, TypeOK
<1>3. CASE RobAllocateStall
  BY <1>3 DEF RobAllocateStall, TypeOK, bankVars, slotVars
<1>4. ASSUME NEW b \in Bank, NEW s \in Slot, RobRetireEntry(b, s)
      PROVE  TypeOK'
  <2>1. PICK k \in 0 .. count[b] : RetireAndFree(b, s, k)
    BY <1>4 DEF RobRetireEntry
  <2>2. count[b] \in 0 .. RobEntriesPerBank /\ head[b] \in Slot
    BY DEF TypeOK
  <2>3. (head[b] + k) % RobEntriesPerBank \in Slot
    BY <2>2, SlotAdvance, RobAssumption
  <2>4. count[b] - k \in 0 .. RobEntriesPerBank
    BY <2>2, RobAssumption
  <2>5. state' \in [Bank -> [Slot -> {FREE, ALLOCATED, RETIRED}]]
    BY <2>1 DEF RetireAndFree, TypeOK
  <2>6. head' \in [Bank -> Slot] /\ count' \in [Bank -> 0 .. RobEntriesPerBank]
    BY <2>1, <2>3, <2>4 DEF RetireAndFree, TypeOK
  <2>7. retireTick' \in [Bank -> [Slot -> Nat]] /\ totalRetirements' \in Nat
    BY <1>4 DEF RobRetireEntry, TypeOK
  <2>. QED  BY <1>4, <2>5, <2>6, <2>7 DEF RobRetireEntry, TypeOK
<1>5. CASE RobTick
  BY <1>5 DEF RobTick, TypeOK, bankVars, slotVars
<1>6. CASE UNCHANGED vars
  BY <1>6 DEF vars, TypeOK, bankVars, slotVars
<1>. QED  BY <1>1, <1>2, <1>3, <1>4, <1>5, <1>6 DEF Next

\* Every operation keeps every field of the distributor in its range: ring
\* indices inside their bank, counts within the capacity.
THEOREM TypeCorrect == Spec => []TypeOK
<1>. QED  BY InitTypeOK, NextTypeOK, PTL DEF Spec

-------------------------------------------------------------------------------

\* Offset numbers the slots of a bank 0, 1, ... from its head, each once.
LEMMA OffsetFacts ==
  ASSUME TypeOK, NEW b \in Bank
  PROVE  /\ \A s \in Slot : Offset(b, s) \in 0 .. RobEntriesPerBank - 1
         /\ \A s, t \in Slot : Offset(b, s) = Offset(b, t) => s = t
         /\ Offset(b, head[b]) = 0
<1>1. head[b] \in 0 .. RobEntriesPerBank - 1
  BY DEF TypeOK, Slot
<1>. QED  BY <1>1, RobAssumption DEF Offset, Slot

\* The slot after s is one place further back, or the head after a full turn.
LEMMA NextOffset ==
  ASSUME TypeOK, NEW b \in Bank, NEW s \in Slot
  PROVE  IF Offset(b, s) + 1 = RobEntriesPerBank
         THEN NextSlot(s) = head[b]
         ELSE Offset(b, NextSlot(s)) = Offset(b, s) + 1
<1>1. head[b] \in 0 .. RobEntriesPerBank - 1 /\ s \in 0 .. RobEntriesPerBank - 1
  BY DEF TypeOK, Slot
<1>2. NextSlot(s) = IF s + 1 < RobEntriesPerBank THEN s + 1 ELSE 0
  BY IndexRanges
<1>. QED  BY <1>1, <1>2, RobAssumption DEF Offset

\* When the head moves k places on, every slot comes k places nearer, and the
\* slots passed go to the back.
LEMMA OffsetShift ==
  ASSUME TypeOK, NEW b \in Bank, NEW k \in 0 .. RobEntriesPerBank,
         head'[b] = (head[b] + k) % RobEntriesPerBank,
         NEW s \in Slot
  PROVE  Offset(b, s)' = IF Offset(b, s) >= k THEN Offset(b, s) - k
                         ELSE Offset(b, s) - k + RobEntriesPerBank
<1>1. head[b] \in Slot /\ head[b] \in 0 .. RobEntriesPerBank - 1
      /\ s \in 0 .. RobEntriesPerBank - 1
  BY DEF TypeOK, Slot
<1>2. head'[b] = IF head[b] + k < RobEntriesPerBank
                 THEN head[b] + k ELSE head[b] + k - RobEntriesPerBank
  BY <1>1, SlotAdvance
<1>3. Offset(b, s)' = IF s >= head'[b] THEN s - head'[b]
                      ELSE s - head'[b] + RobEntriesPerBank
  BY DEF Offset
<1>. QED  BY <1>1, <1>2, <1>3, RobAssumption DEF Offset

-------------------------------------------------------------------------------
(* Where one bank changes, the others keep their offsets and their slots.     *)

\* What an allocation does to the bank that takes the micro-op.
LEMMA AllocationFacts ==
  ASSUME TypeOK, WindowInv, RobAllocateEntry
  PROVE  \E b \in Bank :
           /\ count[b] < RobEntriesPerBank
           /\ Offset(b, tail[b]) = count[b] /\ tail[b] \in Slot
           /\ state[b][tail[b]] = FREE
           /\ AllocateIn(b)
           /\ head' = head
           /\ totalAllocations' = totalAllocations + 1
           /\ totalRetirements' = totalRetirements /\ cycleCounter' = cycleCounter
<1>1. PICK b \in Bank : HasRoom(b) /\ AllocateIn(b)
  BY IndexRanges DEF RobAllocateEntry
<1>2. count[b] < RobEntriesPerBank /\ count[b] \in 0 .. RobEntriesPerBank
      /\ tail[b] \in Slot
  BY <1>1 DEF HasRoom, TypeOK
<1>3. Offset(b, tail[b]) = count[b]
  BY <1>2 DEF WindowInv
<1>4. ~(Offset(b, tail[b]) < count[b])
  BY <1>2, <1>3
<1>5. state[b][tail[b]] = FREE
  BY <1>2, <1>4 DEF WindowInv
<1>. QED  BY <1>1, <1>2, <1>3, <1>5 DEF RobAllocateEntry

\* What a retirement does to the bank it happens in.
LEMMA RetirementFacts ==
  ASSUME TypeOK, NEW b \in Bank, NEW s \in Slot, RobRetireEntry(b, s)
  PROVE  \E k \in 0 .. count[b] :
           /\ RetireAndFree(b, s, k)
           /\ k \in 0 .. RobEntriesPerBank
           /\ head'[b] = (head[b] + k) % RobEntriesPerBank
           /\ count'[b] = count[b] - k
           /\ \A t \in Slot : state'[b][t] =
                 IF Offset(b, t) < k THEN FREE
                 ELSE IF t = s THEN RETIRED ELSE state[b][t]
           /\ \A t \in Slot : Offset(b, t) < k => t = s \/ state[b][t] = RETIRED
           /\ k < count[b] => \E t \in Slot :
                 Offset(b, t) = k /\ t # s /\ state[b][t] # RETIRED
           /\ \A c \in Bank \ {b} : /\ head'[c] = head[c]
                                    /\ count'[c] = count[c]
                                    /\ state'[c] = state[c]
<1>1. PICK k \in 0 .. count[b] : RetireAndFree(b, s, k)
  BY DEF RobRetireEntry
<1>2. count[b] \in 0 .. RobEntriesPerBank
  BY DEF TypeOK
<1>3. k \in 0 .. RobEntriesPerBank
  BY <1>1, <1>2, RobAssumption
<1>. DEFINE st == [state[b] EXCEPT ![s] = RETIRED]
<1>4. /\ \A t \in Slot : st[t] = IF t = s THEN RETIRED ELSE state[b][t]
      /\ Drains(b, st, k)
  BY <1>1 DEF RetireAndFree, TypeOK
<1>5. \A t \in Slot : state'[b][t] = IF Offset(b, t) < k THEN FREE ELSE st[t]
  BY <1>1 DEF RetireAndFree, TypeOK
<1>6. /\ head'[b] = (head[b] + k) % RobEntriesPerBank
      /\ count'[b] = count[b] - k
      /\ \A c \in Bank \ {b} : /\ head'[c] = head[c]
                               /\ count'[c] = count[c]
                               /\ state'[c] = state[c]
  BY <1>1 DEF RetireAndFree, TypeOK
<1>7. /\ \A t \in Slot : Offset(b, t) < k => t = s \/ state[b][t] = RETIRED
      /\ k < count[b] => \E t \in Slot :
            Offset(b, t) = k /\ t # s /\ state[b][t] # RETIRED
  BY <1>4 DEF Drains
<1>. HIDE DEF st
<1>. QED  BY <1>1, <1>3, <1>4, <1>5, <1>6, <1>7

-------------------------------------------------------------------------------

\* An empty distributor satisfies the invariant; the first and every later
\* initialisation produce one.
LEMMA EmptyInv ==
  ASSUME \A b \in Bank : head[b] = 0 /\ tail[b] = 0 /\ count[b] = 0,
         \A b \in Bank, s \in Slot : state[b][s] = FREE,
         totalAllocations = 0, totalRetirements = 0
  PROVE  WindowInv /\ HeadPending /\ ProgramOrder /\ RetireAccounting
<1>1. \A b \in Bank, s \in Slot : Offset(b, s) = s /\ ~(Offset(b, s) < count[b])
  BY RobAssumption DEF Offset, Slot
<1>2. WindowInv
  BY <1>1, ZeroInRange, RobAssumption DEF WindowInv
<1>3. HeadPending /\ ProgramOrder
  BY <1>1 DEF HeadPending, ProgramOrder
<1>4. InFlight = {}
  BY DEF InFlight, FREE, ALLOCATED
<1>5. RetireAccounting
  BY <1>4, FS_EmptySet DEF RetireAccounting
<1>. QED  BY <1>2, <1>3, <1>5

\* The initial state satisfies the invariant.
LEMMA InitInv == Init => WindowInv /\ HeadPending /\ ProgramOrder /\ RetireAccounting
BY EmptyInv DEF Init, Cleared, ClearedSlots

\* An allocation extends the window of its bank by its tail slot and leaves the
\* older entries where they were.
LEMMA AllocateWindow ==
  ASSUME TypeOK, TypeOK', WindowInv, HeadPending, ProgramOrder, RobAllocateEntry
  PROVE  WindowInv' /\ HeadPending' /\ ProgramOrder'
<1>1. PICK b \in Bank :
           /\ count[b] < RobEntriesPerBank
           /\ Offset(b, tail[b]) = count[b] /\ tail[b] \in Slot
           /\ state[b][tail[b]] = FREE
           /\ AllocateIn(b)
           /\ head' = head
           /\ totalAllocations' = totalAllocations + 1
           /\ totalRetirements' = totalRetirements /\ cycleCounter' = cycleCounter
  BY AllocationFacts
<1>2. \A c \in Bank, s \in Slot : Offset(c, s)' = Offset(c, s)
  BY <1>1 DEF Offset
<1>3. /\ count'[b] = count[b] + 1
      /\ tail'[b] = NextSlot(tail[b])
      /\ \A s \in Slot : s # tail[b] =>
           /\ state'[b][s] = state[b][s]
           /\ uop'[b][s] = uop[b][s]
           /\ allocTick'[b][s] = allocTick[b][s]
      /\ state'[b][tail[b]] = ALLOCATED
      /\ uop'[b][tail[b]] = totalAllocations
      /\ allocTick'[b][tail[b]] = cycleCounter
  BY <1>1 DEF AllocateIn, TypeOK
<1>4. \A c \in Bank \ {b} :
           /\ count'[c] = count[c] /\ tail'[c] = tail[c]
           /\ state'[c] = state[c] /\ uop'[c] = uop[c]
           /\ allocTick'[c] = allocTick[c]
  BY <1>1 DEF AllocateIn, TypeOK
<1>5. /\ count[b] \in 0 .. RobEntriesPerBank
      /\ \A s \in Slot : Offset(b, s) \in 0 .. RobEntriesPerBank - 1
      /\ \A s \in Slot : s # tail[b] => Offset(b, s) # count[b]
      /\ \A s \in Slot : Offset(b, s) < count[b] + 1
                       <=> Offset(b, s) < count[b] \/ s = tail[b]
  <2>1. /\ count[b] \in 0 .. RobEntriesPerBank
        /\ \A s \in Slot : Offset(b, s) \in 0 .. RobEntriesPerBank - 1
        /\ \A s \in Slot : s # tail[b] => Offset(b, s) # count[b]
    BY <1>1, OffsetFacts DEF TypeOK
  <2>2. ASSUME NEW s \in Slot
        PROVE  Offset(b, s) < count[b] + 1 <=> Offset(b, s) < count[b] \/ s = tail[b]
    <3>1. Offset(b, s) \in Int /\ count[b] \in Int
      BY <2>1
    <3>2. Offset(b, s) = count[b] <=> s = tail[b]
      BY <2>1, <1>1
    <3>. QED  BY <3>1, <3>2, <1>1
  <2>. QED  BY <2>1, <2>2
<1>6. WindowInv'
  <2>1. ASSUME NEW s \in Slot
        PROVE  state'[b][s] # FREE <=> Offset(b, s)' < count'[b]
    <3>1. CASE s = tail[b]
      BY <3>1, <1>2, <1>3, <1>5 DEF ALLOCATED, FREE
    <3>2. CASE s # tail[b]
      <4>1. state[b][s] # FREE <=> Offset(b, s) < count[b]
        BY DEF WindowInv
      <4>. QED  BY <3>2, <4>1, <1>2, <1>3, <1>5
    <3>. QED  BY <3>1, <3>2
  <2>2. IF count'[b] = RobEntriesPerBank THEN tail'[b] = head'[b]
                                         ELSE Offset(b, tail[b])' = count'[b]
    <3>1. IF Offset(b, tail[b]) + 1 = RobEntriesPerBank
          THEN NextSlot(tail[b]) = head[b]
          ELSE Offset(b, NextSlot(tail[b])) = Offset(b, tail[b]) + 1
      BY <1>1, NextOffset
    <3>2. tail'[b] \in Slot /\ Offset(b, tail[b])' = Offset(b, NextSlot(tail[b]))
      BY <1>1, <1>3 DEF TypeOK, Offset
    <3>. QED  BY <3>1, <3>2, <1>1, <1>3
  <2>3. ASSUME NEW c \in Bank \ {b}
        PROVE  /\ \A s \in Slot : state'[c][s] # FREE <=> Offset(c, s)' < count'[c]
               /\ IF count'[c] = RobEntriesPerBank THEN tail'[c] = head'[c]
                                                   ELSE Offset(c, tail[c])' = count'[c]
    <3>1. Offset(c, tail[c])' = Offset(c, tail[c])
      BY <1>1, <1>4 DEF Offset
    <3>. QED  BY <3>1, <1>1, <1>2, <1>4 DEF WindowInv
  <2>. QED  BY <2>1, <2>2, <2>3 DEF WindowInv
<1>7. HeadPending'
  <2>1. state'[b][head'[b]] = ALLOCATED
    <3>1. CASE head[b] = tail[b]
      BY <3>1, <1>1, <1>3
    <3>2. CASE head[b] # tail[b]
      <4>1. head[b] \in Slot /\ Offset(b, head[b]) = 0
        BY OffsetFacts DEF TypeOK
      <4>2. count[b] > 0
        BY <3>2, <4>1, <1>5
      <4>. QED  BY <3>2, <4>1, <4>2, <1>1, <1>3 DEF HeadPending
    <3>. QED  BY <3>1, <3>2
  <2>2. \A c \in Bank \ {b} : count'[c] > 0 => state'[c][head'[c]] = ALLOCATED
    BY <1>1, <1>4 DEF HeadPending
  <2>. QED  BY <2>1, <2>2 DEF HeadPending
<1>8. ProgramOrder'
  <2>1. \A c \in Bank, s \in Slot :
          uop[c][s] \in Nat /\ allocTick[c][s] \in Nat /\ totalAllocations \in Nat
          /\ cycleCounter \in Nat
    BY DEF TypeOK
  <2>2. ASSUME NEW s \in Slot, NEW t \in Slot,
               Offset(b, s)' < Offset(b, t)', Offset(b, t)' < count'[b]
        PROVE  uop'[b][s] < uop'[b][t] /\ allocTick'[b][s] <= allocTick'[b][t]
    <3>1. Offset(b, s) < Offset(b, t) /\ Offset(b, s) < count[b] /\ s # tail[b]
      BY <2>2, <1>1, <1>2, <1>3, <1>5
    <3>2. uop[b][s] < totalAllocations /\ allocTick[b][s] <= cycleCounter
      BY <3>1 DEF ProgramOrder
    <3>3. CASE t = tail[b]
      BY <3>1, <3>2, <3>3, <1>3
    <3>4. CASE t # tail[b]
      <4>1. Offset(b, t) < count[b]
        BY <3>4, <2>2, <1>2, <1>3, <1>5
      <4>. QED  BY <3>1, <3>4, <4>1, <1>3 DEF ProgramOrder
    <3>. QED  BY <3>3, <3>4
  <2>3. ASSUME NEW s \in Slot, Offset(b, s)' < count'[b]
        PROVE  uop'[b][s] < totalAllocations' /\ allocTick'[b][s] <= cycleCounter'
    <3>1. CASE s = tail[b]
      BY <3>1, <1>1, <1>3, <2>1
    <3>2. CASE s # tail[b]
      <4>1. Offset(b, s) < count[b]
        BY <3>2, <2>3, <1>2, <1>3, <1>5
      <4>2. uop[b][s] < totalAllocations /\ allocTick[b][s] <= cycleCounter
        BY <4>1 DEF ProgramOrder
      <4>. QED  BY <3>2, <4>2, <1>1, <1>3, <2>1
    <3>. QED  BY <3>1, <3>2
  <2>4. ASSUME NEW c \in Bank \ {b}
        PROVE  /\ \A s, t \in Slot :
                    Offset(c, s)' < Offset(c, t)' /\ Offset(c, t)' < count'[c] =>
                      uop'[c][s] < uop'[c][t] /\ allocTick'[c][s] <= allocTick'[c][t]
               /\ \A s \in Slot : Offset(c, s)' < count'[c] =>
                    uop'[c][s] < totalAllocations' /\ allocTick'[c][s] <= cycleCounter'
    <3>1. \A s \in Slot : Offset(c, s) < count[c] =>
            uop[c][s] < totalAllocations + 1 /\ allocTick[c][s] <= cycleCounter
      BY <2>1 DEF ProgramOrder
    <3>. QED  BY <3>1, <1>1, <1>2, <1>4 DEF ProgramOrder
  <2>. QED  BY <2>2, <2>3, <2>4 DEF ProgramOrder
<1>. QED  BY <1>6, <1>7, <1>8

\* A retirement removes a prefix of its bank's window and keeps the order of
\* what remains.
LEMMA RetireWindow ==
  ASSUME TypeOK, TypeOK', WindowInv, HeadPending, ProgramOrder,
         NEW b \in Bank, NEW s \in Slot, RobRetireEntry(b, s)
  PROVE  WindowInv' /\ HeadPending' /\ ProgramOrder'
<1>1. PICK k \in 0 .. count[b] :
           /\ k \in 0 .. RobEntriesPerBank
           /\ head'[b] = (head[b] + k) % RobEntriesPerBank
           /\ count'[b] = count[b] - k
           /\ \A t \in Slot : state'[b][t] =
                 IF Offset(b, t) < k THEN FREE
                 ELSE IF t = s THEN RETIRED ELSE state[b][t]
           /\ k < count[b] => \E t \in Slot :
                 Offset(b, t) = k /\ t # s /\ state[b][t] # RETIRED
           /\ \A c \in Bank \ {b} : /\ head'[c] = head[c]
                                    /\ count'[c] = count[c]
                                    /\ state'[c] = state[c]
  BY RetirementFacts
<1>2. \A t \in Slot : Offset(b, t)' =
        IF Offset(b, t) >= k THEN Offset(b, t) - k
                             ELSE Offset(b, t) - k + RobEntriesPerBank
  BY <1>1, OffsetShift
<1>3. /\ count[b] \in 0 .. RobEntriesPerBank
      /\ \A t \in Slot : Offset(b, t) \in 0 .. RobEntriesPerBank - 1
  BY OffsetFacts DEF TypeOK
<1>4. \A t \in Slot : Offset(b, t)' < count'[b]
                     <=> Offset(b, t) >= k /\ Offset(b, t) < count[b]
  BY <1>1, <1>2, <1>3, RobAssumption
<1>5. tail' = tail /\ uop' = uop /\ allocTick' = allocTick
      /\ totalAllocations' = totalAllocations /\ cycleCounter' = cycleCounter
      /\ state[b][s] = ALLOCATED
  BY DEF RobRetireEntry, Retirable
<1>6. \A c \in Bank \ {b}, t \in Slot : Offset(c, t)' = Offset(c, t)
  BY <1>1 DEF Offset
<1>7. WindowInv'
  <2>1. ASSUME NEW t \in Slot
        PROVE  state'[b][t] # FREE <=> Offset(b, t)' < count'[b]
    <3>1. state[b][t] # FREE <=> Offset(b, t) < count[b]
      BY DEF WindowInv
    <3>2. CASE Offset(b, t) < k
      BY <3>2, <1>1, <1>3, <1>4
    <3>3. CASE Offset(b, t) >= k
      <4>1. state'[b][t] = IF t = s THEN RETIRED ELSE state[b][t]
        BY <3>3, <1>1, <1>3
      <4>2. state'[b][t] # FREE <=> state[b][t] # FREE
        BY <4>1, <1>5 DEF FREE, RETIRED, ALLOCATED
      <4>. QED  BY <4>2, <3>1, <3>3, <1>4
    <3>. QED  BY <3>2, <3>3, <1>1, <1>3
  <2>2. IF count'[b] = RobEntriesPerBank THEN tail'[b] = head'[b]
                                         ELSE Offset(b, tail[b])' = count'[b]
    <3>1. tail[b] \in Slot /\ head[b] \in Slot
      BY DEF TypeOK
    <3>2. Offset(b, tail[b])' =
            IF Offset(b, tail[b]) >= k THEN Offset(b, tail[b]) - k
                             ELSE Offset(b, tail[b]) - k + RobEntriesPerBank
      BY <3>1, <1>1, <1>2, <1>5 DEF Offset
    <3>3. CASE count[b] = RobEntriesPerBank
      <4>1. tail[b] = head[b] /\ Offset(b, tail[b]) = 0
        BY <3>3, OffsetFacts DEF WindowInv
      <4>2. CASE k = 0
        <5>1. head[b] \in 0 .. RobEntriesPerBank - 1
          BY <3>1 DEF Slot
        <5>2. head'[b] = IF head[b] + k < RobEntriesPerBank
                         THEN head[b] + k ELSE head[b] + k - RobEntriesPerBank
          BY <3>1, <1>1, SlotAdvance
        <5>3. head'[b] = head[b]
          BY <4>2, <5>1, <5>2, RobAssumption
        <5>4. count'[b] = count[b]
          BY <4>2, <1>1, <1>3
        <5>. QED  BY <4>1, <5>3, <5>4, <3>3, <1>5
      <4>3. CASE k > 0
        BY <4>1, <4>3, <3>2, <3>3, <1>1, <1>3, RobAssumption
      <4>. QED  BY <4>2, <4>3, <1>1
    <3>4. CASE count[b] # RobEntriesPerBank
      <4>1. Offset(b, tail[b]) = count[b]
        BY <3>4 DEF WindowInv
      <4>. QED  BY <4>1, <3>2, <3>4, <1>1, <1>3
    <3>. QED  BY <3>3, <3>4
  <2>3. ASSUME NEW c \in Bank \ {b}
        PROVE  /\ \A t \in Slot : state'[c][t] # FREE <=> Offset(c, t)' < count'[c]
               /\ IF count'[c] = RobEntriesPerBank THEN tail'[c] = head'[c]
                                                   ELSE Offset(c, tail[c])' = count'[c]
    <3>1. Offset(c, tail[c])' = Offset(c, tail[c])
      BY <1>1, <1>5 DEF Offset
    <3>. QED  BY <3>1, <1>1, <1>5, <1>6 DEF WindowInv
  <2>. QED  BY <2>1, <2>2, <2>3 DEF WindowInv
<1>8. HeadPending'
  <2>1. ASSUME count'[b] > 0
        PROVE  state'[b][head'[b]] = ALLOCATED
    <3>1. k < count[b]
      BY <2>1, <1>1, <1>3
    <3>2. PICK t \in Slot : Offset(b, t) = k /\ t # s /\ state[b][t] # RETIRED
      BY <3>1, <1>1
    <3>3. state[b][t] = ALLOCATED
      BY <3>1, <3>2, <1>3 DEF WindowInv, TypeOK
    <3>4. Offset(b, t)' = 0
      BY <3>2, <1>1, <1>2
    <3>5. t = head'[b]
      <4>1. head'[b] \in 0 .. RobEntriesPerBank - 1 /\ t \in 0 .. RobEntriesPerBank - 1
        BY DEF TypeOK, Slot
      <4>. QED  BY <4>1, <3>4, RobAssumption DEF Offset
    <3>. QED  BY <3>2, <3>3, <3>5, <1>1
  <2>2. \A c \in Bank \ {b} : count'[c] > 0 => state'[c][head'[c]] = ALLOCATED
    BY <1>1 DEF HeadPending
  <2>. QED  BY <2>1, <2>2 DEF HeadPending
<1>9. ProgramOrder'
  <2>1. ASSUME NEW t \in Slot, NEW u \in Slot,
               Offset(b, t)' < Offset(b, u)', Offset(b, u)' < count'[b]
        PROVE  uop'[b][t] < uop'[b][u] /\ allocTick'[b][t] <= allocTick'[b][u]
    <3>1. Offset(b, t)' < count'[b]
      <4>1. Offset(b, t)' \in Int /\ Offset(b, u)' \in Int /\ count'[b] \in Int
        BY <1>1, <1>2, <1>3, RobAssumption
      <4>. QED  BY <4>1, <2>1
    <3>2. /\ Offset(b, t) >= k /\ Offset(b, t) < count[b]
          /\ Offset(b, u) >= k /\ Offset(b, u) < count[b]
      BY <3>1, <2>1, <1>4
    <3>3. Offset(b, t) < Offset(b, u)
      BY <3>2, <2>1, <1>1, <1>2, <1>3
    <3>. QED  BY <3>2, <3>3, <1>5 DEF ProgramOrder
  <2>2. ASSUME NEW t \in Slot, Offset(b, t)' < count'[b]
        PROVE  uop'[b][t] < totalAllocations' /\ allocTick'[b][t] <= cycleCounter'
    BY <2>2, <1>4, <1>5 DEF ProgramOrder
  <2>3. ASSUME NEW c \in Bank \ {b}
        PROVE  /\ \A t, u \in Slot :
                    Offset(c, t)' < Offset(c, u)' /\ Offset(c, u)' < count'[c] =>
                      uop'[c][t] < uop'[c][u] /\ allocTick'[c][t] <= allocTick'[c][u]
               /\ \A t \in Slot : Offset(c, t)' < count'[c] =>
                    uop'[c][t] < totalAllocations' /\ allocTick'[c][t] <= cycleCounter'
    BY <1>1, <1>5, <1>6 DEF ProgramOrder
  <2>. QED  BY <2>1, <2>2, <2>3 DEF ProgramOrder
<1>. QED  BY <1>7, <1>8, <1>9

-------------------------------------------------------------------------------

\* There are finitely many entries, so those in flight can be counted.
LEMMA InFlightFinite == IsFiniteSet(InFlight)
<1>1. IsFiniteSet(Bank) /\ IsFiniteSet(Slot)
  BY FS_Interval, RobAssumption DEF Bank, Slot
<1>2. IsFiniteSet(Bank \X Slot)
  BY <1>1, FS_Product
<1>. QED  BY <1>2, FS_Subset DEF InFlight

\* An allocation puts exactly one more entry in flight: its slot was free.
LEMMA AllocateAccounting ==
  ASSUME TypeOK, WindowInv, RetireAccounting, RobAllocateEntry
  PROVE  RetireAccounting'
<1>1. PICK b \in Bank :
           /\ tail[b] \in Slot /\ state[b][tail[b]] = FREE /\ AllocateIn(b)
           /\ totalAllocations' = totalAllocations + 1
           /\ totalRetirements' = totalRetirements
  BY AllocationFacts
<1>2. state' = [state EXCEPT ![b][tail[b]] = ALLOCATED]
  BY <1>1 DEF AllocateIn
<1>3. \A c \in Bank, t \in Slot :
        state'[c][t] = IF c = b /\ t = tail[b] THEN ALLOCATED ELSE state[c][t]
  BY <1>1, <1>2 DEF TypeOK
<1>4. InFlight' = InFlight \cup {<<b, tail[b]>>}
  BY <1>1, <1>3 DEF InFlight
<1>5. <<b, tail[b]>> \notin InFlight
  BY <1>1 DEF InFlight, FREE, ALLOCATED
<1>6. Cardinality(InFlight') = Cardinality(InFlight) + 1
  BY <1>4, <1>5, InFlightFinite, FS_AddElement
<1>7. Cardinality(InFlight) \in Nat
  BY InFlightFinite, FS_CardinalityType
<1>. QED  BY <1>1, <1>6, <1>7 DEF RetireAccounting, TypeOK

\* A retirement takes exactly its own slot out of flight; the slots it frees
\* were retired already.
LEMMA RetirementAccounting ==
  ASSUME TypeOK, RetireAccounting,
         NEW b \in Bank, NEW s \in Slot, RobRetireEntry(b, s)
  PROVE  RetireAccounting'
<1>1. PICK k \in 0 .. count[b] :
           /\ \A t \in Slot : state'[b][t] =
                 IF Offset(b, t) < k THEN FREE
                 ELSE IF t = s THEN RETIRED ELSE state[b][t]
           /\ \A t \in Slot : Offset(b, t) < k => t = s \/ state[b][t] = RETIRED
           /\ \A c \in Bank \ {b} : state'[c] = state[c]
  BY RetirementFacts
<1>2. /\ state[b][s] = ALLOCATED
      /\ totalAllocations' = totalAllocations
      /\ totalRetirements' = totalRetirements + 1
  BY DEF RobRetireEntry, Retirable
<1>3. \A t \in Slot : state'[b][t] = ALLOCATED <=> t # s /\ state[b][t] = ALLOCATED
  BY <1>1 DEF FREE, RETIRED, ALLOCATED
<1>4. InFlight' = InFlight \ {<<b, s>>}
  BY <1>1, <1>3 DEF InFlight
<1>5. <<b, s>> \in InFlight
  BY <1>2 DEF InFlight
<1>6. Cardinality(InFlight') = Cardinality(InFlight) - 1
  BY <1>4, <1>5, InFlightFinite, FS_RemoveElement
<1>7. Cardinality(InFlight) \in Nat
  BY InFlightFinite, FS_CardinalityType
<1>. QED  BY <1>2, <1>6, <1>7 DEF RetireAccounting, TypeOK

\* IInv is inductive.
LEMMA NextInv == IInv /\ [Next]_vars => IInv'
<1>. SUFFICES ASSUME IInv, [Next]_vars PROVE IInv'
  OBVIOUS
<1>. USE DEF IInv
<1>1. TypeOK'
  BY NextTypeOK
<1>2. CASE RobDistributorInit
  <2>1. (\A b \in Bank : head[b] = 0 /\ tail[b] = 0 /\ count[b] = 0)'
        /\ (\A b \in Bank, s \in Slot : state[b][s] = FREE)'
        /\ (totalAllocations = 0)' /\ (totalRetirements = 0)'
    BY <1>2 DEF RobDistributorInit, Cleared, ClearedSlots
  <2>2. WindowInv' /\ HeadPending' /\ ProgramOrder' /\ RetireAccounting'
    BY <2>1, EmptyInv, PTL
  <2>. QED  BY <1>1, <2>2
<1>3. CASE RobAllocateEntry
  BY <1>1, <1>3, AllocateWindow, AllocateAccounting
<1>4. CASE RobAllocateStall
  BY <1>1, <1>4 DEF RobAllocateStall, bankVars, slotVars, WindowInv, HeadPending,
       ProgramOrder, RetireAccounting, InFlight, Offset
<1>5. ASSUME NEW b \in Bank, NEW s \in Slot, RobRetireEntry(b, s)
      PROVE  IInv'
  BY <1>1, <1>5, RetireWindow, RetirementAccounting
<1>6. CASE RobTick
  <2>1. WindowInv' /\ HeadPending' /\ RetireAccounting'
    BY <1>6 DEF RobTick, bankVars, slotVars, WindowInv, HeadPending,
         RetireAccounting, InFlight, Offset
  <2>2. ProgramOrder'
    BY <1>6 DEF RobTick, bankVars, slotVars, ProgramOrder, Offset, TypeOK
  <2>. QED  BY <1>1, <2>1, <2>2
<1>7. CASE UNCHANGED vars
  BY <1>1, <1>7 DEF vars, bankVars, slotVars, WindowInv, HeadPending,
       ProgramOrder, RetireAccounting, InFlight, Offset
<1>. QED  BY <1>2, <1>3, <1>4, <1>5, <1>6, <1>7 DEF Next

\* It therefore holds in every reachable state.
LEMMA SpecIInv == Spec => []IInv
<1>1. Init => IInv
  BY InitTypeOK, InitInv DEF IInv
<1>. QED  BY <1>1, NextInv, PTL DEF Spec

\* Head, tail, count and slot states always describe one window per bank, so
\* RobAllocateEntry never overwrites a live entry.
THEOREM WindowCorrect == Spec => []WindowInv
<1>1. IInv => WindowInv
  BY DEF IInv
<1>. QED  BY <1>1, SpecIInv, PTL

\* RobRetireEntry's loop never leaves a retired entry at the head of a bank.
THEOREM HeadPendingCorrect == Spec => []HeadPending
<1>1. IInv => HeadPending
  BY DEF IInv
<1>. QED  BY <1>1, SpecIInv, PTL

\* Each bank holds its micro-ops in allocation order.
THEOREM ProgramOrderCorrect == Spec => []ProgramOrder
<1>1. IInv => ProgramOrder
  BY DEF IInv
<1>. QED  BY <1>1, SpecIInv, PTL

\* TotalAllocations - TotalRetirements is the number of entries in flight.
THEOREM AccountingCorrect == Spec => []RetireAccounting
<1>1. IInv => RetireAccounting
  BY DEF IInv
<1>. QED  BY <1>1, SpecIInv, PTL

\* A stall is counted only when every slot of every bank is in use.
THEOREM StallsCorrect == Spec => StallsOnlyWhenFull
<1>1. IInv /\ [Next]_vars =>
        [totalStalls' > totalStalls =>
           \A b \in Bank, s \in Slot : state[b][s] # FREE]_vars
  <2>. SUFFICES ASSUME IInv, Next, totalStalls' > totalStalls,
                       NEW b \in Bank, NEW s \in Slot
                PROVE  state[b][s] # FREE
    OBVIOUS
  <2>1. RobAllocateStall
    BY DEF Next, RobDistributorInit, RobAllocateEntry, RobRetireEntry, RobTick,
           IInv, TypeOK
  <2>2. count[b] >= RobEntriesPerBank /\ TypeOK
    BY <2>1, RobAssumption DEF RobAllocateStall, NoRoom, HasRoom, IInv, TypeOK
  <2>3. Offset(b, s) \in 0 .. RobEntriesPerBank - 1 /\ count[b] \in 0 .. RobEntriesPerBank
    BY <2>2, OffsetFacts DEF TypeOK
  <2>4. Offset(b, s) < count[b]
    BY <2>2, <2>3, RobAssumption
  <2>. QED  BY <2>4 DEF IInv, WindowInv
<1>. QED  BY <1>1, SpecIInv, PTL DEF Spec, StallsOnlyWhenFull

-------------------------------------------------------------------------------
(* The refinement of ReorderQueue                                          *)

Entry == [uop : Nat, done : BOOLEAN]

\* An entry is its micro-op and whether it is done.
LEMMA SameEntry ==
  ASSUME NEW x \in Entry, NEW y \in Entry, x.uop = y.uop, x.done <=> y.done
  PROVE  x = y
<1>1. x.done = y.done
  BY Zenon DEF Entry
<1>. QED  BY <1>1 DEF Entry

\* Positions of a window are slots, counted from the head.
LEMMA WindowSlots ==
  ASSUME TypeOK, NEW b \in Bank, NEW i \in 1 .. RobEntriesPerBank
  PROVE  WindowSlot(b, i) \in Slot /\ Offset(b, WindowSlot(b, i)) = i - 1
<1>1. head[b] \in Slot /\ head[b] \in 0 .. RobEntriesPerBank - 1
  BY DEF TypeOK, Slot
<1>2. i - 1 \in 0 .. RobEntriesPerBank /\ head[b] + i - 1 = head[b] + (i - 1)
  BY <1>1, RobAssumption
<1>3. WindowSlot(b, i) = (head[b] + (i - 1)) % RobEntriesPerBank
  BY <1>2 DEF WindowSlot
<1>4. /\ WindowSlot(b, i) \in Slot
      /\ WindowSlot(b, i) = IF head[b] + (i - 1) < RobEntriesPerBank
                            THEN head[b] + (i - 1) ELSE head[b] + (i - 1) - RobEntriesPerBank
  BY <1>1, <1>2, <1>3, SlotAdvance
<1>. HIDE DEF WindowSlot
<1>. QED  BY <1>1, <1>4, RobAssumption DEF Offset, Slot

\* The same after a step, of the new heads.
SlotsNumbered ==
  \A b \in Bank :
    /\ \A i \in 1 .. RobEntriesPerBank :
         WindowSlot(b, i) \in Slot /\ Offset(b, WindowSlot(b, i)) = i - 1
    /\ \A s, t \in Slot : Offset(b, s) = Offset(b, t) => s = t

LEMMA AllSlots == TypeOK => SlotsNumbered
BY WindowSlots, OffsetFacts DEF SlotsNumbered

\* The window of a bank is a sequence of entries, one for each slot it counts.
LEMMA WindowIsQueue ==
  ASSUME TypeOK, NEW b \in Bank
  PROVE  /\ WindowQueue(b) \in Seq(Entry) /\ Len(WindowQueue(b)) = count[b]
         /\ \A i \in 1 .. count[b] :
              /\ WindowQueue(b)[i] \in Entry
              /\ WindowQueue(b)[i].uop = uop[b][WindowSlot(b, i)]
              /\ WindowQueue(b)[i].done <=> state[b][WindowSlot(b, i)] = RETIRED
<1>. DEFINE e(i) == [uop |-> uop[b][WindowSlot(b, i)],
                     done |-> state[b][WindowSlot(b, i)] = RETIRED]
<1>1. count[b] \in Nat /\ count[b] <= RobEntriesPerBank
  BY RobAssumption DEF TypeOK
<1>2. ASSUME NEW i \in 1 .. count[b]
      PROVE  e(i) \in Entry
  <2>1. i \in 1 .. RobEntriesPerBank
    BY <1>1, RobAssumption
  <2>2. WindowSlot(b, i) \in Slot
    BY <2>1, WindowSlots
  <2>3. uop[b][WindowSlot(b, i)] \in Nat
    BY <2>2 DEF TypeOK
  <2>. QED  BY <2>3 DEF Entry
<1>3. WindowQueue(b) = [i \in 1 .. count[b] |-> e(i)]
  BY DEF WindowQueue
<1>. HIDE DEF e
<1>4. WindowQueue(b) \in [1 .. count[b] -> Entry]
  BY <1>2, <1>3
<1>5. WindowQueue(b) \in Seq(Entry)
  BY <1>1, <1>4, SeqDef
<1>6. Len(WindowQueue(b)) = count[b]
  <2>1. DOMAIN WindowQueue(b) = 1 .. count[b]
    BY <1>4
  <2>2. DOMAIN WindowQueue(b) = 1 .. Len(WindowQueue(b)) /\ Len(WindowQueue(b)) \in Nat
    BY <1>5, LenProperties
  <2>. QED  BY <1>1, <2>1, <2>2
<1>7. ASSUME NEW i \in 1 .. count[b]
      PROVE  /\ WindowQueue(b)[i] \in Entry
             /\ WindowQueue(b)[i].uop = uop[b][WindowSlot(b, i)]
             /\ WindowQueue(b)[i].done <=> state[b][WindowSlot(b, i)] = RETIRED
  <2>1. WindowQueue(b)[i] = e(i) /\ e(i) \in Entry
    BY <1>2, <1>3
  <2>2. /\ e(i).uop = uop[b][WindowSlot(b, i)]
        /\ e(i).done <=> state[b][WindowSlot(b, i)] = RETIRED
    BY Zenon DEF e
  <2>. QED  BY <2>1, <2>2, Zenon
<1>. QED  BY <1>5, <1>6, <1>7

\* A bank that nothing happens to keeps its queue.
LEMMA OtherBanks ==
  ASSUME NEW b \in Bank, head'[b] = head[b], count'[b] = count[b],
         state'[b] = state[b], uop'[b] = uop[b]
  PROVE  WindowQueue(b)' = WindowQueue(b)
BY DEF WindowQueue, WindowSlot

\* The same of every bank, as a formula that can be primed.
WindowsAreQueues ==
  \A b \in Bank :
    /\ WindowQueue(b) \in Seq(Entry) /\ Len(WindowQueue(b)) = count[b]
    /\ \A i \in 1 .. count[b] :
         /\ WindowQueue(b)[i] \in Entry
         /\ WindowQueue(b)[i].uop = uop[b][WindowSlot(b, i)]
         /\ WindowQueue(b)[i].done <=> state[b][WindowSlot(b, i)] = RETIRED

LEMMA AllWindows == TypeOK => WindowsAreQueues
BY WindowIsQueue DEF WindowsAreQueues

-------------------------------------------------------------------------------
(* The occupancy callers are told                                          *)

\* A set of naturals has a least one.
LEMMA Least ==
  ASSUME NEW t \in SUBSET Nat, t # {}
  PROVE  \E k \in t : \A l \in t : k <= l
<1>. DEFINE R == OpToRel(<, Nat)
<1>1. IsWellFoundedOn(R, Nat)
  BY NatLessThanWellFounded
<1>. HIDE DEF R
<1>2. PICK k \in t : \A l \in t : <<l, k>> \notin R
  BY <1>1, WFMin
<1>3. \A l \in t : ~(l < k)
  BY <1>2 DEF R, OpToRel
<1>. QED  BY <1>3

\* One unfolding of the sum of c over a set.
SumStep(c, S, f) ==
  [s \in SUBSET S |-> IF s = {} THEN 0
                      ELSE c[CHOOSE x \in s : TRUE] + f[s \ {CHOOSE x \in s : TRUE}]]

\* The sum of c over S: what unfolds that way.
SumOver(c, S) == (CHOOSE f : f = SumStep(c, S, f))[S]

\* g gives every finite set what c of its elements add.
Measures(g, c, S) ==
  /\ IsFiniteSet(S)
  /\ g \in [SUBSET S -> Nat] /\ g[{}] = 0
  /\ \A s \in SUBSET S : \A x \in s : g[s] = c[x] + g[s \ {x}]

\* There is one such function, the sum.
LEMMA SumIsMeasure ==
  ASSUME NEW S, NEW c, NEW g, Measures(g, c, S)
  PROVE  SumOver(c, S) = g[S]
<1>. DEFINE sum == CHOOSE f : f = SumStep(c, S, f)
            Some(s) == CHOOSE x \in s : TRUE
<1>. USE DEF Measures
<1>1. ASSUME NEW s \in SUBSET S, s # {}
      PROVE  Some(s) \in s /\ s \ {Some(s)} \in SUBSET S
  <2>1. \E x : x \in s
    BY <1>1, Zenon
  <2>2. Some(s) \in s
    BY <2>1, Zenon
  <2>. QED  BY <2>2, Zenon
<1>. HIDE DEF Some
<1>2. ASSUME NEW s \in SUBSET S
      PROVE  g[s] = IF s = {} THEN 0 ELSE c[Some(s)] + g[s \ {Some(s)}]
  BY <1>1
<1>3. g = [s \in SUBSET S |-> IF s = {} THEN 0 ELSE c[Some(s)] + g[s \ {Some(s)}]]
  <2>. DEFINE h == [s \in SUBSET S |-> IF s = {} THEN 0 ELSE c[Some(s)] + g[s \ {Some(s)}]]
  <2>1. [s \in SUBSET S |-> g[s]] = h
    BY <1>2
  <2>. QED  BY <2>1
<1>4. g = SumStep(c, S, g)
  BY <1>3 DEF SumStep, Some
<1>5. sum = SumStep(c, S, sum)
  BY <1>4
<1>. HIDE DEF sum
<1>6. ASSUME NEW s \in SUBSET S
      PROVE  sum[s] = IF s = {} THEN 0 ELSE c[Some(s)] + sum[s \ {Some(s)}]
  <2>1. SumStep(c, S, sum)[s] = IF s = {} THEN 0 ELSE c[Some(s)] + sum[s \ {Some(s)}]
    BY DEF SumStep, Some
  <2>. QED  BY <1>5, <2>1
<1>7. ASSUME NEW s \in SUBSET S
      PROVE  IsFiniteSet(s) /\ Cardinality(s) \in Nat
  BY FS_Subset, FS_CardinalityType
<1>8. ASSUME NEW d \in SUBSET S, sum[d] # g[d]
      PROVE  FALSE
  <2>. DEFINE T == {s \in SUBSET S : sum[s] # g[s]}
              sizes == {Cardinality(s) : s \in T}
  <2>1. sizes \in SUBSET Nat /\ sizes # {}
    <3>1. T # {}
      BY <1>8
    <3>2. \A s \in T : Cardinality(s) \in Nat
      BY <1>7
    <3>. HIDE DEF T
    <3>. QED  BY <3>1, <3>2, Zenon
  <2>2. PICK k \in sizes : \A l \in sizes : k <= l
    BY <2>1, Least
  <2>3. PICK s \in T : k = Cardinality(s)
    BY <2>2
  <2>4. s # {}
    BY <1>6, <2>3
  <2>5. Some(s) \in s /\ s \ {Some(s)} \in SUBSET S
    BY <1>1, <2>3, <2>4
  <2>6. Cardinality(s \ {Some(s)}) = Cardinality(s) - 1
    BY <1>7, <2>3, <2>5, FS_RemoveElement
  <2>7. s \ {Some(s)} \notin T
    <3>. SUFFICES ASSUME s \ {Some(s)} \in T PROVE FALSE
      OBVIOUS
    <3>1. Cardinality(s \ {Some(s)}) \in sizes
      OBVIOUS
    <3>2. k <= Cardinality(s \ {Some(s)})
      BY <2>2, <3>1, Zenon
    <3>3. Cardinality(s) \in Nat
      BY <1>7, <2>3
    <3>. QED  BY <2>3, <2>6, <3>2, <3>3
  <2>8. sum[s] = g[s]
    BY <1>2, <1>6, <2>3, <2>4, <2>5, <2>7
  <2>. QED  BY <2>3, <2>8
<1>. QED  BY <1>8 DEF sum, SumOver

\* The entries in use of the banks B.
InUseOf(B) == {p \in B \X Slot : state[p[1]][p[2]] # FREE}

\* They are finitely many.
LEMMA InUseFinite ==
  ASSUME NEW B \in SUBSET Bank
  PROVE  IsFiniteSet(InUseOf(B)) /\ Cardinality(InUseOf(B)) \in Nat
<1>1. IsFiniteSet(Bank) /\ IsFiniteSet(Slot)
  BY FS_Interval, RobAssumption DEF Bank, Slot
<1>2. IsFiniteSet(Bank \X Slot)
  BY <1>1, FS_Product
<1>3. InUseOf(B) \in SUBSET (Bank \X Slot)
  BY DEF InUseOf
<1>. QED  BY <1>2, <1>3, FS_Subset, FS_CardinalityType

\* A bank has as many entries in use as it counts: its window holds one for
\* each place.
LEMMA BankOccupancy ==
  ASSUME TypeOK, WindowInv, NEW b \in Bank
  PROVE  IsFiniteSet(InUseOf({b})) /\ Cardinality(InUseOf({b})) = count[b]
<1>. DEFINE S == 1 .. count[b]
            W == InUseOf({b})
            At(i) == <<b, WindowSlot(b, i)>>
            a == [i \in S |-> At(i)]
<1>1. count[b] \in Nat /\ count[b] <= RobEntriesPerBank
  BY RobAssumption DEF TypeOK
<1>2. ASSUME NEW i \in S
      PROVE  /\ WindowSlot(b, i) \in Slot
             /\ Offset(b, WindowSlot(b, i)) = i - 1
             /\ At(i) \in W
  <2>1. i \in 1 .. RobEntriesPerBank /\ i - 1 < count[b]
    BY <1>1, RobAssumption
  <2>2. WindowSlot(b, i) \in Slot /\ Offset(b, WindowSlot(b, i)) = i - 1
    BY <2>1, WindowSlots
  <2>3. state[b][WindowSlot(b, i)] # FREE
    BY <2>1, <2>2 DEF WindowInv
  <2>. QED  BY <2>2, <2>3 DEF InUseOf
<1>3. ASSUME NEW i \in S, NEW j \in S, At(i) = At(j)
      PROVE  i = j
  <2>1. WindowSlot(b, i) = WindowSlot(b, j)
    BY <1>3
  <2>2. i - 1 = j - 1
    BY <1>2, <2>1, Zenon
  <2>. QED  BY <1>1, <2>2
<1>4. ASSUME NEW p \in W
      PROVE  \E i \in S : At(i) = p
  <2>1. PICK s \in Slot : p = <<b, s>> /\ state[b][s] # FREE
    BY DEF InUseOf
  <2>2. Offset(b, s) < count[b] /\ Offset(b, s) \in Nat
    BY <2>1, OffsetFacts, RobAssumption DEF WindowInv
  <2>3. Offset(b, s) + 1 \in S
    BY <1>1, <2>2
  <2>4. PICK i \in S : i = Offset(b, s) + 1
    BY <2>3
  <2>5. WindowSlot(b, i) \in Slot /\ Offset(b, WindowSlot(b, i)) = i - 1
    BY <1>2, Zenon
  <2>6. Offset(b, WindowSlot(b, i)) = Offset(b, s)
    BY <2>2, <2>4, <2>5
  <2>7. WindowSlot(b, i) = s
    BY <2>5, <2>6, OffsetFacts, Zenon
  <2>. QED  BY <2>1, <2>7
<1>. HIDE DEF At, S, W
<1>5. a \in Bijection(S, W)
  <2>1. a \in [S -> W]
    BY <1>2
  <2>2. \A i, j \in S : a[i] = a[j] => i = j
    BY <1>3
  <2>3. \A p \in W : \E i \in S : a[i] = p
    BY <1>4
  <2>. QED  BY <2>1, <2>2, <2>3 DEF Bijection, Injection, Surjection, IsInjective
<1>6. IsFiniteSet(S) /\ Cardinality(S) = count[b]
  <2>1. IsFiniteSet(1 .. count[b])
        /\ Cardinality(1 .. count[b]) = IF 1 > count[b] THEN 0 ELSE count[b] - 1 + 1
    BY <1>1, FS_Interval
  <2>. QED  BY <1>1, <2>1 DEF S
<1>7. ExistsBijection(S, W)
  BY <1>5 DEF ExistsBijection
<1>8. IsFiniteSet(W) /\ Cardinality(W) = Cardinality(S)
  BY <1>6, <1>7, FS_Bijection
<1>. QED  BY <1>6, <1>8 DEF W

\* A bank adds its count to the entries in use of any other banks.
LEMMA BankAdds ==
  ASSUME TypeOK, WindowInv, NEW B \in SUBSET Bank, NEW b \in B
  PROVE  Cardinality(InUseOf(B)) = count[b] + Cardinality(InUseOf(B \ {b}))
<1>1. /\ IsFiniteSet(InUseOf({b})) /\ Cardinality(InUseOf({b})) = count[b]
      /\ count[b] \in Nat
  BY BankOccupancy DEF TypeOK
<1>2. IsFiniteSet(InUseOf(B \ {b})) /\ Cardinality(InUseOf(B \ {b})) \in Nat
  BY InUseFinite
<1>3. InUseOf(B) = InUseOf({b}) \cup InUseOf(B \ {b})
  BY DEF InUseOf
<1>4. InUseOf({b}) \cap InUseOf(B \ {b}) = {}
  BY DEF InUseOf
<1>5. Cardinality({}) = 0
  BY FS_EmptySet
<1>. DEFINE own == InUseOf({b})
            others == InUseOf(B \ {b})
<1>. HIDE DEF own, others
<1>6. Cardinality(own \cup others) =
        Cardinality(own) + Cardinality(others) - Cardinality(own \cap others)
  <2>1. IsFiniteSet(own) /\ IsFiniteSet(others)
    BY <1>1, <1>2 DEF own, others
  <2>. QED  BY <2>1, FS_Union
<1>7. own \cup others = InUseOf(B) /\ own \cap others = {}
  BY <1>3, <1>4 DEF own, others
<1>8. /\ Cardinality(own) = count[b] /\ Cardinality(own) \in Nat
      /\ Cardinality(others) = Cardinality(InUseOf(B \ {b}))
      /\ Cardinality(others) \in Nat
  BY <1>1, <1>2, Zenon DEF own, others
<1>9. Cardinality(own \cup others) = Cardinality(own) + Cardinality(others)
  BY <1>5, <1>6, <1>7, <1>8
<1>. QED  BY <1>7, <1>8, <1>9, Zenon

\* The sum RobGetActiveCount forms over the banks counts the entries in use.
LEMMA CountsAddUp ==
  ASSUME TypeOK, WindowInv
  PROVE  MapThenSumSet(LAMBDA b : count[b], Bank) = Cardinality(InUseOf(Bank))
<1>. DEFINE g == [B \in SUBSET Bank |-> Cardinality(InUseOf(B))]
<1>1. IsFiniteSet(Bank)
  BY FS_Interval, RobAssumption DEF Bank
<1>2. g[{}] = 0
  <2>1. InUseOf({}) = {}
    BY DEF InUseOf
  <2>. QED  BY <2>1, FS_EmptySet
<1>3. \A B \in SUBSET Bank : \A b \in B : g[B] = count[b] + g[B \ {b}]
  BY BankAdds
<1>4. g \in [SUBSET Bank -> Nat] /\ g[Bank] = Cardinality(InUseOf(Bank))
  BY InUseFinite
<1>. HIDE DEF g
<1>5. SumOver(count, Bank) = g[Bank]
  <2>1. Measures(g, count, Bank)
    BY <1>1, <1>2, <1>3, <1>4, Zenon DEF Measures
  <2>. QED  BY <2>1, SumIsMeasure, Zenon
<1>6. MapThenSumSet(LAMBDA b : count[b], Bank) = SumOver(count, Bank)
  BY Zenon DEF MapThenSumSet, MapThenFoldSet, SumStep, SumOver
<1>. QED  BY <1>4, <1>5, <1>6, Zenon

\* The occupancy callers are told, added up from the counters of the banks, is
\* the number of entries in use: before the distributor exists it is zero.
THEOREM OccupancyCorrect == Spec => []OccupancyReported
<1>1. IInv => OccupancyReported
  <2>. SUFFICES ASSUME TypeOK, WindowInv
                PROVE  OccupancyReported
    BY DEF IInv
  <2>1. CASE ready
    <3>1. Queued = InUseOf(Bank)
      BY <2>1 DEF Queued, InUseOf
    <3>2. RobGetActiveCount = MapThenSumSet(LAMBDA b : count[b], Bank)
      BY <2>1, Zenon DEF RobGetActiveCount
    <3>. QED  BY <3>1, <3>2, CountsAddUp, Zenon DEF OccupancyReported
  <2>2. CASE ~ready
    <3>1. Queued = {}
      BY <2>2 DEF Queued
    <3>2. RobGetActiveCount = 0
      BY <2>2, Zenon DEF RobGetActiveCount
    <3>. QED  BY <3>1, <3>2, FS_EmptySet DEF OccupancyReported
  <2>. QED  BY <2>1, <2>2
<1>. QED  BY <1>1, SpecIInv, PTL

-------------------------------------------------------------------------------

\* A distributor just initialised has empty queues.
LEMMA EmptyQueues ==
  ASSUME NEW b \in Bank, count[b] = 0
  PROVE  WindowQueue(b) = <<>>
<1>1. WindowQueue(b) \in [1 .. 0 -> Entry]
  BY DEF WindowQueue
<1>. QED  BY <1>1

LEMMA AllEmpty ==
  (\A b \in Bank : count[b] = 0) => \A b \in Bank : WindowQueue(b) = <<>>
BY EmptyQueues

\* An allocation issues one micro-op to the back of one queue.
LEMMA AllocateIssues ==
  ASSUME TypeOK, TypeOK', WindowInv, RobAllocateEntry
  PROVE  \E b \in Bank : Queues!Issue(b)
<1>1. PICK b \in Bank :
           /\ count[b] < RobEntriesPerBank
           /\ Offset(b, tail[b]) = count[b] /\ tail[b] \in Slot
           /\ AllocateIn(b)
           /\ head' = head
           /\ totalAllocations' = totalAllocations + 1
  BY AllocationFacts
<1>. DEFINE new == [uop |-> totalAllocations, done |-> FALSE]
<1>2. /\ count'[b] = count[b] + 1
      /\ \A s \in Slot : s # tail[b] =>
           /\ state'[b][s] = state[b][s]
           /\ uop'[b][s] = uop[b][s]
      /\ state'[b][tail[b]] = ALLOCATED
      /\ uop'[b][tail[b]] = totalAllocations
  BY <1>1 DEF AllocateIn, TypeOK
<1>3. \A c \in Bank \ {b} :
           /\ count'[c] = count[c] /\ head'[c] = head[c]
           /\ state'[c] = state[c] /\ uop'[c] = uop[c]
  BY <1>1 DEF AllocateIn, TypeOK
<1>4. \A c \in Bank \ {b} : WindowQueue(c)' = WindowQueue(c)
  BY <1>3, OtherBanks
<1>5. count[b] \in Nat /\ \A i \in 1 .. count[b] + 1 : i \in 1 .. RobEntriesPerBank
  BY <1>1, RobAssumption DEF TypeOK
<1>6. \A i \in 1 .. count[b] + 1 : WindowSlot(b, i)' = WindowSlot(b, i)
  BY <1>1 DEF WindowSlot
<1>7. new \in Entry
  BY DEF Entry, TypeOK
<1>8. WindowQueue(b)' = Append(WindowQueue(b), new)
  <2>. DEFINE old == WindowQueue(b)
              app == Append(old, new)
  <2>1. old \in Seq(Entry) /\ Len(old) = count[b]
    BY WindowIsQueue
  <2>2. /\ app \in Seq(Entry) /\ Len(app) = count[b] + 1
        /\ \A i \in 1 .. count[b] : app[i] = old[i]
        /\ app[count[b] + 1] = new
    BY <1>7, <2>1, AppendProperties
  <2>3. /\ WindowQueue(b)' \in Seq(Entry) /\ Len(WindowQueue(b)') = count[b] + 1
        /\ \A i \in 1 .. count[b] + 1 :
             /\ WindowQueue(b)'[i] \in Entry
             /\ WindowQueue(b)'[i].uop = uop'[b][WindowSlot(b, i)]
             /\ WindowQueue(b)'[i].done <=> state'[b][WindowSlot(b, i)] = RETIRED
    <3>1. WindowsAreQueues'
      BY AllWindows, PTL
    <3>2. /\ WindowQueue(b)' \in Seq(Entry) /\ Len(WindowQueue(b)') = count'[b]
          /\ \A i \in 1 .. count'[b] :
               /\ WindowQueue(b)'[i] \in Entry
               /\ WindowQueue(b)'[i].uop = uop'[b][WindowSlot(b, i)']
               /\ WindowQueue(b)'[i].done <=> state'[b][WindowSlot(b, i)'] = RETIRED
      BY <3>1, Zenon DEF WindowsAreQueues
    <3>. QED  BY <1>2, <1>6, <3>2, Zenon
  <2>. HIDE DEF app, old
  <2>4. ASSUME NEW i \in 1 .. count[b] + 1
        PROVE  WindowQueue(b)'[i] = app[i]
    <3>. DEFINE s == WindowSlot(b, i)
                x == WindowQueue(b)'[i]
    <3>1. s \in Slot /\ Offset(b, s) = i - 1
      BY <1>5, WindowSlots
    <3>2. x \in Entry /\ x.uop = uop'[b][s] /\ (x.done <=> state'[b][s] = RETIRED)
      BY <2>3
    <3>. HIDE DEF s, x
    <3>3. CASE i = count[b] + 1
      <4>1. s = tail[b]
        BY <1>1, <1>5, <3>1, <3>3, OffsetFacts
      <4>2. x.uop = totalAllocations /\ ~x.done
        BY <1>2, <3>2, <4>1 DEF ALLOCATED, RETIRED
      <4>3. x = new
        BY <3>2, <4>2 DEF Entry
      <4>. QED  BY <2>2, <3>3, <4>3 DEF x
    <3>4. CASE i \in 1 .. count[b]
      <4>1. s # tail[b]
        BY <1>1, <1>5, <3>1, <3>4
      <4>2. old[i] \in Entry /\ old[i].uop = uop[b][s]
            /\ (old[i].done <=> state[b][s] = RETIRED)
        BY <3>4, WindowIsQueue DEF old, s
      <4>3. x.uop = old[i].uop /\ (x.done <=> old[i].done)
        BY <1>2, <3>1, <3>2, <4>1, <4>2
      <4>4. x = old[i]
        BY <3>2, <4>2, <4>3, SameEntry
      <4>. QED  BY <2>2, <3>4, <4>4 DEF x
    <3>. QED  BY <1>5, <3>3, <3>4
  <2>. QED  BY <2>2, <2>3, <2>4, SeqEqual DEF app, old
<1>. DEFINE queue == [c \in Bank |-> WindowQueue(c)]
<1>9. /\ queue[b] = WindowQueue(b)
      /\ queue' = [queue EXCEPT ![b] = Append(queue[b], new)]
  BY <1>4, <1>8
<1>10. Len(queue[b]) < RobEntriesPerBank
  BY <1>1, <1>9, WindowIsQueue
<1>. QED  BY <1>1, <1>9, <1>10, Zenon DEF Queues!Issue

\* A retirement finishes its micro-op and lets the finished front of its queue go.
LEMMA RetireFinishes ==
  ASSUME TypeOK, TypeOK', WindowInv, NEW b \in Bank, NEW s \in Slot, RobRetireEntry(b, s)
  PROVE  \E i \in 1 .. Len(WindowQueue(b)) : Queues!Finish(b, i)
<1>1. PICK k \in 0 .. count[b] :
           /\ k \in 0 .. RobEntriesPerBank
           /\ head'[b] = (head[b] + k) % RobEntriesPerBank
           /\ count'[b] = count[b] - k
           /\ \A t \in Slot : state'[b][t] =
                 IF Offset(b, t) < k THEN FREE
                 ELSE IF t = s THEN RETIRED ELSE state[b][t]
           /\ \A t \in Slot : Offset(b, t) < k => t = s \/ state[b][t] = RETIRED
           /\ k < count[b] => \E t \in Slot :
                 Offset(b, t) = k /\ t # s /\ state[b][t] # RETIRED
           /\ \A c \in Bank \ {b} : /\ head'[c] = head[c]
                                    /\ count'[c] = count[c]
                                    /\ state'[c] = state[c]
  BY RetirementFacts
<1>2. uop' = uop /\ totalAllocations' = totalAllocations /\ state[b][s] = ALLOCATED
  BY DEF RobRetireEntry, Retirable
<1>3. \A c \in Bank \ {b} : WindowQueue(c)' = WindowQueue(c)
  BY <1>1, <1>2, OtherBanks
<1>. DEFINE i  == Offset(b, s) + 1
            wq == WindowQueue(b)
            q  == [wq EXCEPT ![i].done = TRUE]
<1>4. /\ count[b] \in Nat /\ \A j \in 1 .. count[b] : j \in 1 .. RobEntriesPerBank
      /\ k \in Nat /\ count[b] - k \in Nat
  BY <1>1, RobAssumption DEF TypeOK
<1>5. i \in 1 .. count[b]
  <2>1. Offset(b, s) < count[b]
    BY <1>2 DEF WindowInv, FREE, ALLOCATED
  <2>2. Offset(b, s) \in 0 .. RobEntriesPerBank - 1
    BY OffsetFacts
  <2>. QED  BY <1>4, <2>1, <2>2
<1>6. \A j \in 1 .. count[b] :
         /\ WindowSlot(b, j) \in Slot /\ Offset(b, WindowSlot(b, j)) = j - 1
         /\ WindowSlot(b, j) = s <=> j = i
  <2>1. \A j \in 1 .. count[b] :
          WindowSlot(b, j) \in Slot /\ Offset(b, WindowSlot(b, j)) = j - 1
    BY <1>4, WindowSlots
  <2>2. ASSUME NEW j \in 1 .. count[b]
        PROVE  WindowSlot(b, j) = s <=> j = i
    <3>1. WindowSlot(b, j) = s => j = i
      BY <1>4, <2>1
    <3>2. j = i => WindowSlot(b, j) = s
      <4>1. j = i => Offset(b, WindowSlot(b, j)) = Offset(b, s)
        BY <1>4, <1>5, <2>1, OffsetFacts
      <4>. QED  BY <2>1, <4>1, OffsetFacts
    <3>. QED  BY <3>1, <3>2
  <2>. QED  BY <2>1, <2>2
<1>7. /\ wq \in Seq(Entry) /\ Len(wq) = count[b]
      /\ \A j \in 1 .. count[b] :
           /\ wq[j] \in Entry
           /\ wq[j].uop = uop[b][WindowSlot(b, j)]
           /\ wq[j].done <=> state[b][WindowSlot(b, j)] = RETIRED
  BY WindowIsQueue
<1>. HIDE DEF i, wq
<1>8. /\ q \in Seq(Entry) /\ Len(q) = count[b]
      /\ \A j \in 1 .. count[b] :
           /\ q[j] \in Entry
           /\ q[j].uop = uop[b][WindowSlot(b, j)]
           /\ q[j].done <=> WindowSlot(b, j) = s \/ state[b][WindowSlot(b, j)] = RETIRED
  <2>. DEFINE x == [wq[i] EXCEPT !.done = TRUE]
  <2>1. x \in Entry /\ x.uop = wq[i].uop /\ x.done
    BY <1>5, <1>7 DEF Entry
  <2>2. q = [wq EXCEPT ![i] = x]
    BY Zenon
  <2>. HIDE DEF x, q
  <2>3. /\ q \in Seq(Entry) /\ Len(q) = Len(wq)
        /\ \A j \in 1 .. Len(wq) : q[j] = IF j = i THEN x ELSE wq[j]
    <3>1. i \in 1 .. Len(wq) /\ x \in Entry /\ wq \in Seq(Entry)
      BY <1>5, <1>7, <2>1
    <3>. QED  BY <2>2, <3>1, ExceptSeq
  <2>4. ASSUME NEW j \in 1 .. count[b]
        PROVE  /\ q[j] \in Entry
               /\ q[j].uop = uop[b][WindowSlot(b, j)]
               /\ q[j].done <=> WindowSlot(b, j) = s \/ state[b][WindowSlot(b, j)] = RETIRED
    <3>1. CASE j = i
      BY <1>6, <1>7, <2>1, <2>3, <3>1, Zenon
    <3>2. CASE j # i
      BY <1>6, <1>7, <2>3, <3>2, Zenon
    <3>. QED  BY <3>1, <3>2
  <2>. QED  BY <1>7, <2>3, <2>4
<1>. HIDE DEF q
<1>9. ~wq[i].done
  BY <1>2, <1>5, <1>6, <1>7 DEF ALLOCATED, RETIRED
<1>10. Queues!DonePrefix(q, k)
  <2>1. ASSUME NEW j \in 1 .. k
        PROVE  q[j].done
    <3>1. j \in 1 .. count[b] /\ j - 1 < k
      BY <1>1, <1>4
    <3>2. WindowSlot(b, j) = s \/ state[b][WindowSlot(b, j)] = RETIRED
      BY <1>1, <1>6, <3>1
    <3>. QED  BY <1>8, <3>1, <3>2
  <2>2. ASSUME k < Len(q)
        PROVE  ~q[k + 1].done
    <3>1. k + 1 \in 1 .. count[b] /\ k < count[b]
      BY <1>4, <1>8, <2>2
    <3>2. PICK t \in Slot : Offset(b, t) = k /\ t # s /\ state[b][t] # RETIRED
      BY <1>1, <3>1
    <3>3. WindowSlot(b, k + 1) = t
      <4>1. WindowSlot(b, k + 1) \in Slot /\ Offset(b, WindowSlot(b, k + 1)) = k
        BY <1>4, <1>6, <3>1
      <4>. QED  BY <3>2, <4>1, OffsetFacts
    <3>. QED  BY <1>8, <3>1, <3>2, <3>3
  <2>. QED  BY <2>1, <2>2 DEF Queues!DonePrefix
<1>11. \A j \in 1 .. count[b] - k :
          /\ k + j \in 1 .. count[b]
          /\ WindowSlot(b, j)' = WindowSlot(b, k + j)
          /\ state'[b][WindowSlot(b, k + j)] =
               IF WindowSlot(b, k + j) = s THEN RETIRED ELSE state[b][WindowSlot(b, k + j)]
  <2>. SUFFICES ASSUME NEW j \in 1 .. count[b] - k
                PROVE  /\ k + j \in 1 .. count[b]
                       /\ WindowSlot(b, j)' = WindowSlot(b, k + j)
                       /\ state'[b][WindowSlot(b, k + j)] =
                            IF WindowSlot(b, k + j) = s THEN RETIRED
                            ELSE state[b][WindowSlot(b, k + j)]
    OBVIOUS
  <2>1. k + j \in 1 .. count[b] /\ j \in 1 .. count[b]
    BY <1>1, <1>4
  <2>2. PICK t \in Slot : t = WindowSlot(b, k + j) /\ Offset(b, t) = k + j - 1
    BY <1>6, <2>1
  <2>3. Offset(b, t)' = j - 1
    <3>1. Offset(b, t)' = IF Offset(b, t) >= k THEN Offset(b, t) - k
                          ELSE Offset(b, t) - k + RobEntriesPerBank
      BY <1>1, OffsetShift
    <3>. QED  BY <1>4, <2>2, <3>1
  <2>4. SlotsNumbered'
    BY AllSlots, PTL
  <2>5. WindowSlot(b, j)' = t
    <3>1. j \in 1 .. RobEntriesPerBank
      BY <1>4, <2>1
    <3>2. WindowSlot(b, j)' \in Slot /\ Offset(b, WindowSlot(b, j))' = j - 1
      BY <2>4, <3>1 DEF SlotsNumbered
    <3>3. PICK u \in Slot : u = WindowSlot(b, j)'
      BY <3>2
    <3>4. Offset(b, u)' = j - 1
      BY <3>2, <3>3 DEF Offset
    <3>5. (\A v, w \in Slot : Offset(b, v) = Offset(b, w) => v = w)'
      BY <2>4 DEF SlotsNumbered
    <3>6. \A v, w \in Slot : Offset(b, v)' = Offset(b, w)' => v = w
      BY <3>5
    <3>. QED  BY <2>3, <3>3, <3>4, <3>6
  <2>6. ~(Offset(b, t) < k)
    BY <1>4, <2>2
  <2>7. state'[b][t] = IF t = s THEN RETIRED ELSE state[b][t]
    BY <1>1, <2>2, <2>6
  <2>. QED  BY <2>1, <2>2, <2>5, <2>7
<1>12. WindowQueue(b)' = SubSeq(q, k + 1, Len(q))
  <2>. DEFINE sub == SubSeq(q, k + 1, Len(q))
              new == WindowQueue(b)'
  <2>1. /\ sub \in Seq(Entry) /\ Len(sub) = count[b] - k
        /\ \A j \in 1 .. count[b] - k : sub[j] = q[k + j]
    <3>1. k + 1 \in Int /\ Len(q) \in Int /\ \A j \in k + 1 .. Len(q) : q[j] \in Entry
      BY <1>4, <1>8
    <3>2. /\ sub \in Seq(Entry)
          /\ Len(sub) = IF k + 1 <= Len(q) THEN Len(q) - (k + 1) + 1 ELSE 0
          /\ \A j \in 1 .. Len(q) - (k + 1) + 1 : sub[j] = q[k + 1 + j - 1]
      BY <3>1, SubSeqProperties
    <3>. HIDE DEF sub
    <3>3. Len(sub) = count[b] - k
      BY <1>1, <1>4, <1>8, <3>2
    <3>4. ASSUME NEW j \in 1 .. count[b] - k
          PROVE  sub[j] = q[k + j]
      <4>1. j \in 1 .. Len(q) - (k + 1) + 1 /\ k + 1 + j - 1 = k + j
        BY <1>4, <1>8
      <4>. QED  BY <3>2, <4>1
    <3>. QED  BY <3>2, <3>3, <3>4
  <2>2. /\ new \in Seq(Entry) /\ Len(new) = count[b] - k
        /\ \A j \in 1 .. count[b] - k :
             /\ new[j] \in Entry
             /\ new[j].uop = uop'[b][WindowSlot(b, j)']
             /\ new[j].done <=> state'[b][WindowSlot(b, j)'] = RETIRED
    <3>1. WindowsAreQueues'
      BY AllWindows, PTL
    <3>2. /\ new \in Seq(Entry) /\ Len(new) = count'[b]
          /\ \A j \in 1 .. count'[b] :
               /\ new[j] \in Entry
               /\ new[j].uop = uop'[b][WindowSlot(b, j)']
               /\ new[j].done <=> state'[b][WindowSlot(b, j)'] = RETIRED
      BY <3>1, Zenon DEF WindowsAreQueues
    <3>. HIDE DEF new
    <3>. QED  BY <1>1, <3>2, Zenon
  <2>. HIDE DEF sub, new
  <2>3. ASSUME NEW j \in 1 .. count[b] - k
        PROVE  new[j] = sub[j]
    <3>. DEFINE t == WindowSlot(b, k + j)
    <3>1. new[j] \in Entry /\ new[j].uop = uop[b][t]
          /\ (new[j].done <=> t = s \/ state[b][t] = RETIRED)
      <4>1. /\ new[j] \in Entry /\ new[j].uop = uop'[b][WindowSlot(b, j)']
            /\ new[j].done <=> state'[b][WindowSlot(b, j)'] = RETIRED
        BY <2>2
      <4>2. /\ WindowSlot(b, j)' = t
            /\ state'[b][t] = IF t = s THEN RETIRED ELSE state[b][t]
        BY <1>11
      <4>. HIDE DEF t
      <4>. QED  BY <1>2, <4>1, <4>2, Zenon
    <3>2. q[k + j] \in Entry /\ q[k + j].uop = uop[b][t]
          /\ (q[k + j].done <=> t = s \/ state[b][t] = RETIRED)
      BY <1>8, <1>11
    <3>. HIDE DEF t
    <3>3. new[j] = q[k + j]
      BY <3>1, <3>2, SameEntry
    <3>. QED  BY <2>1, <3>3
  <2>4. new = sub
    BY <2>1, <2>2, <2>3, SeqEqual
  <2>. QED  BY <2>4 DEF new, sub
<1>. DEFINE queue == [c \in Bank |-> WindowQueue(c)]
<1>13. /\ queue[b] = wq
       /\ queue' = [queue EXCEPT ![b] = SubSeq(q, k + 1, Len(q))]
  BY <1>3, <1>12 DEF wq
<1>14. q = [queue[b] EXCEPT ![i].done = TRUE] /\ k \in 0 .. Len(q)
  BY <1>1, <1>8, <1>13 DEF q
<1>15. Queues!Finish(b, i)
  BY <1>2, <1>9, <1>10, <1>13, <1>14, Zenon DEF Queues!Finish
<1>. QED  BY <1>5, <1>7, <1>15 DEF wq

-------------------------------------------------------------------------------

\* Every step of the distributor is a step of the queues, or none.
LEMMA StepIsQueueStep == IInv /\ IInv' /\ [Next]_vars => [Queues!Next]_Queues!vars
<1>. SUFFICES ASSUME IInv, IInv', [Next]_vars
              PROVE  Queues!Next \/ UNCHANGED Queues!vars
  OBVIOUS
<1>. TypeOK /\ WindowInv /\ TypeOK'
  BY DEF IInv
<1>. DEFINE queue == [c \in Bank |-> WindowQueue(c)]
<1>1. CASE RobDistributorInit
  <2>1. (\A b \in Bank : count[b] = 0)'
    BY <1>1 DEF RobDistributorInit, Cleared
  <2>2. (\A b \in Bank : WindowQueue(b) = <<>>)'
    BY <2>1, AllEmpty, PTL
  <2>. QED  BY <1>1, <2>2 DEF RobDistributorInit, Queues!Next, Queues!Reset
<1>2. CASE RobAllocateEntry
  BY <1>2, AllocateIssues DEF Queues!Next
<1>3. ASSUME NEW b \in Bank, NEW s \in Slot, RobRetireEntry(b, s)
      PROVE  Queues!Next
  <2>1. PICK i \in 1 .. Len(WindowQueue(b)) : Queues!Finish(b, i)
    BY <1>3, RetireFinishes
  <2>2. i \in 1 .. Len(queue[b])
    OBVIOUS
  <2>. QED  BY <2>1, <2>2, Zenon DEF Queues!Next
<1>4. ASSUME UNCHANGED <<head, count, state, uop, totalAllocations>>
      PROVE  UNCHANGED Queues!vars
  BY <1>4, OtherBanks DEF Queues!vars
<1>5. CASE RobAllocateStall \/ RobTick \/ UNCHANGED vars
  BY <1>4, <1>5 DEF RobAllocateStall, RobTick, vars, bankVars, slotVars
<1>. QED  BY <1>1, <1>2, <1>3, <1>5 DEF Next

\* Ring indices, wrap-around, the drain loop and the round-robin scan together
\* behave as in-order queues, of any capacity and in any number of banks.
THEOREM ImplementsInOrderQueues == Spec => ImplementsQueues
<1>1. Init => Queues!Init
  <2>. SUFFICES ASSUME Init PROVE Queues!Init
    OBVIOUS
  <2>1. \A b \in Bank : count[b] = 0
    BY DEF Init, Cleared
  <2>. QED  BY <2>1, EmptyQueues DEF Init, Queues!Init, Queues!Empty
<1>. QED  BY <1>1, StepIsQueueStep, SpecIInv, PTL DEF Spec, Queues!Spec, ImplementsQueues

===============================================================================
