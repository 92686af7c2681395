-------------------------------- MODULE RobV72 --------------------------------
(***************************************************************************)
(* The v7.2 compressed reorder buffer, performance/rob/robdistributor.c:   *)
(* a main ring of MainEntries two-byte entries and ExtBanks extended rings *)
(* of ExtEntries, used when the main ring is full.  An entry only keeps a  *)
(* reorder tag and a state; everything else about the micro-op is in one   *)
(* table of MainEntries records indexed by the tag, and tags are handed    *)
(* out round robin from that table.  Callers retire by tag.                *)
(*                                                                         *)
(* A micro-op is its allocation number.  ReadyMask and AllocTick, which    *)
(* nothing reads, are left out.  MaxAllocations, MaxRetirements, MaxStalls *)
(* and MaxInits bound the calls.                                           *)
(***************************************************************************)
EXTENDS Integers, FiniteSets, Functions

CONSTANTS
  MainEntries,      \* V72_ROB_MAIN_ENTRIES, also the size of the metadata table
  ExtBanks,         \* V72_ROB_EXT_BANKS
  ExtEntries,       \* V72_ROB_EXT_ENTRIES
  MaxAllocations, MaxRetirements, MaxStalls, MaxInits,
  NULL

ASSUME V72Assumption ==
  /\ MainEntries \in Nat \ {0} /\ ExtBanks \in Nat \ {0}
  /\ ExtEntries \in Nat \ {0}

VARIABLES
  ring,          \* gV72MainRob (at Main) and gV72ExtBanks: NULL or a ring
  meta,          \* gV72Meta: NULL or a record per tag
  entryCounts,   \* gV72MainCount (at Main) and gV72ExtCounts
  metaTail, nextExtBank,
  totalAllocations, totalRetirements, totalStalls,
  inits,         \* calls of V72RobDistributorInit
  initOk,        \* the last one returned EFI_SUCCESS
  spilled,       \* some allocation since then went to an extended bank
  fault          \* a NULL ring or table was dereferenced

vars == <<ring, meta, entryCounts, metaTail, nextExtBank, totalAllocations,
          totalRetirements, totalStalls, inits, initOk, spilled, fault>>

Main == -1                           \* BankId 0xFFFFFFFF
Ext  == 0 .. ExtBanks - 1
Ring == {Main} \cup Ext
Tag  == 0 .. MainEntries - 1
Size(r) == IF r = Main THEN MainEntries ELSE ExtEntries
Slots(r) == 0 .. Size(r) - 1

FREE      == "FREE"
ALLOCATED == "ALLOCATED"
RETIRED   == "RETIRED"

EmptyRing(r) ==
  [head |-> 0, tail |-> 0, count |-> 0,
   entry |-> [s \in Slots(r) |-> [tag |-> 0, state |-> FREE, uop |-> 0]]]

ZeroMeta == [t \in Tag |-> [bank |-> 0, slot |-> 0, uop |-> 0]]

-------------------------------------------------------------------------------

Init ==
  /\ ring = [r \in Ring |-> NULL]
  /\ meta = NULL
  /\ entryCounts = [r \in Ring |-> 0]
  /\ metaTail = 0 /\ nextExtBank = 0
  /\ totalAllocations = 0 /\ totalRetirements = 0 /\ totalStalls = 0
  /\ inits = 0 /\ initOk = FALSE /\ spilled = FALSE /\ fault = FALSE

\* Mutant of Reported: the result of the metadata allocation is not checked.
ReportedNoMetaCheck(f) == f = ExtBanks + 1

\* The status of an initialisation whose allocation f failed is an error.
Reported(f) == FALSE

\* Allocation number f of main ring, extended rings and metadata fails, and
\* the call returns there: what it had set up stays, the rest is as before.
InitFails(f) ==
  /\ ring' = [r \in Ring |->
        CASE r = Main -> IF f = 0 THEN NULL ELSE EmptyRing(Main)
          [] r + 1 < f -> EmptyRing(r)
          [] r + 1 = f -> NULL
          [] OTHER -> ring[r]]
  /\ meta' = IF f = ExtBanks + 1 THEN NULL ELSE meta
  /\ entryCounts' = [r \in Ring |->
        IF r # Main /\ r + 1 < f THEN 0 ELSE entryCounts[r]]
  /\ initOk' = Reported(f)
  /\ UNCHANGED <<metaTail, nextExtBank, totalAllocations, totalRetirements,
                 totalStalls, spilled>>

InitSucceeds ==
  /\ ring' = [r \in Ring |-> EmptyRing(r)]
  /\ meta' = ZeroMeta
  /\ entryCounts' = [r \in Ring |-> 0]
  /\ metaTail' = 0 /\ nextExtBank' = 0
  /\ totalAllocations' = 0 /\ totalRetirements' = 0 /\ totalStalls' = 0
  /\ initOk' = TRUE /\ spilled' = FALSE

V72RobDistributorInit ==
  /\ ~fault /\ inits < MaxInits
  /\ inits' = inits + 1
  /\ InitSucceeds \/ \E f \in 0 .. ExtBanks + 1 : InitFails(f)
  /\ UNCHANGED fault

\* The code's own guard of every operation; after a fault there is no next step.
Callable == ring[Main] # NULL /\ ~fault

Fault ==
  /\ fault' = TRUE
  /\ UNCHANGED <<ring, meta, entryCounts, metaTail, nextExtBank,
                 totalAllocations, totalRetirements, totalStalls, inits,
                 initOk, spilled>>

\* Mutant of Enter: the slot index is not wrapped at the end of the ring.
EnterStuckTail(q, r) ==
  [q EXCEPT !.entry[q.tail] = [tag |-> metaTail, state |-> ALLOCATED,
                               uop |-> totalAllocations],
            !.count = @ + 1]

\* The tail slot of ring q, which is ring r, takes the next micro-op.
Enter(q, r) ==
  [q EXCEPT !.entry[q.tail] = [tag |-> metaTail, state |-> ALLOCATED,
                               uop |-> totalAllocations],
            !.tail = (@ + 1) % Size(r),
            !.count = @ + 1]

\* Mutant of NextTag: the tag ring is one tag short.
NextTagShort == (metaTail + 1) % (MainEntries - 1)

NextTag == (metaTail + 1) % MainEntries

AllocateIn(r) ==
  /\ ring' = [ring EXCEPT ![r] = Enter(@, r)]
  /\ entryCounts' = [entryCounts EXCEPT ![r] = @ + 1]
  /\ meta' = [meta EXCEPT ![metaTail] =
        [bank |-> r, slot |-> ring[r].tail, uop |-> totalAllocations]]
  /\ metaTail' = NextTag
  /\ totalAllocations' = totalAllocations + 1
  /\ UNCHANGED <<totalRetirements, totalStalls, inits, initOk, fault>>

\* Mutant of MainHasRoom: off by one at the capacity of the main ring.
MainHasRoomOffByOne == entryCounts[Main] <= MainEntries

MainHasRoom == entryCounts[Main] < MainEntries

AllocateMain ==
  /\ Callable /\ totalAllocations < MaxAllocations
  /\ MainHasRoom
  /\ IF meta = NULL
     THEN Fault
     ELSE AllocateIn(Main) /\ UNCHANGED <<nextExtBank, spilled>>

ScanExt(i) == (nextExtBank + i) % ExtBanks
ExtFull(r) == ring[r] # NULL /\ ring[r].count >= ExtEntries

\* The main ring is full: the first extended bank with room, in turn.
AllocateSpill ==
  /\ Callable /\ totalAllocations < MaxAllocations
  /\ ~MainHasRoom
  /\ \E i \in Ext :
       /\ ~ExtFull(ScanExt(i))
       /\ \A j \in 0 .. i - 1 : ExtFull(ScanExt(j))
       /\ IF ring[ScanExt(i)] = NULL \/ meta = NULL
          THEN Fault
          ELSE /\ nextExtBank' = (ScanExt(i) + 1) % ExtBanks
               /\ spilled' = TRUE
               /\ AllocateIn(ScanExt(i))

AllocateStall ==
  /\ Callable /\ totalStalls < MaxStalls
  /\ ~MainHasRoom
  /\ \A r \in Ext : ExtFull(r)
  /\ totalStalls' = totalStalls + 1
  /\ UNCHANGED <<ring, meta, entryCounts, metaTail, nextExtBank,
                 totalAllocations, totalRetirements, inits, initOk, spilled,
                 fault>>

\* Mutant of Drains: the loop frees one entry at most.
DrainsOnce(q, r, k) == k = IF q.entry[q.head].state = RETIRED THEN 1 ELSE 0

\* The drain loop frees k entries from the head of ring q, which is ring r.
Drains(q, r, k) ==
  /\ \A i \in 0 .. k - 1 : q.entry[(q.head + i) % Size(r)].state = RETIRED
  /\ k < q.count => q.entry[(q.head + k) % Size(r)].state # RETIRED

Freed(q, r, k) ==
  [q EXCEPT !.entry = [s \in Slots(r) |->
              IF \E i \in 0 .. k - 1 : s = (q.head + i) % Size(r)
              THEN [q.entry[s] EXCEPT !.state = FREE] ELSE q.entry[s]],
            !.head = (@ + k) % Size(r),
            !.count = @ - k]

\* Mutant of CountDown: the counter beside the ring misses the freed entries.
CountDownOne(n, k) == n - 1

CountDown(n, k) == n - k

\* Retirement goes where the metadata of the tag points, whatever is there.
V72RobRetireEntry(t) ==
  /\ Callable /\ totalRetirements < MaxRetirements
  /\ IF meta = NULL
     THEN Fault
     ELSE LET r == meta[t].bank
              q == [ring[r] EXCEPT !.entry[meta[t].slot].state = RETIRED]
          IN  /\ ring[r] # NULL
              /\ ring[r].count > 0
              /\ \E k \in 0 .. ring[r].count :
                   /\ Drains(q, r, k)
                   /\ ring' = [ring EXCEPT ![r] = Freed(q, r, k)]
                   /\ entryCounts' = [entryCounts EXCEPT ![r] = CountDown(@, k)]
              /\ totalRetirements' = totalRetirements + 1
              /\ UNCHANGED <<meta, metaTail, nextExtBank, totalAllocations,
                             totalStalls, inits, initOk, spilled, fault>>

Next ==
  \/ V72RobDistributorInit
  \/ AllocateMain
  \/ AllocateSpill
  \/ AllocateStall
  \/ \E t \in Tag : V72RobRetireEntry(t)

Spec == Init /\ [][Next]_vars

-------------------------------------------------------------------------------

RingType(r) ==
  [head : Slots(r), tail : Slots(r), count : 0 .. Size(r),
   entry : [Slots(r) -> [tag : Tag, state : {FREE, ALLOCATED, RETIRED}, uop : Nat]]]

MetaType == [Tag -> [bank : Ring, slot : Nat, uop : Nat]]

\* What an allocation returns is not NULL.
ASSUME NullAssumption ==
  /\ \A r \in Ring : NULL \notin RingType(r)
  /\ NULL \notin MetaType

TypeOK ==
  /\ \A r \in Ring : ring[r] = NULL \/ ring[r] \in RingType(r)
  /\ meta = NULL \/ meta \in MetaType
  /\ entryCounts \in [Ring -> Nat]
  /\ metaTail \in Tag /\ nextExtBank \in Ext
  /\ initOk \in BOOLEAN /\ spilled \in BOOLEAN /\ fault \in BOOLEAN

\* What callers are told of the occupancy.
V72RobGetActiveCount ==
  IF ring[Main] = NULL THEN 0
  ELSE SumFunction([r \in {x \in Ring : ring[x] # NULL} |-> ring[r].count])

InWindow(r, s) == \E i \in 0 .. ring[r].count - 1 : s = (ring[r].head + i) % Size(r)

\* Once initialised, each ring's window holds only entries in use and ends at
\* the tail, although a retirement by a stale tag may mark any slot.
RingWindows ==
  initOk => \A r \in Ring :
    /\ ring[r].tail = (ring[r].head + ring[r].count) % Size(r)
    /\ \A s \in Slots(r) : InWindow(r, s) => ring[r].entry[s].state # FREE

\* No retired entry is left at the head of a ring.
RingHeadPending ==
  initOk => \A r \in Ring :
    ring[r].count > 0 => ring[r].entry[ring[r].head].state = ALLOCATED

\* The counters kept beside the rings agree with the rings, so the spill test
\* (which reads the former) and the drain (which reads the latter) agree, and
\* the occupancy callers are told is the number of entries in use.
CountsAgree ==
  initOk => /\ \A r \in Ring : entryCounts[r] = ring[r].count
            /\ V72RobGetActiveCount =
                 SumFunction([r \in Ring |->
                                Cardinality({s \in Slots(r) : InWindow(r, s)})])

\* A ring or table is used before it exists only by a caller that ignored the
\* status of V72RobDistributorInit.
NoFaultAfterInit == initOk => ~fault

\* What a successful initialisation promises and every sequence of allocations,
\* spills and retirements keeps: sound windows, nothing retired at a head, two
\* sets of counters that agree, and every ring in place.
RingsConsistent == RingWindows /\ RingHeadPending /\ CountsAgree /\ NoFaultAfterInit

PointsBack(r, s) ==
  LET m == meta[ring[r].entry[s].tag]
  IN  m.bank = r /\ m.slot = s /\ m.uop = ring[r].entry[s].uop

\* While nothing has spilled, the metadata of every entry in flight is its own:
\* retiring its tag retires that entry.
UnspilledMetadata ==
  initOk /\ ~spilled =>
    \A s \in Slots(Main) : InWindow(Main, s) => PointsBack(Main, s)

\* The comment above V72_ROB_METADATA: full metadata is kept per active entry,
\* indexed by its reorder tag.
MetadataPerActiveEntry ==
  initOk => \A r \in Ring : \A s \in Slots(r) :
    InWindow(r, s) => PointsBack(r, s)

===============================================================================
