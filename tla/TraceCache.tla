------------------------------ MODULE TraceCache ------------------------------
(***************************************************************************)
(* The translated-trace cache, performance/tcache/tracecache.c.            *)
(*                                                                         *)
(* Entries are handed out by a bump allocator and linked at the front of   *)
(* their hash bucket's chain; they are never unlinked.  An entry that is   *)
(* evicted or invalidated only loses its Valid flag.  Lookup, insert and   *)
(* invalidate run under one spin lock, so each is one step here;           *)
(* TraceCachePinEntry and TraceCacheUnpinEntry release the lock after the  *)
(* lookup and then change PinCount in the entry: the test of an unpin, the *)
(* load and the store are steps that other processors interleave with.     *)
(*                                                                         *)
(* TraceCacheInit puts the bucket array at the end of the memory region    *)
(* the allocator hands out entries from.  SafeSlots is the number of       *)
(* entries that fit in front of it: the next one is written over bucket    *)
(* heads, which is where the model stops (overrun).                        *)
(*                                                                         *)
(* Slots are handed out in increasing order and linked in front, so the    *)
(* chain of a bucket is the set of the slots whose keys hash to it, in     *)
(* decreasing order.  Execution counts, optimisation hints and hit-rate    *)
(* targets, which only feed messages, are left out.  MaxLru bounds the     *)
(* counter of uses, and with it the lookups.                               *)
(***************************************************************************)
EXTENDS Integers, FiniteSets, Sequences

CONSTANTS
  CPUs,          \* processors that use the cache
  Rips, Contexts,
  Buckets,       \* TRACE_CACHE_HASH_BUCKETS
  Hash,          \* TraceCacheHash, a function from keys to buckets
  MaxEntries,    \* TRACE_CACHE_MAX_ENTRIES
  SafeSlots,     \* entries in front of the bucket array
  FirstDepth,    \* TRACE_CACHE_LRU_SCAN
  V71Depth, V72Depth,   \* the two reconfigured scan depths, 128 and 256
  KernelBlocks,  \* the keys of a kernel image's blocks, in address order
  LruModulus,    \* 2^32: an entry keeps the low half of the 64-bit counter
  PinModulus,    \* 2^32: PinCount is a UINT32
  MaxLru,
  NONE

Key    == Rips \X Contexts
Bucket == 0 .. Buckets - 1
Slot   == 0 .. SafeSlots

ASSUME TraceAssumption ==
  /\ LruModulus \in Nat \ {0} /\ PinModulus \in Nat \ {0}
  /\ Buckets \in Nat \ {0} /\ MaxEntries \in Nat \ {0} /\ SafeSlots \in Nat
  /\ Hash \in [Key -> Bucket]
  /\ {FirstDepth, V71Depth, V72Depth} \subseteq Nat \ {0, 1}
  /\ KernelBlocks \in Seq(Key)
  /\ NONE \notin Slot

VARIABLES
  entries,      \* slots handed out so far -> their entries
  nextAlloc,    \* the slot NextAlloc points to
  entryCount, lruCounter, lruScanDepth,
  overrun,      \* an entry was written over the bucket array
  warming,      \* kernel blocks a TraceCacheWarmKernel has still to insert
  pc,           \* per processor, where it is in a pin or unpin
  ptr,          \* per processor, the entry the lookup returned
  reg,          \* per processor, the PinCount it loaded
  pins          \* per slot, pins completed minus unpins completed

cacheVars == <<entries, nextAlloc, entryCount, lruCounter, lruScanDepth,
               overrun, warming>>
pinVars   == <<pc, ptr, reg, pins>>
vars == <<cacheVars, pinVars>>

Count == 0 .. PinModulus - 1
Entry == [key : Key, lru : 0 .. LruModulus - 1, pin : Count, valid : BOOLEAN]

-------------------------------------------------------------------------------

Init ==
  /\ entries = <<>>
  /\ nextAlloc = 0 /\ entryCount = 0 /\ lruCounter = 0
  /\ lruScanDepth = FirstDepth
  /\ overrun = FALSE
  /\ warming = <<>>
  /\ pc = [c \in CPUs |-> "idle"]
  /\ ptr = [c \in CPUs |-> NONE]
  /\ reg = [c \in CPUs |-> 0]
  /\ pins = [s \in Slot |-> 0]

SetScanDepth(depth) ==
  /\ ~overrun
  /\ lruScanDepth' = depth
  /\ UNCHANGED <<entries, nextAlloc, entryCount, lruCounter, overrun, warming,
                 pinVars>>

TraceCacheV71Configure == SetScanDepth(V71Depth)

TraceCacheV72Init == SetScanDepth(V72Depth)

Chain(b) == {s \in DOMAIN entries : Hash[entries[s].key] = b}

\* Mutant of Hits: only the head of the chain is compared.
HitsHead(k) ==
  {s \in Chain(Hash[k]) : /\ entries[s].key = k /\ entries[s].valid
                          /\ \A t \in Chain(Hash[k]) : t <= s}

\* The entries of the bucket's chain that match key k.
Hits(k) == {s \in Chain(Hash[k]) : entries[s].key = k /\ entries[s].valid}

\* The walk goes from the newest entry of the chain to the oldest.
FirstHit(k) == CHOOSE s \in Hits(k) : \A t \in Hits(k) : t <= s

Stamp == lruCounter % LruModulus

Touch(s) ==
  /\ lruCounter < MaxLru
  /\ entries' = [entries EXCEPT ![s].lru = Stamp]
  /\ lruCounter' = lruCounter + 1
  /\ UNCHANGED <<nextAlloc, entryCount, lruScanDepth, overrun>>

\* A miss changes nothing.
TraceCacheLookup(k) ==
  /\ ~overrun
  /\ Hits(k) # {}
  /\ Touch(FirstHit(k))
  /\ UNCHANGED <<warming, pinVars>>

\* How many entries the eviction scan meets before slot s of bucket b: it goes
\* round the buckets from lruCounter's, and down each chain from the newest.
Distance(b) == (b + Buckets - (lruCounter % Buckets)) % Buckets

Before(s, t) ==
  LET d == Distance(Hash[entries[s].key])
      e == Distance(Hash[entries[t].key])
  IN  d < e \/ (d = e /\ s > t)

\* Mutant of Evictable: pinned entries are not skipped.
EvictablePinned == {s \in DOMAIN entries : entries[s].valid}

\* Mutant of Evictable: entries that are no longer valid are evicted again.
EvictableInvalid == {s \in DOMAIN entries : entries[s].pin = 0}

Evictable == {s \in DOMAIN entries : entries[s].valid /\ entries[s].pin = 0}

Scanned ==
  {s \in Evictable : Cardinality({t \in Evictable : Before(t, s)}) < lruScanDepth}

\* Mutant of Victims: the newest scanned entry is taken.
VictimsNewest ==
  {s \in Scanned : \A t \in Scanned : entries[t].lru <= entries[s].lru}

\* The least recently used of the scanned entries, several of them if their
\* counters wrapped to one value; there is none when every valid entry is pinned.
Victims ==
  {s \in Scanned : \A t \in Scanned : entries[s].lru <= entries[t].lru}

\* Mutant of MustEvict: off by one at the capacity.
MustEvictLate == entryCount > MaxEntries

MustEvict == entryCount >= MaxEntries

\* What an insertion evicts, at most one entry: of equals, the first scanned.
Evicted ==
  {s \in Victims : MustEvict /\ \A t \in Victims : ~Before(t, s)}

\* A new entry for k in the next slot, after an eviction if the cache is full.
AddEntry(k) ==
  LET evicted == Evicted
      new == [key |-> k, lru |-> Stamp, pin |-> 0, valid |-> TRUE]
  IN  /\ lruCounter < MaxLru
      /\ entries' = [s \in DOMAIN entries \cup {nextAlloc} |->
            IF s = nextAlloc THEN new
            ELSE IF s \in evicted THEN [entries[s] EXCEPT !.valid = FALSE]
            ELSE entries[s]]
      /\ entryCount' = entryCount + 1 - Cardinality(evicted)
      /\ nextAlloc' = nextAlloc + 1
      /\ lruCounter' = lruCounter + 1
      /\ overrun' = (nextAlloc >= SafeSlots)
      /\ UNCHANGED lruScanDepth

TraceCacheInsert(k) ==
  /\ ~overrun
  /\ IF Hits(k) # {} THEN Touch(FirstHit(k)) ELSE AddEntry(k)
  /\ UNCHANGED pinVars

\* One insertion per block with context 0; the lock is free between two of them.
TraceCacheWarmKernel ==
  \/ /\ warming = <<>> /\ ~overrun
     /\ warming' = KernelBlocks
     /\ UNCHANGED <<entries, nextAlloc, entryCount, lruCounter, lruScanDepth,
                    overrun, pinVars>>
  \/ /\ warming # <<>>
     /\ TraceCacheInsert(Head(warming))
     /\ warming' = Tail(warming)

\* Every context's entries of the address; EntryCount is not adjusted.
TraceCacheInvalidate(rip) ==
  /\ ~overrun
  /\ entries' = [s \in DOMAIN entries |->
        IF entries[s].key[1] = rip THEN [entries[s] EXCEPT !.valid = FALSE]
                                   ELSE entries[s]]
  /\ UNCHANGED <<nextAlloc, entryCount, lruCounter, lruScanDepth,
                 overrun, warming, pinVars>>

\* Pin and unpin: the lookup, which takes and releases the lock, ...
PinLookup(c, k, op) ==
  /\ ~overrun
  /\ pc[c] = "idle"
  /\ Hits(k) # {}
  /\ Touch(FirstHit(k))
  /\ pc' = [pc EXCEPT ![c] = op]
  /\ ptr' = [ptr EXCEPT ![c] = FirstHit(k)]
  /\ UNCHANGED <<reg, pins, warming>>

\* An unpin ends here if the entry is not pinned.  Nothing keeps the count
\* from changing between this test and the load.
UnpinCheck(c) ==
  /\ ~overrun
  /\ pc[c] = "unpin"
  /\ LET pinned == entries[ptr[c]].pin > 0
     IN  /\ pc' = [pc EXCEPT ![c] = IF pinned THEN "checked" ELSE "idle"]
         /\ ptr' = [ptr EXCEPT ![c] = IF pinned THEN @ ELSE NONE]
  /\ UNCHANGED <<cacheVars, reg, pins>>

\* ... then the load of PinCount, without the lock ...
PinLoad(c) ==
  /\ ~overrun
  /\ pc[c] \in {"pin", "checked"}
  /\ pc' = [pc EXCEPT ![c] = IF @ = "pin" THEN "pinned" ELSE "unpinned"]
  /\ reg' = [reg EXCEPT ![c] = entries[ptr[c]].pin]
  /\ UNCHANGED <<cacheVars, ptr, pins>>

\* Mutant of Stored: the count is signed, so that it falls below zero.
StoredSigned(n) == n

\* What the unsigned PinCount keeps of a count.
Stored(n) == n % PinModulus

\* ... and the store.
PinStore(c) ==
  /\ ~overrun
  /\ pc[c] \in {"pinned", "unpinned"}
  /\ LET d == IF pc[c] = "pinned" THEN 1 ELSE -1
     IN  /\ entries' = [entries EXCEPT ![ptr[c]].pin = Stored(reg[c] + d)]
         /\ pins' = [pins EXCEPT ![ptr[c]] = @ + d]
  /\ pc' = [pc EXCEPT ![c] = "idle"]
  /\ ptr' = [ptr EXCEPT ![c] = NONE]
  /\ reg' = [reg EXCEPT ![c] = 0]
  /\ UNCHANGED <<nextAlloc, entryCount, lruCounter, lruScanDepth,
                 overrun, warming>>

Next ==
  \/ TraceCacheV71Configure
  \/ TraceCacheV72Init
  \/ TraceCacheWarmKernel
  \/ \E k \in Key : TraceCacheLookup(k)
  \/ \E k \in Key : TraceCacheInsert(k) /\ UNCHANGED warming
  \/ \E rip \in Rips : TraceCacheInvalidate(rip)
  \/ \E c \in CPUs, k \in Key, op \in {"pin", "unpin"} : PinLookup(c, k, op)
  \/ \E c \in CPUs : UnpinCheck(c)
  \/ \E c \in CPUs : PinLoad(c)
  \/ \E c \in CPUs : PinStore(c)

Spec == Init /\ [][Next]_vars

-------------------------------------------------------------------------------

\* Slots, counts and pins in progress are what they can be; in particular
\* PinCount is an unsigned number, also when unpins that all found the entry
\* pinned take it below zero.
TypeOK ==
  /\ nextAlloc \in Nat /\ DOMAIN entries = 0 .. nextAlloc - 1
  /\ \A s \in DOMAIN entries : entries[s] \in Entry
  /\ entryCount \in Nat /\ lruCounter \in Nat
  /\ lruScanDepth \in {FirstDepth, V71Depth, V72Depth}
  /\ overrun \in BOOLEAN /\ warming \in Seq(Key)
  /\ pc \in [CPUs -> {"idle", "pin", "pinned", "unpin", "checked", "unpinned"}]
  /\ ptr \in [CPUs -> Slot \cup {NONE}] /\ reg \in [CPUs -> Count]
  /\ pins \in [Slot -> Int]

Valid == {s \in DOMAIN entries : entries[s].valid}

\* At most one translation of a key is live, however lookups, insertions,
\* evictions and invalidations of several processors follow each other.
UniqueTranslation ==
  \A s, t \in Valid : entries[s].key = entries[t].key => s = t

\* EntryCount drifts above the number of live entries (an invalidation does not
\* lower it) but never below it, so the capacity test is never too late.
CountCoversValid == entryCount >= Cardinality(Valid)

\* The cache grows past its capacity only when every live entry is pinned.
FullOnlyIfPinned ==
  [][entryCount' > entryCount /\ entryCount' > MaxEntries =>
       \A s \in Valid : entries[s].pin > 0]_vars

\* An insertion never takes the translation away from a pinned entry.
EvictionSparesPinned ==
  [][nextAlloc' # nextAlloc =>
       \A s \in Valid : entries[s].pin > 0 => entries'[s].valid]_vars

\* Pins decide both ways: they are the only reason not to evict, and they are
\* respected.
EvictionByPins == FullOnlyIfPinned /\ EvictionSparesPinned

\* Although the scan is cut short, an insertion does not evict the entry that
\* was used last while there is another to evict -- until the entries' 32-bit
\* copies of the counter wrap.
RecentSurvives ==
  [][nextAlloc' # nextAlloc /\ Cardinality(Evictable) > 1
     /\ lruCounter <= LruModulus =>
       \A s \in Evictable :
         entries[s].lru = lruCounter - 1 => entries'[s].valid]_vars

\* PinCount counts the pins: when no pin or unpin is under way, every entry's
\* PinCount is the number of pins minus the number of unpins it received.
PinsAreCounted ==
  (\A c \in CPUs : pc[c] = "idle") =>
    \A s \in DOMAIN entries : entries[s].pin = pins[s]

\* A bucket's chain starts at an entry of that bucket: no entry has been
\* written over the bucket heads.
BucketArrayIntact == ~overrun

===============================================================================
