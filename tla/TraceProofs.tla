------------------------------- MODULE TraceProofs ------------------------------
(***************************************************************************)
(* Unique translations, the entry count and the respect for pins of        *)
(* TraceCache, for any number of processors, keys, buckets and entries,    *)
(* any scan depths and any counter width.                                  *)
(***************************************************************************)
EXTENDS TraceCache, FiniteSetTheorems, SequenceTheorems, WellFoundedInduction, TLAPS

-------------------------------------------------------------------------------
(* The invariant                                                           *)

\* The entries handed out lie in front of the bucket array, or overrun tells.
EntriesPlaced ==
  /\ entries \in [0 .. nextAlloc - 1 -> Entry]
  /\ nextAlloc <= SafeSlots + 1
  /\ ~overrun => nextAlloc <= SafeSlots

\* A pin or unpin under way has an entry.
PinsPlaced ==
  \A c \in CPUs : pc[c] # "idle" => ptr[c] \in 0 .. nextAlloc - 1

Types    == TypeOK /\ EntriesPlaced /\ PinsPlaced
TraceInv == Types /\ UniqueTranslation /\ CountCoversValid

-------------------------------------------------------------------------------
(* Choices among the entries                                               *)

\* A non-empty set of natural numbers has a least one.
LEMMA Least ==
  ASSUME NEW t \in SUBSET Nat, t # {}
  PROVE  \E k \in t : \A l \in t : k <= l
<1>. DEFINE R == OpToRel(<, Nat)
<1>1. IsWellFoundedOn(R, Nat)
  BY NatLessThanWellFounded
<1>. HIDE DEF R
<1>2. PICK k \in t : \A l \in t : <<l, k>> \notin R
  BY <1>1, WFMin
<1>3. \A l \in t : ~(l < k)
  BY <1>2 DEF R, OpToRel
<1>. QED  BY <1>3

\* A non-empty set of slots has a last one.
LEMMA LastSlot ==
  ASSUME NEW n \in Nat, NEW t \in SUBSET (0 .. n), t # {}
  PROVE  \E s \in t : \A u \in t : u <= s
<1>. DEFINE r == {n - u : u \in t}
<1>1. r \in SUBSET Nat /\ r # {}
  <2>1. \A u \in t : n - u \in Nat
    OBVIOUS
  <2>. QED  BY <2>1
<1>2. PICK k \in r : \A l \in r : k <= l
  BY <1>1, Least
<1>3. PICK s \in t : k = n - s
  OBVIOUS
<1>4. ASSUME NEW u \in t
      PROVE  u <= s
  BY <1>2, <1>3, <1>4
<1>. QED  BY <1>4

\* The walk down a chain ends at an entry that matches.
LEMMA HitIsEntry ==
  ASSUME Types, NEW k \in Key, Hits(k) # {}
  PROVE  FirstHit(k) \in 0 .. nextAlloc - 1 /\ FirstHit(k) \in Hits(k)
<1>1. nextAlloc \in Nat /\ Hits(k) \in SUBSET (0 .. nextAlloc - 1)
                        /\ Hits(k) \in SUBSET (0 .. nextAlloc)
  BY DEF Types, TypeOK, Hits, Chain
<1>2. \E s \in Hits(k) : \A t \in Hits(k) : t <= s
  BY <1>1, LastSlot
<1>. QED  BY <1>1, <1>2 DEF FirstHit

\* A miss means that no entry of the key is live: the entries of a key are all
\* in the one chain that is walked.
LEMMA MissIsMiss ==
  ASSUME Types, NEW k \in Key, Hits(k) = {}
  PROVE  \A s \in Valid : entries[s].key # k
BY DEF Hits, Chain, Valid

\* The scan has a first among any entries.
LEMMA FirstInOrder ==
  ASSUME Types, NEW T \in SUBSET (DOMAIN entries), T # {}
  PROVE  \E s \in T : \A t \in T : ~Before(t, s)
<1>. DEFINE D(s) == Distance(Hash[entries[s].key])
            ds == {D(s) : s \in T}
<1>1. \A s \in DOMAIN entries : D(s) \in Nat /\ s \in Int
  <2>1. ASSUME NEW b \in Bucket
        PROVE  Distance(b) \in Nat
    <3>1. /\ Buckets \in Nat \ {0} /\ lruCounter \in Nat /\ b \in Int
      BY TraceAssumption DEF Types, TypeOK, Bucket
    <3>2. lruCounter % Buckets \in Int
      BY <3>1, SMT
    <3>3. b + Buckets - (lruCounter % Buckets) \in Int
      BY <3>1, <3>2
    <3>. HIDE DEF Bucket
    <3>. QED  BY <3>1, <3>3, SMT DEF Distance
  <2>2. \A s \in DOMAIN entries : entries[s].key \in Key
    BY DEF Types, TypeOK, Entry
  <2>3. \A s \in DOMAIN entries : s \in Int
    BY DEF Types, TypeOK
  <2>. QED  BY <2>1, <2>2, <2>3, TraceAssumption
<1>. HIDE DEF D
<1>2. ds \in SUBSET Nat /\ ds # {}
  BY <1>1
<1>3. PICK d \in ds : \A e \in ds : d <= e
  BY <1>2, Least
<1>. DEFINE U == {s \in T : D(s) = d}
<1>4. U # {} /\ U \in SUBSET (0 .. nextAlloc) /\ nextAlloc \in Nat
  BY <1>3 DEF Types, TypeOK
<1>5. PICK s \in U : \A u \in U : u <= s
  BY <1>4, LastSlot
<1>6. ASSUME NEW t \in T
      PROVE  ~Before(t, s)
  <2>1. D(s) = d /\ d <= D(t) /\ D(t) \in Nat /\ d \in Nat
    BY <1>1, <1>2, <1>3, <1>5
  <2>2. D(t) = d => t <= s
    BY <1>5
  <2>3. ~(D(t) < D(s)) /\ ~(D(t) = D(s) /\ t > s)
    BY <1>1, <1>5, <2>1, <2>2
  <2>. QED  BY <2>3 DEF Before, D
<1>. QED  BY <1>5, <1>6

\* A full cache evicts something unless every live entry is pinned.
LEMMA EvictsSomething ==
  ASSUME Types, MustEvict, Evictable # {}
  PROVE  Evicted # {}
<1>1. Evictable \in SUBSET (DOMAIN entries)
  BY DEF Evictable
<1>2. Scanned # {}
  <2>1. PICK s \in Evictable : \A t \in Evictable : ~Before(t, s)
    BY <1>1, FirstInOrder
  <2>2. {t \in Evictable : Before(t, s)} = {}
    BY <2>1
  <2>3. lruScanDepth \in Nat \ {0}
    BY TraceAssumption DEF Types, TypeOK
  <2>4. Cardinality({t \in Evictable : Before(t, s)}) < lruScanDepth
    BY <2>2, <2>3, FS_EmptySet
  <2>. QED  BY <2>4 DEF Scanned
<1>3. Scanned \in SUBSET (DOMAIN entries)
  BY <1>1 DEF Scanned
<1>4. Victims # {}
  <2>. DEFINE ls == {entries[s].lru : s \in Scanned}
  <2>1. ls \in SUBSET Nat /\ ls # {}
    BY <1>2, <1>3 DEF Types, TypeOK, Entry
  <2>2. PICK l \in ls : \A m \in ls : l <= m
    BY <2>1, Least
  <2>. QED  BY <2>2 DEF Victims
<1>5. Victims \in SUBSET (DOMAIN entries)
  BY <1>3 DEF Victims
<1>6. PICK s \in Victims : \A t \in Victims : ~Before(t, s)
  BY <1>4, <1>5, FirstInOrder
<1>. QED  BY <1>6 DEF Evicted

\* Only live entries without a pin are evicted.
LEMMA EvictedAreEvictable == Evicted \subseteq Evictable
BY DEF Evicted, Victims, Scanned

LEMMA ValidFinite ==
  ASSUME Types
  PROVE  IsFiniteSet(Valid) /\ Cardinality(Valid) \in Nat
         /\ IsFiniteSet(Evicted) /\ Cardinality(Evicted) \in Nat
<1>1. nextAlloc \in Nat /\ DOMAIN entries = 0 .. nextAlloc - 1
  BY DEF Types, TypeOK
<1>2. IsFiniteSet(DOMAIN entries)
  BY <1>1, FS_Interval
<1>3. Valid \in SUBSET (DOMAIN entries) /\ Evicted \in SUBSET (DOMAIN entries)
  BY EvictedAreEvictable DEF Valid, Evictable
<1>. QED  BY <1>2, <1>3, FS_Subset, FS_CardinalityType

-------------------------------------------------------------------------------
(* What the changes of the entries keep                                    *)

\* A change that moves no key and makes no entry live again.
NothingRevived ==
  /\ DOMAIN entries' = DOMAIN entries
  /\ \A s \in DOMAIN entries : /\ entries'[s].key = entries[s].key
                               /\ entries'[s].valid => entries[s].valid
  /\ entryCount' = entryCount

LEMMA NothingRevivedKeeps ==
  ASSUME TraceInv, NothingRevived
  PROVE  UniqueTranslation' /\ CountCoversValid'
<1>1. Valid' \subseteq Valid
  BY DEF NothingRevived, Valid
<1>2. UniqueTranslation'
  BY <1>1 DEF NothingRevived, Valid, TraceInv, UniqueTranslation
<1>3. IsFiniteSet(Valid) /\ Cardinality(Valid) \in Nat
  BY ValidFinite DEF TraceInv
<1>4. Cardinality(Valid') <= Cardinality(Valid) /\ Cardinality(Valid') \in Nat
  BY <1>1, <1>3, FS_Subset, FS_CardinalityType
<1>5. CountCoversValid'
  BY <1>3, <1>4 DEF NothingRevived, TraceInv, CountCoversValid, Types, TypeOK
<1>. QED  BY <1>2, <1>5

LEMMA StampType ==
  ASSUME TraceAssumption, Types
  PROVE  Stamp \in 0 .. LruModulus - 1
<1>. DEFINE m == LruModulus
<1>1. lruCounter \in Nat /\ m \in Nat \ {0}
  BY DEF Types, TypeOK, TraceAssumption
<1>. HIDE DEF m
<1>2. lruCounter % m \in 0 .. m - 1
  BY <1>1, SMT
<1>. QED  BY <1>2 DEF Stamp, m

\* Zero is a count, and so is whatever the field keeps of a number.
LEMMA StoredType ==
  ASSUME TraceAssumption, NEW n \in Int
  PROVE  Stored(n) \in Count /\ 0 \in Count
<1>. DEFINE m == PinModulus
<1>1. m \in Nat \ {0}
  BY DEF TraceAssumption
<1>. HIDE DEF m
<1>2. n % m \in 0 .. m - 1 /\ 0 \in 0 .. m - 1
  BY <1>1, SMT
<1>. QED  BY <1>2 DEF Stored, Count, m

\* A hit changes the time of last use of the entry and nothing else of it.
LEMMA TouchKeeps ==
  ASSUME TraceAssumption, TraceInv, NEW s \in DOMAIN entries, Touch(s)
  PROVE  /\ EntriesPlaced' /\ NothingRevived /\ lruCounter' \in Nat
         /\ nextAlloc' = nextAlloc
<1>1. entries \in [0 .. nextAlloc - 1 -> Entry] /\ Stamp \in 0 .. LruModulus - 1
  BY StampType DEF TraceInv, Types, EntriesPlaced
<1>2. [entries[s] EXCEPT !.lru = Stamp] \in Entry
  BY <1>1 DEF Entry
<1>3. entries' = [entries EXCEPT ![s] = [entries[s] EXCEPT !.lru = Stamp]]
  BY DEF Touch
<1>4. entries' \in [0 .. nextAlloc - 1 -> Entry]
  BY <1>1, <1>2, <1>3
<1>5. EntriesPlaced'
  BY <1>4 DEF EntriesPlaced, TraceInv, Types, Touch
<1>6. NothingRevived
  <2>1. ASSUME NEW t \in DOMAIN entries
        PROVE  entries'[t].key = entries[t].key /\ entries'[t].valid = entries[t].valid
    <3>1. entries[t] \in Entry /\ entries[s] \in Entry
      BY <1>1
    <3>. QED  BY <1>3, <3>1 DEF Entry
  <2>. QED  BY <1>3, <2>1 DEF NothingRevived, Touch
<1>. QED  BY <1>5, <1>6 DEF Touch, TraceInv, Types, TypeOK

\* A new entry: its key has no other, and the count grows by it less what is
\* evicted for it.
LEMMA AddEntryKeeps ==
  ASSUME TraceAssumption, TraceInv, ~overrun, NEW k \in Key, Hits(k) = {}, AddEntry(k)
  PROVE  /\ EntriesPlaced' /\ UniqueTranslation' /\ CountCoversValid'
         /\ entryCount' \in Nat /\ lruCounter' \in Nat /\ overrun' \in BOOLEAN
         /\ nextAlloc' = nextAlloc + 1 /\ nextAlloc' <= SafeSlots + 1
<1>. DEFINE new == [key |-> k, lru |-> Stamp, pin |-> 0, valid |-> TRUE]
            n == nextAlloc
            kept == Valid \ Evicted
<1>1. /\ entries \in [0 .. n - 1 -> Entry] /\ n \in Nat /\ n <= SafeSlots
      /\ entryCount \in Nat /\ lruCounter \in Nat
      /\ entryCount >= Cardinality(Valid) /\ SafeSlots \in Nat
  BY DEF TraceInv, Types, TypeOK, EntriesPlaced, CountCoversValid, TraceAssumption
<1>2. new \in Entry
  BY StampType, StoredType DEF Entry, TraceInv
<1>3. n \notin DOMAIN entries /\ (0 .. n - 1) \cup {n} = 0 .. n
  BY <1>1
<1>4. /\ DOMAIN entries' = 0 .. n
      /\ entries'[n] = new
      /\ \A s \in 0 .. n - 1 :
           entries'[s] = IF s \in Evicted THEN [entries[s] EXCEPT !.valid = FALSE]
                                          ELSE entries[s]
  BY <1>1, <1>3 DEF AddEntry
<1>5. \A s \in 0 .. n - 1 : /\ entries'[s] \in Entry
                            /\ entries'[s].key = entries[s].key
                            /\ entries'[s].valid <=> entries[s].valid /\ s \notin Evicted
  <2>1. ASSUME NEW s \in 0 .. n - 1
        PROVE  /\ entries'[s] \in Entry
               /\ entries'[s].key = entries[s].key
               /\ entries'[s].valid <=> entries[s].valid /\ s \notin Evicted
    <3>1. entries[s] \in Entry
      BY <1>1
    <3>2. CASE s \in Evicted
      <4>1. entries'[s] = [entries[s] EXCEPT !.valid = FALSE]
        BY <1>4, <3>2
      <4>. QED  BY <3>1, <3>2, <4>1 DEF Entry
    <3>3. CASE s \notin Evicted
      BY <1>4, <3>1, <3>3
    <3>. QED  BY <3>2, <3>3
  <2>. QED  BY <2>1
<1>6. /\ nextAlloc' = n + 1 /\ overrun' = (n >= SafeSlots)
      /\ entryCount' = entryCount + 1 - Cardinality(Evicted) /\ lruCounter' = lruCounter + 1
  BY DEF AddEntry
<1>7. EntriesPlaced'
  <2>1. entries' \in [0 .. n -> Entry]
    <3>1. \A s \in 0 .. n : entries'[s] \in Entry
      BY <1>1, <1>2, <1>4, <1>5
    <3>2. entries' = [s \in 0 .. n |->
                        IF s = n THEN new
                        ELSE IF s \in Evicted THEN [entries[s] EXCEPT !.valid = FALSE]
                        ELSE entries[s]]
      BY <1>1, <1>3, Zenon DEF AddEntry
    <3>. QED  BY <3>1, <3>2
  <2>2. 0 .. nextAlloc' - 1 = 0 .. n
    BY <1>1, <1>6
  <2>3. nextAlloc' <= SafeSlots + 1 /\ (~overrun' => nextAlloc' <= SafeSlots)
    <3>1. ~overrun' => ~(n >= SafeSlots)
      BY <1>6, Zenon
    <3>2. nextAlloc' <= SafeSlots + 1 /\ (~(n >= SafeSlots) => nextAlloc' <= SafeSlots)
      BY <1>1, <1>6
    <3>. QED  BY <3>1, <3>2
  <2>. QED  BY <2>1, <2>2, <2>3 DEF EntriesPlaced
<1>8. Valid' = kept \cup {n}
  <2>1. \A s \in 0 .. n - 1 : s \in Valid' <=> s \in kept
    BY <1>1, <1>4, <1>5 DEF Valid
  <2>2. n \in Valid'
    BY <1>1, <1>4 DEF Valid
  <2>3. Valid' \subseteq 0 .. n /\ kept \subseteq 0 .. n - 1
    BY <1>1, <1>4 DEF Valid
  <2>. QED  BY <1>3, <2>1, <2>2, <2>3
<1>9. UniqueTranslation'
  <2>1. \A s \in kept : /\ s \in Valid
                        /\ entries'[s].key = entries[s].key
                        /\ entries[s].key # k
    BY <1>1, <1>5, MissIsMiss DEF Valid, TraceInv
  <2>2. entries'[n].key = k
    BY <1>4
  <2>3. \A s, t \in kept : entries'[s].key = entries'[t].key => s = t
    BY <2>1 DEF TraceInv, UniqueTranslation
  <2>4. \A s, t \in Valid' : entries'[s].key = entries'[t].key => s = t
    BY <1>8, <2>1, <2>2, <2>3
  <2>. QED  BY <2>4 DEF UniqueTranslation
<1>10. /\ Cardinality(Valid') = Cardinality(Valid) - Cardinality(Evicted) + 1
       /\ Cardinality(Evicted) <= Cardinality(Valid)
       /\ Cardinality(Evicted) \in Nat /\ Cardinality(Valid) \in Nat
  <2>1. /\ IsFiniteSet(Valid) /\ Cardinality(Valid) \in Nat
        /\ IsFiniteSet(Evicted) /\ Cardinality(Evicted) \in Nat
    BY ValidFinite DEF TraceInv
  <2>2. Evicted \subseteq Valid /\ Valid \cap Evicted = Evicted
    BY EvictedAreEvictable DEF Evictable, Valid
  <2>3. Cardinality(Evicted) <= Cardinality(Valid)
    BY <2>1, <2>2, FS_Subset
  <2>4. Cardinality(kept) = Cardinality(Valid) - Cardinality(Evicted) /\ IsFiniteSet(kept)
    BY <2>1, <2>2, FS_Difference
  <2>5. n \notin kept
    BY <1>1 DEF Valid
  <2>6. Cardinality(kept \cup {n}) = Cardinality(kept) + 1
    BY <2>4, <2>5, FS_AddElement
  <2>. QED  BY <1>8, <2>1, <2>3, <2>4, <2>6
<1>11. CountCoversValid' /\ entryCount' \in Nat
  BY <1>1, <1>6, <1>10 DEF CountCoversValid
<1>. QED  BY <1>1, <1>6, <1>7, <1>9, <1>11

-------------------------------------------------------------------------------
(* The invariant is inductive                                              *)

LEMMA InitTrace ==
  ASSUME TraceAssumption, Init
  PROVE  TraceInv
<1>1. 0 .. -1 = {} /\ Valid = {} /\ entries = <<>> /\ DOMAIN entries = {}
  BY DEF Init, Valid
<1>2. TypeOK
  <2>1. nextAlloc \in Nat /\ DOMAIN entries = 0 .. nextAlloc - 1
    BY <1>1 DEF Init
  <2>2. \A s \in DOMAIN entries : entries[s] \in Entry
    BY <1>1
  <2>3. warming \in Seq(Key)
    BY DEF Init
  <2>4. pins \in [Slot -> Int]
    BY DEF Init
  <2>5. /\ pc \in [CPUs -> {"idle", "pin", "pinned", "unpin", "checked", "unpinned"}]
        /\ ptr \in [CPUs -> Slot \cup {NONE}] /\ reg \in [CPUs -> Count]
    BY StoredType DEF Init
  <2>. QED  BY <2>1, <2>2, <2>3, <2>4, <2>5 DEF Init, TypeOK
<1>3. EntriesPlaced
  BY <1>1 DEF Init, EntriesPlaced, TraceAssumption
<1>4. PinsPlaced
  BY DEF Init, PinsPlaced
<1>5. UniqueTranslation /\ CountCoversValid
  BY <1>1, FS_EmptySet DEF UniqueTranslation, CountCoversValid, Init
<1>. QED  BY <1>2, <1>3, <1>4, <1>5 DEF TraceInv, Types

\* What an insertion or a lookup keeps of everything but the kernel blocks.
CacheInv == /\ EntriesPlaced /\ UniqueTranslation /\ CountCoversValid
            /\ entryCount \in Nat /\ lruCounter \in Nat /\ overrun \in BOOLEAN
            /\ lruScanDepth \in {FirstDepth, V71Depth, V72Depth} /\ nextAlloc \in Nat

LEMMA TouchStep ==
  ASSUME TraceAssumption, TraceInv, NEW k \in Key, Hits(k) # {}, Touch(FirstHit(k))
  PROVE  CacheInv' /\ nextAlloc' = nextAlloc
<1>1. FirstHit(k) \in DOMAIN entries
  BY HitIsEntry DEF TraceInv, Hits, Chain
<1>2. /\ EntriesPlaced' /\ NothingRevived /\ lruCounter' \in Nat
      /\ nextAlloc' = nextAlloc
  BY <1>1, TouchKeeps
<1>3. UniqueTranslation' /\ CountCoversValid'
  BY <1>2, NothingRevivedKeeps
<1>. QED  BY <1>2, <1>3 DEF CacheInv, Touch, TraceInv, Types, TypeOK

LEMMA InsertStep ==
  ASSUME TraceAssumption, TraceInv, NEW k \in Key, TraceCacheInsert(k)
  PROVE  CacheInv' /\ nextAlloc' >= nextAlloc
<1>1. CASE Hits(k) # {}
  BY <1>1, TouchStep DEF TraceCacheInsert, TraceInv, Types, TypeOK
<1>2. CASE Hits(k) = {}
  <2>1. AddEntry(k) /\ ~overrun
    BY <1>2 DEF TraceCacheInsert
  <2>2. /\ EntriesPlaced' /\ UniqueTranslation' /\ CountCoversValid'
        /\ entryCount' \in Nat /\ lruCounter' \in Nat /\ overrun' \in BOOLEAN
        /\ nextAlloc' = nextAlloc + 1
    BY <1>2, <2>1, AddEntryKeeps
  <2>3. lruScanDepth' = lruScanDepth
    BY <2>1 DEF AddEntry
  <2>4. nextAlloc \in Nat /\ lruScanDepth \in {FirstDepth, V71Depth, V72Depth}
    BY DEF TraceInv, Types, TypeOK
  <2>. QED  BY <2>2, <2>3, <2>4 DEF CacheInv
<1>. QED  BY <1>1, <1>2

\* With the pins left alone, that is the whole invariant.
LEMMA WholeInv ==
  ASSUME TraceInv, CacheInv', UNCHANGED pinVars, warming' \in Seq(Key),
         nextAlloc' >= nextAlloc
  PROVE  TraceInv'
<1>1. nextAlloc \in Nat /\ nextAlloc' \in Nat
  BY DEF CacheInv, TraceInv, Types, TypeOK
<1>2. PinsPlaced'
  BY <1>1 DEF PinsPlaced, pinVars, TraceInv, Types
<1>3. DOMAIN entries' = 0 .. nextAlloc' - 1 /\ \A s \in DOMAIN entries' : entries'[s] \in Entry
  BY DEF CacheInv, EntriesPlaced
<1>4. TypeOK'
  BY <1>3 DEF TypeOK, CacheInv, TraceInv, Types, pinVars
<1>. QED  BY <1>2, <1>4 DEF TraceInv, Types, CacheInv

LEMMA StepTrace ==
  ASSUME TraceAssumption, TraceInv, [Next]_vars
  PROVE  TraceInv'
<1>. USE TraceAssumption, TraceInv
<1>1. nextAlloc \in Nat /\ CacheInv /\ warming \in Seq(Key) /\ PinsPlaced
  BY DEF TraceInv, Types, TypeOK, CacheInv
<1>2. ASSUME NEW d \in {V71Depth, V72Depth}, SetScanDepth(d)
      PROVE  TraceInv'
  <2>1. CacheInv' /\ UNCHANGED pinVars /\ nextAlloc' = nextAlloc /\ warming' = warming
    BY <1>1, <1>2 DEF SetScanDepth, CacheInv, EntriesPlaced, UniqueTranslation,
                      CountCoversValid, Valid
  <2>. QED  BY <1>1, <2>1, WholeInv
<1>3. CASE TraceCacheWarmKernel
  <2>1. CASE /\ warming' = KernelBlocks /\ UNCHANGED pinVars
             /\ UNCHANGED <<entries, nextAlloc, entryCount, lruCounter, lruScanDepth, overrun>>
    <3>1. CacheInv' /\ nextAlloc' = nextAlloc
      BY <1>1, <2>1 DEF CacheInv, EntriesPlaced, UniqueTranslation, CountCoversValid, Valid
    <3>2. warming' \in Seq(Key)
      BY <2>1 DEF TraceAssumption
    <3>. QED  BY <1>1, <2>1, <3>1, <3>2, WholeInv
  <2>2. CASE warming # <<>> /\ TraceCacheInsert(Head(warming)) /\ warming' = Tail(warming)
    <3>1. Head(warming) \in Key /\ warming' \in Seq(Key)
      BY <1>1, <2>2, HeadTailProperties
    <3>2. CacheInv' /\ nextAlloc' >= nextAlloc
      BY <2>2, <3>1, InsertStep
    <3>3. UNCHANGED pinVars
      BY <2>2 DEF TraceCacheInsert
    <3>. QED  BY <3>1, <3>2, <3>3, WholeInv
  <2>. QED  BY <1>3, <2>1, <2>2 DEF TraceCacheWarmKernel, pinVars
<1>4. ASSUME NEW k \in Key, TraceCacheLookup(k)
      PROVE  TraceInv'
  <2>1. CacheInv' /\ nextAlloc' = nextAlloc
    BY <1>4, TouchStep DEF TraceCacheLookup
  <2>. QED  BY <1>1, <1>4, <2>1, WholeInv DEF TraceCacheLookup
<1>5. ASSUME NEW k \in Key, TraceCacheInsert(k), UNCHANGED warming
      PROVE  TraceInv'
  <2>1. CacheInv' /\ nextAlloc' >= nextAlloc
    BY <1>5, InsertStep
  <2>. QED  BY <1>1, <1>5, <2>1, WholeInv DEF TraceCacheInsert
<1>6. ASSUME NEW rip \in Rips, TraceCacheInvalidate(rip)
      PROVE  TraceInv'
  <2>1. /\ DOMAIN entries' = DOMAIN entries
        /\ \A s \in DOMAIN entries :
             entries'[s] = IF entries[s].key[1] = rip THEN [entries[s] EXCEPT !.valid = FALSE]
                                                      ELSE entries[s]
    BY <1>6 DEF TraceCacheInvalidate
  <2>2. ASSUME NEW s \in DOMAIN entries
        PROVE  /\ entries'[s] \in Entry /\ entries'[s].key = entries[s].key
               /\ entries'[s].valid => entries[s].valid
    <3>1. entries[s] \in Entry
      BY DEF TraceInv, Types, TypeOK
    <3>2. CASE entries[s].key[1] = rip
      <4>1. entries'[s] = [entries[s] EXCEPT !.valid = FALSE]
        BY <2>1, <3>2
      <4>. QED  BY <3>1, <4>1 DEF Entry
    <3>3. CASE entries[s].key[1] # rip
      BY <2>1, <3>1, <3>3
    <3>. QED  BY <3>2, <3>3
  <2>3. NothingRevived
    BY <1>6, <2>1, <2>2 DEF NothingRevived, TraceCacheInvalidate
  <2>4. UniqueTranslation' /\ CountCoversValid'
    BY <2>3, NothingRevivedKeeps
  <2>5. EntriesPlaced'
    <3>1. DOMAIN entries = 0 .. nextAlloc - 1
      BY DEF TraceInv, Types, TypeOK
    <3>2. entries' \in [0 .. nextAlloc - 1 -> Entry]
      BY <1>6, <2>2, <3>1 DEF TraceCacheInvalidate
    <3>. QED  BY <1>6, <3>2 DEF EntriesPlaced, TraceCacheInvalidate, TraceInv, Types
  <2>6. CacheInv' /\ nextAlloc' = nextAlloc /\ warming' = warming /\ UNCHANGED pinVars
    BY <1>1, <1>6, <2>4, <2>5 DEF CacheInv, TraceCacheInvalidate
  <2>. QED  BY <1>1, <2>6, WholeInv
<1>7. ASSUME NEW c \in CPUs, NEW k \in Key, NEW op \in {"pin", "unpin"}, PinLookup(c, k, op)
      PROVE  TraceInv'
  <2>1. CacheInv' /\ nextAlloc' = nextAlloc
    BY <1>7, TouchStep DEF PinLookup
  <2>2. FirstHit(k) \in 0 .. nextAlloc - 1 /\ FirstHit(k) \in Slot
    <3>1. FirstHit(k) \in 0 .. nextAlloc - 1
      BY <1>7, HitIsEntry DEF PinLookup, TraceInv
    <3>2. nextAlloc <= SafeSlots /\ SafeSlots \in Nat
      BY <1>7 DEF PinLookup, TraceInv, Types, EntriesPlaced, TraceAssumption
    <3>. QED  BY <1>1, <3>1, <3>2 DEF Slot
  <2>3. PinsPlaced'
    BY <1>1, <1>7, <2>1, <2>2 DEF PinLookup, PinsPlaced, TraceInv, Types, TypeOK
  <2>4. TypeOK'
    <3>1. /\ pc' \in [CPUs -> {"idle", "pin", "pinned", "unpin", "checked", "unpinned"}]
          /\ ptr' \in [CPUs -> Slot \cup {NONE}] /\ reg' = reg /\ pins' = pins
          /\ warming' = warming
      BY <1>7, <2>2 DEF PinLookup, TraceInv, Types, TypeOK
    <3>2. DOMAIN entries' = 0 .. nextAlloc' - 1
          /\ \A s \in DOMAIN entries' : entries'[s] \in Entry
      BY <2>1 DEF CacheInv, EntriesPlaced
    <3>. QED  BY <2>1, <3>1, <3>2 DEF TypeOK, CacheInv, TraceInv, Types
  <2>. QED  BY <2>1, <2>3, <2>4 DEF TraceInv, Types, CacheInv
<1>8. ASSUME NEW c \in CPUs, UnpinCheck(c) \/ PinLoad(c)
      PROVE  TraceInv'
  <2>1. /\ CacheInv' /\ UNCHANGED cacheVars /\ pins' = pins
    BY <1>1, <1>8 DEF UnpinCheck, PinLoad, cacheVars, CacheInv, EntriesPlaced,
                      UniqueTranslation, CountCoversValid, Valid
  <2>2. pc[c] # "idle"
    BY <1>8 DEF UnpinCheck, PinLoad
  <2>3. ptr[c] \in 0 .. nextAlloc - 1 /\ entries[ptr[c]].pin \in Count
    BY <1>1, <2>2 DEF PinsPlaced, TraceInv, Types, EntriesPlaced, Entry
  <2>4. /\ pc' \in [CPUs -> {"idle", "pin", "pinned", "unpin", "checked", "unpinned"}]
        /\ ptr' \in [CPUs -> Slot \cup {NONE}] /\ reg' \in [CPUs -> Count]
    BY <1>8, <2>3 DEF UnpinCheck, PinLoad, TraceInv, Types, TypeOK
  <2>5. PinsPlaced'
    <3>1. CASE UnpinCheck(c)
      <4>1. CASE entries[ptr[c]].pin > 0
        BY <1>1, <2>1, <2>2, <3>1, <4>1 DEF UnpinCheck, PinsPlaced, TraceInv, Types, TypeOK, cacheVars
      <4>2. CASE ~(entries[ptr[c]].pin > 0)
        BY <1>1, <2>1, <3>1, <4>2 DEF UnpinCheck, PinsPlaced, TraceInv, Types, TypeOK, cacheVars
      <4>. QED  BY <4>1, <4>2
    <3>2. CASE PinLoad(c)
      BY <1>1, <2>1, <2>2, <3>2 DEF PinLoad, PinsPlaced, TraceInv, Types, TypeOK, cacheVars
    <3>. QED  BY <1>8, <3>1, <3>2
  <2>6. TypeOK'
    BY <2>1, <2>4 DEF TraceInv, Types, TypeOK, cacheVars
  <2>. QED  BY <2>1, <2>5, <2>6 DEF TraceInv, Types, CacheInv
<1>9. ASSUME NEW c \in CPUs, PinStore(c)
      PROVE  TraceInv'
  <2>. DEFINE d == IF pc[c] = "pinned" THEN 1 ELSE -1
              s == ptr[c]
  <2>1. s \in 0 .. nextAlloc - 1 /\ d \in Int /\ reg[c] + d \in Int /\ s \in Slot
    <3>1. s \in 0 .. nextAlloc - 1 /\ reg[c] \in Int
      BY <1>1, <1>9 DEF PinStore, PinsPlaced, TraceInv, Types, TypeOK, Count
    <3>2. s # NONE => s \in Slot
      BY DEF TraceInv, Types, TypeOK
    <3>3. nextAlloc <= SafeSlots /\ SafeSlots \in Nat
      BY <1>9 DEF PinStore, TraceInv, Types, EntriesPlaced, TraceAssumption
    <3>4. s \in Slot
      BY <1>1, <3>1, <3>3 DEF Slot
    <3>. QED  BY <1>9, <3>1, <3>4 DEF PinStore
  <2>2. /\ entries \in [0 .. nextAlloc - 1 -> Entry]
        /\ entries' = [entries EXCEPT ![s] = [entries[s] EXCEPT !.pin = Stored(reg[c] + d)]]
    BY <1>9 DEF PinStore, TraceInv, Types, EntriesPlaced
  <2>. HIDE DEF d
  <2>3. [entries[s] EXCEPT !.pin = Stored(reg[c] + d)] \in Entry
    BY <2>1, <2>2, StoredType DEF Entry
  <2>4. entries' \in [0 .. nextAlloc - 1 -> Entry]
    BY <2>2, <2>3
  <2>5. NothingRevived
    <3>1. ASSUME NEW t \in DOMAIN entries
          PROVE  entries'[t].key = entries[t].key /\ entries'[t].valid = entries[t].valid
      <4>1. entries[t] \in Entry /\ entries[s] \in Entry
        BY <2>1, <2>2
      <4>. QED  BY <2>2, <4>1 DEF Entry
    <3>. QED  BY <1>9, <2>2, <3>1 DEF NothingRevived, PinStore
  <2>6. UniqueTranslation' /\ CountCoversValid'
    BY <2>5, NothingRevivedKeeps
  <2>7. EntriesPlaced'
    BY <1>9, <2>4 DEF EntriesPlaced, PinStore, TraceInv, Types
  <2>8. PinsPlaced'
    BY <1>1, <1>9 DEF PinsPlaced, PinStore, TraceInv, Types, TypeOK
  <2>9. pins' \in [Slot -> Int]
    <3>1. pins' = [pins EXCEPT ![s] = pins[s] + d]
      BY <1>9 DEF PinStore, d
    <3>2. pins[s] + d \in Int
      BY <2>1 DEF d, TraceInv, Types, TypeOK
    <3>. QED  BY <3>1, <3>2 DEF TraceInv, Types, TypeOK
  <2>10. TypeOK'
    <3>1. /\ pc' \in [CPUs -> {"idle", "pin", "pinned", "unpin", "checked", "unpinned"}]
          /\ ptr' \in [CPUs -> Slot \cup {NONE}] /\ reg' \in [CPUs -> Count]
      BY <1>9, StoredType DEF PinStore, TraceInv, Types, TypeOK
    <3>2. nextAlloc' = nextAlloc
      BY <1>9 DEF PinStore
    <3>3. DOMAIN entries' = 0 .. nextAlloc' - 1 /\ \A t \in DOMAIN entries' : entries'[t] \in Entry
      BY <2>4, <3>2
    <3>. QED  BY <1>9, <2>9, <3>1, <3>3 DEF PinStore, TraceInv, Types, TypeOK
  <2>. QED  BY <2>6, <2>7, <2>8, <2>10 DEF TraceInv, Types
<1>10. CASE UNCHANGED vars
  <2>1. CacheInv' /\ UNCHANGED pinVars /\ nextAlloc' = nextAlloc /\ warming' = warming
    BY <1>1, <1>10 DEF vars, cacheVars, CacheInv, EntriesPlaced, UniqueTranslation,
                       CountCoversValid, Valid
  <2>. QED  BY <1>1, <2>1, WholeInv
<1>. QED
  BY <1>2, <1>3, <1>4, <1>5, <1>6, <1>7, <1>8, <1>9, <1>10
     DEF Next, TraceCacheV71Configure, TraceCacheV72Init

LEMMA TraceInvAlways ==
  ASSUME TraceAssumption
  PROVE  Spec => []TraceInv
<1>1. Init => TraceInv
  BY InitTrace
<1>2. TraceInv /\ [Next]_vars => TraceInv'
  BY StepTrace
<1>. QED  BY <1>1, <1>2, PTL DEF Spec

\* Every entry, count and pin in progress has its type.
THEOREM TraceTypes ==
  ASSUME TraceAssumption
  PROVE  Spec => []TypeOK
<1>1. TraceInv => TypeOK
  BY DEF TraceInv, Types
<1>. QED  BY <1>1, TraceInvAlways, PTL

\* However lookups, insertions, evictions, pins and invalidations of several
\* processors follow each other, a key has one live translation at most.
THEOREM TranslationsUnique ==
  ASSUME TraceAssumption
  PROVE  Spec => []UniqueTranslation
<1>1. TraceInv => UniqueTranslation
  BY DEF TraceInv
<1>. QED  BY <1>1, TraceInvAlways, PTL

\* The count the capacity test of an insertion reads is at least the number of
\* live entries, although invalidation does not lower it.
THEOREM CountIsEnough ==
  ASSUME TraceAssumption
  PROVE  Spec => []CountCoversValid
<1>1. TraceInv => CountCoversValid
  BY DEF TraceInv
<1>. QED  BY <1>1, TraceInvAlways, PTL

-------------------------------------------------------------------------------
(* Evictions and pins                                                      *)

\* Only a new entry changes the number of entries or takes a slot.
LEMMA OnlyAddEntryCounts ==
  ASSUME [Next]_vars, TraceInv
  PROVE  \/ entryCount' = entryCount /\ nextAlloc' = nextAlloc
         \/ \E k \in Key : AddEntry(k)
<1>1. \A k \in Key : TraceCacheInsert(k) =>
        \/ entryCount' = entryCount /\ nextAlloc' = nextAlloc
        \/ AddEntry(k)
  BY DEF TraceCacheInsert, Touch
<1>2. warming # <<>> => Head(warming) \in Key
  BY HeadTailProperties DEF TraceInv, Types, TypeOK
<1>3. CASE TraceCacheWarmKernel
  BY <1>1, <1>2, <1>3 DEF TraceCacheWarmKernel
<1>. QED
  BY <1>1, <1>3 DEF Next, vars, cacheVars, TraceCacheV71Configure, TraceCacheV72Init,
     SetScanDepth, TraceCacheLookup, Touch, TraceCacheInvalidate, PinLookup,
     UnpinCheck, PinLoad, PinStore

LEMMA AddEntryByPins ==
  ASSUME TraceAssumption, TraceInv, NEW k \in Key, AddEntry(k)
  PROVE  /\ entryCount' > entryCount /\ entryCount' > MaxEntries =>
              \A s \in Valid : entries[s].pin > 0
         /\ \A s \in Valid : entries[s].pin > 0 => entries'[s].valid
<1>1. /\ \A s \in Valid : s \in 0 .. nextAlloc - 1 /\ entries[s] \in Entry
      /\ nextAlloc \in Nat /\ entryCount \in Nat /\ MaxEntries \in Nat
  BY DEF TraceInv, Types, TypeOK, Valid, TraceAssumption
<1>2. \A s \in Valid : entries[s].pin \in Nat
  BY <1>1 DEF Entry, Count
<1>3. ASSUME entryCount' > entryCount, entryCount' > MaxEntries, NEW s \in Valid
      PROVE  entries[s].pin > 0
  <2>1. Cardinality(Evicted) \in Nat /\ IsFiniteSet(Evicted)
    BY ValidFinite DEF TraceInv
  <2>2. entryCount' = entryCount + 1 - Cardinality(Evicted)
    BY DEF AddEntry
  <2>3. Cardinality(Evicted) = 0 /\ entryCount >= MaxEntries
    BY <1>1, <1>3, <2>1, <2>2
  <2>4. Evicted = {}
    BY <2>1, <2>3, FS_EmptySet
  <2>5. Evictable = {}
    BY <2>3, <2>4, EvictsSomething DEF MustEvict, TraceInv
  <2>. QED  BY <1>2, <2>5 DEF Evictable, Valid
<1>4. ASSUME NEW s \in Valid, entries[s].pin > 0
      PROVE  entries'[s].valid
  <2>1. s \notin Evicted
    BY <1>2, <1>4, EvictedAreEvictable DEF Evictable
  <2>2. s \in DOMAIN entries /\ s # nextAlloc
    BY <1>1 DEF Valid
  <2>3. entries'[s] = entries[s]
    BY <2>1, <2>2 DEF AddEntry
  <2>. QED  BY <2>3 DEF Valid
<1>. QED  BY <1>3, <1>4

\* Pins are the only reason not to evict, and they are respected.
THEOREM PinsDecide ==
  ASSUME TraceAssumption
  PROVE  Spec => EvictionByPins
<1>1. Init => TraceInv
  BY InitTrace
<1>2. TraceInv /\ [Next]_vars => TraceInv'
  BY StepTrace
<1>. DEFINE Full == entryCount' > entryCount /\ entryCount' > MaxEntries =>
                      \A s \in Valid : entries[s].pin > 0
            Spares == nextAlloc' # nextAlloc =>
                        \A s \in Valid : entries[s].pin > 0 => entries'[s].valid
<1>3. TraceInv /\ [Next]_vars => [Full]_vars /\ [Spares]_vars
  <2>1. ASSUME TraceInv, [Next]_vars
        PROVE  Full /\ Spares
    <3>1. CASE entryCount' = entryCount /\ nextAlloc' = nextAlloc
      BY <2>1, <3>1 DEF TraceInv, Types, TypeOK
    <3>2. CASE \E k \in Key : AddEntry(k)
      BY <2>1, <3>2, AddEntryByPins
    <3>. QED  BY <2>1, <3>1, <3>2, OnlyAddEntryCounts
  <2>. QED  BY <2>1
<1>. HIDE DEF Full, Spares
<1>4. Spec => [][Full]_vars /\ [][Spares]_vars
  BY <1>1, <1>2, <1>3, PTL DEF Spec
<1>. QED  BY <1>4, PTL DEF EvictionByPins, FullOnlyIfPinned, EvictionSparesPinned, Full, Spares

-------------------------------------------------------------------------------
(* The time of last use                                                    *)

\* Until the entries' copies of the counter wrap, no two entries have the same
\* time of last use, and all of them lie in the past.
StampsDiffer ==
  lruCounter <= LruModulus =>
    /\ \A s \in DOMAIN entries : entries[s].lru < lruCounter
    /\ \A s, t \in DOMAIN entries : entries[s].lru = entries[t].lru => s = t

\* A change that leaves the times alone.
NothingUsed ==
  /\ DOMAIN entries' = DOMAIN entries /\ lruCounter' = lruCounter
  /\ \A s \in DOMAIN entries : entries'[s].lru = entries[s].lru

\* Entry x, which may be new, is used.
Used(x) ==
  /\ DOMAIN entries' = DOMAIN entries \cup {x} /\ lruCounter' = lruCounter + 1
  /\ entries'[x].lru = Stamp
  /\ \A s \in DOMAIN entries \ {x} : entries'[s].lru = entries[s].lru

LEMMA TouchUses ==
  ASSUME TraceInv, NEW k \in Key, Hits(k) # {}, Touch(FirstHit(k))
  PROVE  Used(FirstHit(k))
<1>. DEFINE s == FirstHit(k)
<1>1. s \in DOMAIN entries /\ \A t \in DOMAIN entries : entries[t] \in Entry
  BY HitIsEntry DEF TraceInv, Types, TypeOK
<1>. HIDE DEF s
<1>2. entries' = [entries EXCEPT ![s] = [entries[s] EXCEPT !.lru = Stamp]] /\ lruCounter' = lruCounter + 1
  BY DEF Touch, s
<1>3. [entries[s] EXCEPT !.lru = Stamp].lru = Stamp
  BY <1>1 DEF Entry
<1>4. /\ DOMAIN entries' = DOMAIN entries /\ entries'[s].lru = Stamp
      /\ \A t \in DOMAIN entries \ {s} : entries'[t] = entries[t]
  BY <1>1, <1>2, <1>3
<1>. QED  BY <1>1, <1>2, <1>4 DEF Used, s

LEMMA AddEntryUses ==
  ASSUME TraceInv, NEW k \in Key, AddEntry(k)
  PROVE  Used(nextAlloc)
<1>. DEFINE new == [key |-> k, lru |-> Stamp, pin |-> 0, valid |-> TRUE]
            n == nextAlloc
<1>1. /\ DOMAIN entries' = DOMAIN entries \cup {n} /\ lruCounter' = lruCounter + 1
      /\ entries'[n] = new
      /\ \A s \in DOMAIN entries \ {n} :
           entries'[s] = IF s \in Evicted THEN [entries[s] EXCEPT !.valid = FALSE]
                                          ELSE entries[s]
  BY DEF AddEntry
<1>2. ASSUME NEW s \in DOMAIN entries \ {n}
      PROVE  entries'[s].lru = entries[s].lru
  <2>1. entries[s] \in Entry
    BY DEF TraceInv, Types, TypeOK
  <2>2. [entries[s] EXCEPT !.valid = FALSE].lru = entries[s].lru
    BY <2>1 DEF Entry
  <2>. QED  BY <1>1, <2>2
<1>. QED  BY <1>1, <1>2 DEF Used

\* Every step uses one entry or none.
LEMMA StepUses ==
  ASSUME TraceInv, [Next]_vars
  PROVE  NothingUsed \/ \E x \in Nat : Used(x)
<1>1. nextAlloc \in Nat /\ \A s \in DOMAIN entries : s \in Nat /\ entries[s] \in Entry
  BY DEF TraceInv, Types, TypeOK
<1>2. ASSUME NEW k \in Key, Hits(k) # {}, Touch(FirstHit(k))
      PROVE  \E x \in Nat : Used(x)
  BY <1>1, <1>2, TouchUses, HitIsEntry DEF TraceInv
<1>3. ASSUME NEW k \in Key, TraceCacheInsert(k)
      PROVE  \E x \in Nat : Used(x)
  BY <1>1, <1>2, <1>3, AddEntryUses DEF TraceCacheInsert
<1>4. UNCHANGED <<entries, lruCounter>> => NothingUsed
  BY DEF NothingUsed
<1>5. CASE TraceCacheWarmKernel
  <2>1. warming # <<>> => Head(warming) \in Key
    BY HeadTailProperties DEF TraceInv, Types, TypeOK
  <2>. QED  BY <1>3, <1>4, <1>5, <2>1 DEF TraceCacheWarmKernel
<1>6. ASSUME NEW rip \in Rips, TraceCacheInvalidate(rip)
      PROVE  NothingUsed
  <2>1. /\ DOMAIN entries' = DOMAIN entries /\ lruCounter' = lruCounter
        /\ \A s \in DOMAIN entries :
             entries'[s] = IF entries[s].key[1] = rip THEN [entries[s] EXCEPT !.valid = FALSE]
                                                      ELSE entries[s]
    BY <1>6 DEF TraceCacheInvalidate
  <2>2. \A s \in DOMAIN entries : [entries[s] EXCEPT !.valid = FALSE].lru = entries[s].lru
    BY <1>1 DEF Entry
  <2>. QED  BY <2>1, <2>2 DEF NothingUsed
<1>7. ASSUME NEW c \in CPUs, PinStore(c)
      PROVE  NothingUsed
  <2>1. PICK p : entries' = [entries EXCEPT ![ptr[c]] = [entries[ptr[c]] EXCEPT !.pin = p]]
    BY <1>7 DEF PinStore
  <2>2. ASSUME NEW s \in DOMAIN entries
        PROVE  entries'[s].lru = entries[s].lru
    <3>1. [entries[s] EXCEPT !.pin = p].lru = entries[s].lru
      BY <1>1 DEF Entry
    <3>. QED  BY <2>1, <3>1
  <2>3. DOMAIN entries' = DOMAIN entries /\ lruCounter' = lruCounter
    BY <1>7, <2>1 DEF PinStore
  <2>. QED  BY <2>2, <2>3 DEF NothingUsed
<1>. QED
  BY <1>2, <1>3, <1>4, <1>5, <1>6, <1>7
     DEF Next, vars, cacheVars, TraceCacheV71Configure, TraceCacheV72Init, SetScanDepth,
         TraceCacheLookup, PinLookup, UnpinCheck, PinLoad

LEMMA StepStamps ==
  ASSUME TraceAssumption, TraceInv, StampsDiffer, [Next]_vars
  PROVE  StampsDiffer'
<1>1. lruCounter \in Nat /\ LruModulus \in Nat \ {0} /\ \A s \in DOMAIN entries : entries[s].lru \in Nat
  BY DEF TraceInv, Types, TypeOK, Entry, TraceAssumption
<1>2. CASE NothingUsed
  BY <1>2 DEF NothingUsed, StampsDiffer
<1>3. ASSUME NEW x \in Nat, Used(x), lruCounter' <= LruModulus
      PROVE  /\ \A s \in DOMAIN entries' : entries'[s].lru < lruCounter'
             /\ \A s, t \in DOMAIN entries' : entries'[s].lru = entries'[t].lru => s = t
  <2>1. lruCounter < LruModulus /\ lruCounter' = lruCounter + 1
    BY <1>1, <1>3 DEF Used
  <2>2. Stamp = lruCounter
    BY <1>1, <2>1, SMT DEF Stamp
  <2>3. /\ \A s \in DOMAIN entries : entries[s].lru < lruCounter
        /\ \A s, t \in DOMAIN entries : entries[s].lru = entries[t].lru => s = t
    BY <1>1, <2>1 DEF StampsDiffer
  <2>4. /\ DOMAIN entries' = DOMAIN entries \cup {x} /\ entries'[x].lru = lruCounter
        /\ \A s \in DOMAIN entries \ {x} : entries'[s].lru = entries[s].lru
    BY <1>3, <2>2 DEF Used
  <2>. QED  BY <1>1, <2>1, <2>3, <2>4
<1>. QED  BY <1>2, <1>3, StepUses DEF StampsDiffer

\* The scan meets two entries if there are two to evict.
LEMMA TwoScanned ==
  ASSUME TraceAssumption, TraceInv, Cardinality(Evictable) > 1
  PROVE  \E a, b \in Scanned : a # b
<1>1. Evictable \in SUBSET (DOMAIN entries) /\ IsFiniteSet(Evictable)
  <2>1. Evictable \subseteq Valid /\ Evictable \in SUBSET (DOMAIN entries)
    BY DEF Evictable, Valid
  <2>. QED  BY <2>1, ValidFinite, FS_Subset DEF TraceInv
<1>2. lruScanDepth \in Nat \ {0, 1}
  BY DEF TraceInv, Types, TypeOK, TraceAssumption
<1>3. Evictable # {} /\ \A a : Evictable # {a}
  <2>. DEFINE n == Cardinality(Evictable)
  <2>1. n # 0 /\ n # 1
    BY <1>1, FS_CardinalityType
  <2>2. (Evictable = {} => n = 0) /\ \A a : Evictable = {a} => n = 1
    BY FS_EmptySet, FS_Singleton
  <2>. HIDE DEF n
  <2>. QED  BY <2>1, <2>2, Zenon
<1>4. PICK a \in Evictable : \A t \in Evictable : ~Before(t, a)
  BY <1>1, <1>3, FirstInOrder DEF TraceInv
<1>. DEFINE rest == Evictable \ {a}
<1>5. rest # {}
  BY <1>3, <1>4
<1>6. PICK b \in rest : \A t \in rest : ~Before(t, b)
  BY <1>1, <1>5, FirstInOrder DEF TraceInv
<1>7. {t \in Evictable : Before(t, a)} = {} /\ {t \in Evictable : Before(t, b)} \subseteq {a}
  BY <1>4, <1>6
<1>8. /\ Cardinality({t \in Evictable : Before(t, b)}) <= 1
      /\ Cardinality({t \in Evictable : Before(t, b)}) \in Nat
  <2>1. IsFiniteSet({a}) /\ Cardinality({a}) = 1
    BY FS_Singleton
  <2>. QED  BY <1>7, <2>1, FS_Subset, FS_CardinalityType
<1>9. Cardinality({t \in Evictable : Before(t, a)}) = 0
  BY <1>7, FS_EmptySet
<1>10. a \in Scanned /\ b \in Scanned
  BY <1>2, <1>4, <1>6, <1>8, <1>9 DEF Scanned
<1>. QED  BY <1>6, <1>10

LEMMA RecentIsSpared ==
  ASSUME TraceAssumption, TraceInv, StampsDiffer, NEW k \in Key, AddEntry(k),
         Cardinality(Evictable) > 1, lruCounter <= LruModulus,
         NEW s \in Evictable, entries[s].lru = lruCounter - 1
  PROVE  entries'[s].valid
<1>1. /\ \A t \in DOMAIN entries : entries[t].lru \in Nat /\ entries[t].lru < lruCounter
      /\ \A t, u \in DOMAIN entries : entries[t].lru = entries[u].lru => t = u
      /\ lruCounter \in Nat
  BY DEF StampsDiffer, TraceInv, Types, TypeOK, Entry
<1>2. s \in DOMAIN entries /\ Scanned \subseteq DOMAIN entries /\ entries[s].valid
  BY DEF Evictable, Scanned
<1>3. s \notin Evicted
  <2>. SUFFICES ASSUME s \in Evicted
                PROVE  FALSE
    OBVIOUS
  <2>1. \A t \in Scanned : entries[s].lru <= entries[t].lru
    BY DEF Evicted, Victims
  <2>2. \A t \in Scanned : entries[t].lru = entries[s].lru
    BY <1>1, <1>2, <2>1
  <2>3. \A t \in Scanned : t = s
    BY <1>1, <1>2, <2>2
  <2>. QED  BY <2>3, TwoScanned
<1>4. s # nextAlloc
  BY <1>2 DEF TraceInv, Types, TypeOK
<1>. QED  BY <1>2, <1>3, <1>4 DEF AddEntry

\* Although the scan is cut short, the entry used last is not evicted while there
\* is another to evict, as long as the counter fits the entries' copies of it.
THEOREM LastUsedStays ==
  ASSUME TraceAssumption
  PROVE  Spec => RecentSurvives
<1>. DEFINE Spared == nextAlloc' # nextAlloc /\ Cardinality(Evictable) > 1
                        /\ lruCounter <= LruModulus =>
                          \A s \in Evictable :
                            entries[s].lru = lruCounter - 1 => entries'[s].valid
<1>1. Init => TraceInv /\ StampsDiffer
  <2>1. Init => DOMAIN entries = {}
    BY DEF Init
  <2>. QED  BY <2>1, InitTrace DEF StampsDiffer
<1>2. TraceInv /\ StampsDiffer /\ [Next]_vars => TraceInv' /\ StampsDiffer'
  BY StepTrace, StepStamps
<1>3. TraceInv /\ StampsDiffer /\ [Next]_vars => [Spared]_vars
  <2>1. ASSUME TraceInv, StampsDiffer, [Next]_vars
        PROVE  Spared
    <3>1. CASE nextAlloc' = nextAlloc
      BY <3>1
    <3>2. CASE \E k \in Key : AddEntry(k)
      BY <2>1, <3>2, RecentIsSpared
    <3>. QED  BY <2>1, <3>1, <3>2, OnlyAddEntryCounts
  <2>. QED  BY <2>1
<1>. HIDE DEF Spared
<1>4. Spec => [][Spared]_vars
  BY <1>1, <1>2, <1>3, PTL DEF Spec
<1>. QED  BY <1>4, PTL DEF RecentSurvives, Spared

===============================================================================
