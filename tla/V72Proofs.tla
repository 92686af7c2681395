------------------------------- MODULE V72Proofs -------------------------------
(***************************************************************************)
(* The compressed reorder buffer of RobV72, for every number and size of   *)
(* rings: its types, its windows and the metadata of entries in flight.    *)
(***************************************************************************)
EXTENDS RobV72, FiniteSetTheorems, FunctionTheorems, TLAPS

-------------------------------------------------------------------------------
(* One ring                                                                *)

Window(q, r, s) == \E i \in 0 .. q.count - 1 : s = (q.head + i) % Size(r)

Windowed(q, r) ==
  /\ q.tail = (q.head + q.count) % Size(r)
  /\ \A s \in Slots(r) : Window(q, r, s) => q.entry[s].state # FREE

\* What RingsConsistent says of ring q in the place of ring r.
Sound(q, r) ==
  /\ Windowed(q, r)
  /\ q.count > 0 => q.entry[q.head].state = ALLOCATED

State     == {FREE, ALLOCATED, RETIRED}
RingEntry == [tag : Tag, state : State, uop : Nat]

LEMMA Sizes ==
  ASSUME V72Assumption, NEW r \in Ring
  PROVE  Size(r) \in Nat \ {0} /\ Slots(r) = 0 .. Size(r) - 1 /\ 0 \in Slots(r) /\ 0 \in Tag
BY DEF V72Assumption, Size, Slots, Tag

\* Advancing in a ring of n slots by no more than n wraps at most once.
LEMMA Wrap ==
  ASSUME NEW n \in Nat \ {0}, NEW h \in 0 .. n - 1, NEW i \in 0 .. n
  PROVE  /\ (h + i) % n \in 0 .. n - 1
         /\ (h + i) % n = IF h + i < n THEN h + i ELSE h + i - n
<1>1. CASE h + i < n
  BY <1>1, SMT
<1>2. CASE h + i >= n
  <2>1. h + i - n \in 0 .. n - 1
    BY <1>2
  <2>2. (h + i) % n = h + i - n
    BY <2>1, SMT
  <2>. QED  BY <1>2, <2>1, <2>2
<1>. QED  BY <1>1, <1>2

\* Different distances lead to different slots.
LEMMA Apart ==
  ASSUME NEW n \in Nat \ {0}, NEW h \in 0 .. n - 1,
         NEW i \in 0 .. n - 1, NEW j \in 0 .. n - 1, (h + i) % n = (h + j) % n
  PROVE  i = j
<1>. DEFINE a == (h + i) % n
            b == (h + j) % n
<1>1. i \in 0 .. n /\ j \in 0 .. n /\ a = b
  OBVIOUS
<1>2. a = (IF h + i < n THEN h + i ELSE h + i - n) /\ b = IF h + j < n THEN h + j ELSE h + j - n
  BY <1>1, Wrap
<1>. HIDE DEF a, b
<1>. QED  BY <1>1, <1>2

\* Two advances that stay within the ring are one.
LEMMA Further ==
  ASSUME NEW n \in Nat \ {0}, NEW h \in 0 .. n - 1,
         NEW i \in 0 .. n, NEW j \in 0 .. n, i + j <= n
  PROVE  (((h + i) % n) + j) % n = (h + (i + j)) % n
<1>. DEFINE a == (h + i) % n
            b == (a + j) % n
            c == (h + (i + j)) % n
<1>1. a \in 0 .. n - 1 /\ a = IF h + i < n THEN h + i ELSE h + i - n
  BY Wrap
<1>2. i + j \in 0 .. n
  OBVIOUS
<1>3. c = IF h + (i + j) < n THEN h + (i + j) ELSE h + (i + j) - n
  BY <1>2, Wrap
<1>. HIDE DEF a, c
<1>4. b = IF a + j < n THEN a + j ELSE a + j - n
  BY <1>1, Wrap
<1>. HIDE DEF b
<1>5. b = c
  BY <1>1, <1>3, <1>4
<1>. QED  BY <1>5 DEF a, b, c

LEMMA EmptyRingSound ==
  ASSUME V72Assumption, NEW r \in Ring
  PROVE  /\ EmptyRing(r) \in RingType(r) /\ EmptyRing(r).count = 0
         /\ EmptyRing(r).tail = 0 /\ Sound(EmptyRing(r), r)
<1>1. Size(r) \in Nat \ {0} /\ 0 \in Slots(r) /\ 0 \in Tag
  BY Sizes
<1>2. EmptyRing(r) \in RingType(r)
  BY <1>1 DEF EmptyRing, RingType
<1>3. (0 + 0) % Size(r) = 0
  BY <1>1, Wrap
<1>. QED  BY <1>1, <1>2, <1>3 DEF EmptyRing, Sound, Windowed, Window

\* A ring with room takes an entry at its tail, behind its window.
LEMMA EnterKeeps ==
  ASSUME V72Assumption, NEW r \in Ring, NEW q \in RingType(r), q.count < Size(r),
         metaTail \in Tag, totalAllocations \in Nat
  PROVE  /\ Enter(q, r) \in RingType(r) /\ Enter(q, r).count = q.count + 1
         /\ Enter(q, r).tail = (q.tail + 1) % Size(r)
         /\ Enter(q, r).entry[q.tail] =
              [tag |-> metaTail, state |-> ALLOCATED, uop |-> totalAllocations]
         /\ \A s \in Slots(r) \ {q.tail} : Enter(q, r).entry[s] = q.entry[s]
         /\ Sound(q, r) =>
              /\ Sound(Enter(q, r), r)
              /\ \A s \in Slots(r) : Window(Enter(q, r), r, s) => Window(q, r, s) \/ s = q.tail
              /\ \A s \in Slots(r) : Window(q, r, s) => s # q.tail
<1>. DEFINE n == Size(r)
            e == [tag |-> metaTail, state |-> ALLOCATED, uop |-> totalAllocations]
            g == Enter(q, r)
<1>1. /\ n \in Nat \ {0} /\ Slots(r) = 0 .. n - 1
      /\ q.head \in 0 .. n - 1 /\ q.tail \in 0 .. n - 1 /\ q.count \in 0 .. n - 1
      /\ q.entry \in [Slots(r) -> RingEntry]
      /\ 1 \in 0 .. n /\ q.count \in 0 .. n /\ q.count + 1 \in 0 .. n
  BY Sizes DEF RingType, RingEntry, State
<1>2. e \in RingEntry
  BY DEF RingEntry, State
<1>. HIDE DEF n
<1>3. (q.tail + 1) % n \in 0 .. n - 1
      /\ (q.tail + 1) % n = IF q.tail + 1 < n THEN q.tail + 1 ELSE q.tail + 1 - n
  BY <1>1, Wrap
<1>4. g = [head |-> q.head, tail |-> (q.tail + 1) % n, count |-> q.count + 1,
           entry |-> [q.entry EXCEPT ![q.tail] = e]]
  <2>. DEFINE t == (q.tail + 1) % n
              c == q.count + 1
  <2>1. g = [q EXCEPT !.entry = [q.entry EXCEPT ![q.tail] = e], !.tail = t, !.count = c]
    BY Zenon DEF Enter, n
  <2>. HIDE DEF t, c, e, g
  <2>2. g = [head |-> q.head, tail |-> t, count |-> c,
             entry |-> [q.entry EXCEPT ![q.tail] = e]]
    BY <2>1 DEF RingType
  <2>. QED  BY <2>2 DEF t, c
<1>. HIDE DEF g, e
<1>5. [q.entry EXCEPT ![q.tail] = e] \in [Slots(r) -> RingEntry]
  BY <1>1, <1>2
<1>6. g \in RingType(r)
  BY <1>1, <1>3, <1>4, <1>5 DEF RingType, RingEntry, State, n
<1>7. g.entry[q.tail] = e /\ \A s \in Slots(r) \ {q.tail} : g.entry[s] = q.entry[s]
  BY <1>1, <1>4
<1>8. ASSUME Sound(q, r)
      PROVE  /\ Sound(g, r)
             /\ \A s \in Slots(r) : Window(g, r, s) => Window(q, r, s) \/ s = q.tail
             /\ \A s \in Slots(r) : Window(q, r, s) => s # q.tail
  <2>. DEFINE At(i) == (q.head + i) % n
  <2>0. \A i \in 0 .. n : At(i) = IF q.head + i < n THEN q.head + i ELSE q.head + i - n
    BY <1>1, Wrap
  <2>. HIDE DEF At
  <2>1. q.tail = At(q.count)
    BY <1>8 DEF Sound, Windowed, n, At
  <2>2. \A s \in Slots(r) : Window(g, r, s) => Window(q, r, s) \/ s = q.tail
    <3>1. ASSUME NEW s \in Slots(r), NEW i \in 0 .. q.count, s = (q.head + i) % n
          PROVE  Window(q, r, s) \/ s = q.tail
      <4>1. CASE i = q.count
        BY <2>1, <3>1, <4>1 DEF At
      <4>2. CASE i \in 0 .. q.count - 1
        BY <3>1, <4>2, Zenon DEF Window, n
      <4>. QED  BY <1>1, <3>1, <4>1, <4>2
    <3>2. g.count - 1 = q.count /\ g.head = q.head
      BY <1>1, <1>4
    <3>. QED  BY <3>1, <3>2 DEF Window, n
  <2>3. ASSUME NEW i \in 0 .. q.count - 1
        PROVE  At(i) # q.tail
    <3>1. i \in 0 .. n - 1 /\ i # q.count
      BY <1>1, <2>3
    <3>. QED  BY <1>1, <2>1, <3>1, Apart DEF At
  <2>4. g.tail = (g.head + g.count) % n
    <3>1. q.count + 1 <= n
      BY <1>1
    <3>2. (At(q.count) + 1) % n = (q.head + (q.count + 1)) % n
      BY <1>1, <3>1, Further DEF At
    <3>. QED  BY <1>4, <2>1, <3>2
  <2>5. \A s \in Slots(r) : Window(g, r, s) => g.entry[s].state # FREE
    <3>1. e.state = ALLOCATED
      BY DEF e
    <3>. QED  BY <1>1, <1>7, <1>8, <2>2, <3>1 DEF Sound, Windowed, FREE, ALLOCATED
  <2>6. g.count > 0 => g.entry[g.head].state = ALLOCATED
    <3>1. CASE q.count = 0
      <4>1. q.tail = q.head
        BY <1>1, <2>0, <2>1, <3>1
      <4>. QED  BY <1>4, <1>7, <4>1 DEF e
    <3>2. CASE q.count > 0
      <4>1. q.head # q.tail
        BY <1>1, <2>0, <2>1, <3>2
      <4>2. q.entry[q.head].state = ALLOCATED
        BY <1>8, <3>2 DEF Sound, Windowed
      <4>. QED  BY <1>1, <1>4, <1>7, <4>1, <4>2
    <3>. QED  BY <1>1, <3>1, <3>2
  <2>7. \A s \in Slots(r) : Window(q, r, s) => s # q.tail
    BY <2>3 DEF Window, n, At
  <2>. QED  BY <2>2, <2>4, <2>5, <2>6, <2>7 DEF Sound, Windowed, n
<1>9. g.count = q.count + 1 /\ g.tail = (q.tail + 1) % n
  BY <1>4
<1>. QED  BY <1>6, <1>7, <1>8, <1>9 DEF g, e, n

\* A slot marked retired, wherever it is, leaves the ring a ring.
LEMMA MarkKeeps ==
  ASSUME V72Assumption, NEW r \in Ring, NEW q \in RingType(r), NEW m \in Slots(r)
  PROVE  LET p == [q EXCEPT !.entry[m].state = RETIRED]
         IN  /\ p \in RingType(r) /\ p.count = q.count /\ p.tail = q.tail /\ p.head = q.head
             /\ \A s \in Slots(r) : /\ p.entry[s].tag = q.entry[s].tag
                                    /\ p.entry[s].uop = q.entry[s].uop
             /\ Windowed(q, r) => Windowed(p, r)
<1>. DEFINE p == [q EXCEPT !.entry[m].state = RETIRED]
            e == [q.entry[m] EXCEPT !.state = RETIRED]
<1>1. q.entry \in [Slots(r) -> RingEntry] /\ q.entry[m] \in RingEntry
  BY DEF RingType, RingEntry, State
<1>2. /\ e \in RingEntry /\ e.tag = q.entry[m].tag /\ e.uop = q.entry[m].uop
      /\ e.state = RETIRED
  BY <1>1 DEF RingEntry, State
<1>3. p = [q EXCEPT !.entry = [q.entry EXCEPT ![m] = e]]
  BY Zenon
<1>. HIDE DEF e, p
<1>4. p = [head |-> q.head, tail |-> q.tail, count |-> q.count,
           entry |-> [q.entry EXCEPT ![m] = e]]
  BY <1>3 DEF RingType
<1>5. [q.entry EXCEPT ![m] = e] \in [Slots(r) -> RingEntry]
  BY <1>1, <1>2
<1>6. p \in RingType(r)
  BY <1>4, <1>5 DEF RingType, RingEntry, State
<1>7. ASSUME NEW s \in Slots(r)
      PROVE  /\ p.entry[s].tag = q.entry[s].tag /\ p.entry[s].uop = q.entry[s].uop
             /\ q.entry[s].state # FREE => p.entry[s].state # FREE
  <2>1. CASE s = m
    BY <1>1, <1>2, <1>4, <2>1 DEF FREE, RETIRED
  <2>2. CASE s # m
    BY <1>1, <1>4, <2>2
  <2>. QED  BY <2>1, <2>2
<1>8. p.count = q.count /\ p.tail = q.tail /\ p.head = q.head
  BY <1>4
<1>9. Windowed(q, r) => Windowed(p, r)
  BY <1>7, <1>8 DEF Windowed, Window
<1>. QED  BY <1>6, <1>7, <1>8, <1>9 DEF p

\* The drain loop shortens the window from its head and leaves no retired entry
\* there, whatever the slot that was marked.
LEMMA FreedKeeps ==
  ASSUME V72Assumption, NEW r \in Ring, NEW q \in RingType(r), NEW k \in 0 .. q.count,
         Drains(q, r, k)
  PROVE  LET f == Freed(q, r, k)
         IN  /\ f \in RingType(r) /\ f.count = q.count - k /\ f.tail = q.tail
             /\ \A s \in Slots(r) : /\ f.entry[s].tag = q.entry[s].tag
                                    /\ f.entry[s].uop = q.entry[s].uop
             /\ \A s \in Slots(r) : Window(f, r, s) => Window(q, r, s)
             /\ Windowed(q, r) => Sound(f, r)
<1>. DEFINE f == Freed(q, r, k)
            n == Size(r)
            At(i) == (q.head + i) % n
            h == (q.head + k) % n
            c == q.count - k
            given(s) == \E i \in 0 .. k - 1 : s = At(i)
            e == [s \in Slots(r) |-> IF given(s) THEN [q.entry[s] EXCEPT !.state = FREE]
                                                 ELSE q.entry[s]]
<1>1. /\ n \in Nat \ {0} /\ Slots(r) = 0 .. n - 1
      /\ q.head \in 0 .. n - 1 /\ q.tail \in 0 .. n - 1 /\ q.count \in 0 .. n
      /\ q.entry \in [Slots(r) -> RingEntry]
      /\ k \in 0 .. n /\ c \in 0 .. n /\ k + c <= n /\ k + c = q.count
  BY Sizes DEF RingType, RingEntry, State
<1>2. f = [q EXCEPT !.entry = e, !.head = h, !.count = c]
  BY Zenon DEF Freed
<1>3. h \in 0 .. n - 1
  BY <1>1, Wrap
<1>4. ASSUME NEW s \in Slots(r)
      PROVE  /\ e[s] \in RingEntry /\ e[s].tag = q.entry[s].tag /\ e[s].uop = q.entry[s].uop
             /\ ~given(s) => e[s] = q.entry[s]
  <2>. HIDE DEF given, n
  <2>1. q.entry[s] \in RingEntry
    BY <1>1
  <2>2. CASE given(s)
    <3>1. e[s] = [q.entry[s] EXCEPT !.state = FREE]
      BY <2>2, Zenon
    <3>. HIDE DEF e
    <3>. QED  BY <2>1, <2>2, <3>1 DEF RingEntry, State
  <2>3. CASE ~given(s)
    <3>1. e[s] = q.entry[s]
      BY <2>3, Zenon
    <3>. HIDE DEF e
    <3>. QED  BY <2>1, <3>1
  <2>. QED  BY <2>2, <2>3
<1>5. e \in [Slots(r) -> RingEntry]
  BY <1>4
<1>. HIDE DEF e, h, f, c
<1>6. f = [head |-> h, tail |-> q.tail, count |-> c, entry |-> e]
  BY <1>2 DEF RingType
<1>7. f \in RingType(r)
  <2>1. c \in 0 .. Size(r) /\ h \in Slots(r)
    BY <1>1, <1>3
  <2>. QED  BY <1>5, <1>6, <2>1 DEF RingType, RingEntry, State
<1>8. ASSUME NEW i \in 0 .. c - 1
      PROVE  (h + i) % n = At(k + i) /\ k + i \in 0 .. q.count - 1 /\ ~given((h + i) % n)
  <2>1. /\ i \in 0 .. n /\ k + i <= n /\ k + i \in 0 .. q.count - 1 /\ k + i \in 0 .. n - 1
        /\ i \in 0 .. n - 1
    BY <1>1
  <2>2. (h + i) % n = At(k + i)
    BY <1>1, <2>1, Further DEF h
  <2>3. ASSUME NEW j \in 0 .. k - 1, At(k + i) = At(j)
        PROVE  FALSE
    <3>1. j \in 0 .. n - 1 /\ j # k + i
      BY <1>1
    <3>. QED  BY <1>1, <2>1, <2>3, <3>1, Apart
  <2>. HIDE DEF At
  <2>. QED  BY <2>1, <2>2, <2>3
<1>. HIDE DEF n, At, given
<1>9. ASSUME NEW s \in Slots(r), Window(f, r, s)
      PROVE  Window(q, r, s) /\ e[s] = q.entry[s]
  <2>1. PICK i \in 0 .. c - 1 : s = (h + i) % n
    BY <1>6, <1>9 DEF Window, n
  <2>2. k + i \in 0 .. q.count - 1 /\ s = At(k + i) /\ ~given(s)
    BY <1>8, <2>1
  <2>. QED  BY <1>4, <2>2 DEF Window, At, n
<1>10. ASSUME Windowed(q, r)
       PROVE  Sound(f, r)
  <2>1. f.tail = (f.head + f.count) % Size(r)
    <3>1. (h + c) % n = (q.head + (k + c)) % n
      BY <1>1, Further DEF h
    <3>. QED  BY <1>1, <1>6, <1>10, <3>1 DEF Windowed, n
  <2>2. \A s \in Slots(r) : Window(f, r, s) => f.entry[s].state # FREE
    BY <1>6, <1>9, <1>10 DEF Windowed
  <2>3. ASSUME f.count > 0
        PROVE  f.entry[f.head].state = ALLOCATED
    <3>1. k < q.count /\ 0 \in 0 .. c - 1 /\ 0 \in 0 .. n
      BY <1>1, <1>6, <2>3 DEF c
    <3>2. q.entry[h].state # RETIRED
      BY <3>1 DEF Drains, h, n
    <3>3. (h + 0) % n = h
      <4>1. h + 0 = h /\ h + 0 < n
        BY <1>1, <1>3
      <4>2. (h + 0) % n = IF h + 0 < n THEN h + 0 ELSE h + 0 - n
        BY <1>1, <1>3, <3>1, Wrap
      <4>. QED  BY <4>1, <4>2
    <3>4. h \in Slots(r) /\ Window(f, r, h)
      BY <1>1, <1>3, <1>6, <3>1, <3>3 DEF Window, n
    <3>5. q.entry[h].state # FREE /\ e[h] = q.entry[h]
      BY <1>9, <1>10, <3>4 DEF Windowed
    <3>6. q.entry[h] \in RingEntry
      BY <1>1, <3>4
    <3>. QED  BY <1>6, <3>2, <3>5, <3>6 DEF RingEntry, State
  <2>. QED  BY <2>1, <2>2, <2>3 DEF Sound, Windowed
<1>. QED  BY <1>4, <1>6, <1>7, <1>9, <1>10 DEF f, c

-------------------------------------------------------------------------------
(* The invariant                                                           *)

\* What holds even after an initialisation that failed half way: every ring that
\* exists is a ring, the counter beside it is not below its own, and the
\* metadata of a tag points to a slot.
Base ==
  /\ TypeOK /\ totalAllocations \in Nat
  /\ ring = [r \in Ring |-> ring[r]]
  /\ \A r \in Ring : ring[r] # NULL => entryCounts[r] >= ring[r].count
  /\ meta # NULL => \A t \in Tag : meta[t].slot \in Slots(meta[t].bank)

\* What a successful initialisation adds.
Live ==
  initOk =>
    /\ \A r \in Ring : /\ ring[r] # NULL /\ Sound(ring[r], r)
                       /\ entryCounts[r] = ring[r].count
    /\ meta # NULL /\ ~fault

\* Until an allocation spills, tags and slots of the main ring go hand in hand.
Own ==
  initOk /\ ~spilled =>
    /\ metaTail = ring[Main].tail
    /\ \A s \in Slots(Main) : InWindow(Main, s) =>
         /\ ring[Main].entry[s].tag = s
         /\ meta[s].bank = Main /\ meta[s].slot = s
         /\ meta[s].uop = ring[Main].entry[s].uop

V72Inv == Base /\ Live /\ Own

LEMMA Names ==
  ASSUME V72Assumption
  PROVE  /\ Main \in Ring /\ Main \notin Ext /\ Ext \subseteq Ring
         /\ Slots(Main) = Tag /\ Size(Main) = MainEntries
         /\ \A r \in Ext : Size(r) = ExtEntries
         /\ 0 \in Ext /\ 0 \in Tag
         /\ NextTag \in Tag \/ metaTail \notin Tag
BY DEF Main, Ext, Ring, Slots, Tag, Size, NextTag, V72Assumption

LEMMA RingTyped ==
  ASSUME Base, NEW r \in Ring, ring[r] # NULL
  PROVE  ring[r] \in RingType(r) /\ ring[r].count \in Nat /\ ring[r].count <= entryCounts[r]
         /\ ring[r].count \in 0 .. Size(r)
<1>1. ring[r] \in RingType(r)
  BY DEF Base, TypeOK
<1>2. ring[r].count \in 0 .. Size(r)
  BY <1>1 DEF RingType
<1>. QED  BY <1>1, <1>2 DEF Base

LEMMA InitV72 ==
  ASSUME V72Assumption, Init
  PROVE  V72Inv
<1>1. /\ \A r \in Ring : ring[r] = NULL /\ entryCounts[r] = 0
      /\ ring = [r \in Ring |-> NULL]
  BY DEF Init
<1>2. TypeOK
  BY <1>1, Names DEF Init, TypeOK
<1>3. Base
  BY <1>1, <1>2 DEF Init, Base
<1>. QED  BY <1>3 DEF Init, V72Inv, Live, Own

LEMMA InitSucceedsKeeps ==
  ASSUME V72Assumption, NullAssumption, V72Inv, InitSucceeds, ~fault, fault' = fault
  PROVE  V72Inv'
<1>1. \A r \in Ring : /\ EmptyRing(r) \in RingType(r) /\ EmptyRing(r).count = 0
                      /\ EmptyRing(r).tail = 0 /\ Sound(EmptyRing(r), r)
  BY EmptyRingSound
<1>2. \A r \in Ring : /\ ring'[r] = EmptyRing(r) /\ entryCounts'[r] = 0
                      /\ ring'[r] # NULL
  BY <1>1 DEF InitSucceeds, NullAssumption
<1>3. ring' = [r \in Ring |-> ring'[r]]
  BY DEF InitSucceeds
<1>4. \A r \in Ring : 0 \in Slots(r) /\ Slots(r) \subseteq Nat
  BY Sizes
<1>5. meta' \in MetaType /\ \A t \in Tag : meta'[t].slot \in Slots(meta'[t].bank)
  <2>1. meta' = [t \in Tag |-> [bank |-> 0, slot |-> 0, uop |-> 0]]
    BY DEF InitSucceeds, ZeroMeta
  <2>. QED  BY <1>4, <2>1, Names DEF MetaType
<1>6. TypeOK'
  BY <1>1, <1>2, <1>5, Names DEF TypeOK, InitSucceeds, V72Inv, Base
<1>7. Base'
  BY <1>1, <1>2, <1>3, <1>5, <1>6 DEF Base, InitSucceeds
<1>8. Live'
  BY <1>1, <1>2, <1>5 DEF Live, InitSucceeds, NullAssumption
<1>9. Own'
  <2>1. ring'[Main].count = 0 /\ ring'[Main].tail = 0 /\ metaTail' = 0
    BY <1>1, <1>2, Names DEF InitSucceeds
  <2>2. \A s \in Slots(Main) : ~InWindow(Main, s)'
    BY <2>1 DEF InWindow
  <2>. QED  BY <2>1, <2>2 DEF Own
<1>. QED  BY <1>7, <1>8, <1>9 DEF V72Inv

LEMMA InitFailsKeeps ==
  ASSUME V72Assumption, V72Inv, NEW f \in 0 .. ExtBanks + 1, InitFails(f), fault' = fault
  PROVE  V72Inv'
<1>1. ring' = [r \in Ring |-> ring'[r]] /\ initOk' = FALSE
  BY DEF InitFails, Reported
<1>2. ASSUME NEW r \in Ring
      PROVE  /\ ring'[r] = NULL \/ ring'[r] \in RingType(r)
             /\ entryCounts'[r] \in Nat
             /\ ring'[r] # NULL => entryCounts'[r] >= ring'[r].count
  <2>1. EmptyRing(r) \in RingType(r) /\ EmptyRing(r).count = 0
    BY EmptyRingSound
  <2>2. entryCounts[r] \in Nat /\ (ring[r] = NULL \/ ring[r] \in RingType(r))
        /\ (ring[r] # NULL => entryCounts[r] >= ring[r].count)
    BY DEF V72Inv, Base, TypeOK
  <2>3. entryCounts'[r] = IF r # Main /\ r + 1 < f THEN 0 ELSE entryCounts[r]
    BY DEF InitFails
  <2>4. entryCounts'[r] \in Nat
    BY <2>2, <2>3
  <2>5. CASE r = Main
    <3>1. ring'[r] = NULL \/ ring'[r] = EmptyRing(r)
      BY <2>5 DEF InitFails
    <3>2. entryCounts'[r] >= 0
      BY <2>4
    <3>. QED  BY <2>1, <2>4, <3>1, <3>2
  <2>6. CASE r # Main /\ r + 1 < f
    <3>1. ring'[r] = EmptyRing(r)
      BY <2>6 DEF InitFails
    <3>. QED  BY <2>1, <2>3, <2>6, <3>1
  <2>7. CASE r # Main /\ r + 1 = f
    <3>1. ring'[r] = NULL
      BY <2>7 DEF InitFails
    <3>. QED  BY <2>4, <3>1
  <2>8. CASE r # Main /\ ~(r + 1 < f) /\ r + 1 # f
    <3>1. ring'[r] = ring[r]
      BY <2>8 DEF InitFails
    <3>2. entryCounts'[r] = entryCounts[r]
      BY <2>3, <2>8
    <3>. QED  BY <2>2, <3>1, <3>2
  <2>. QED  BY <2>5, <2>6, <2>7, <2>8
<1>3. entryCounts' \in [Ring -> Nat]
  BY <1>2 DEF InitFails
<1>4. meta' = NULL \/ meta' = meta
  BY DEF InitFails
<1>5. TypeOK'
  BY <1>1, <1>2, <1>3, <1>4 DEF TypeOK, InitFails, V72Inv, Base
<1>6. Base'
  BY <1>1, <1>2, <1>4, <1>5 DEF Base, InitFails, V72Inv
<1>. QED  BY <1>1, <1>6 DEF V72Inv, Live, Own

LEMMA AllocateInKeeps ==
  ASSUME V72Assumption, NullAssumption, V72Inv, NEW r \in Ring, AllocateIn(r),
         ring[r] # NULL, meta # NULL, ring[r].count < Size(r),
         nextExtBank' \in Ext, spilled' \in BOOLEAN,
         ~spilled' => r = Main /\ ~spilled
  PROVE  V72Inv'
<1>. DEFINE q == ring[r]
            g == Enter(q, r)
            n == entryCounts[r] + 1
            m == [bank |-> r, slot |-> q.tail, uop |-> totalAllocations]
<1>1. /\ Base /\ TypeOK /\ metaTail \in Tag /\ totalAllocations \in Nat
      /\ q \in RingType(r) /\ q.count \in Nat /\ q.count <= entryCounts[r]
      /\ ring = [x \in Ring |-> ring[x]] /\ entryCounts \in [Ring -> Nat]
      /\ meta \in MetaType /\ DOMAIN meta = Tag
      /\ \A t \in Tag : meta[t].slot \in Slots(meta[t].bank)
  BY RingTyped DEF V72Inv, Base, TypeOK, MetaType
<1>2. /\ g \in RingType(r) /\ g.count = q.count + 1
      /\ g.tail = (q.tail + 1) % Size(r)
      /\ g.entry[q.tail] =
              [tag |-> metaTail, state |-> ALLOCATED, uop |-> totalAllocations]
      /\ \A s \in Slots(r) \ {q.tail} : g.entry[s] = q.entry[s]
      /\ Sound(q, r) =>
              /\ Sound(g, r)
              /\ \A s \in Slots(r) : Window(g, r, s) => Window(q, r, s) \/ s = q.tail
              /\ \A s \in Slots(r) : Window(q, r, s) => s # q.tail
  BY <1>1, EnterKeeps
<1>3. q.tail \in Slots(r) /\ Slots(r) \subseteq Nat
  BY <1>1, Sizes DEF RingType
<1>4. m \in [bank : Ring, slot : Nat, uop : Nat] /\ m.slot \in Slots(m.bank)
  BY <1>1, <1>3
<1>5. n \in Nat
  BY <1>1
<1>. HIDE DEF g, m, n, q
<1>6. /\ ring' = [ring EXCEPT ![r] = g] /\ entryCounts' = [entryCounts EXCEPT ![r] = n]
      /\ meta' = [meta EXCEPT ![metaTail] = m] /\ metaTail' = NextTag
      /\ totalAllocations' = totalAllocations + 1
      /\ UNCHANGED <<initOk, fault>>
  BY Zenon DEF AllocateIn, g, m, n, q
<1>7. /\ ring'[r] = g /\ \A x \in Ring \ {r} : ring'[x] = ring[x]
      /\ entryCounts'[r] = n /\ \A x \in Ring \ {r} : entryCounts'[x] = entryCounts[x]
      /\ ring' = [x \in Ring |-> ring'[x]] /\ entryCounts' \in [Ring -> Nat]
  BY <1>1, <1>5, <1>6
<1>8. /\ meta' \in MetaType /\ meta'[metaTail] = m
      /\ \A t \in Tag \ {metaTail} : meta'[t] = meta[t]
      /\ \A t \in Tag : meta'[t].slot \in Slots(meta'[t].bank)
  BY <1>1, <1>4, <1>6 DEF MetaType
<1>9. Base'
  <2>1. TypeOK'
    BY <1>1, <1>2, <1>6, <1>7, <1>8, Names DEF TypeOK
  <2>2. \A x \in Ring : ring'[x] # NULL => entryCounts'[x] >= ring'[x].count
    BY <1>1, <1>2, <1>7 DEF Base, n
  <2>. QED  BY <1>1, <1>6, <1>7, <1>8, <2>1, <2>2 DEF Base
<1>10. Live'
  <2>. SUFFICES ASSUME initOk
       PROVE  /\ \A x \in Ring : /\ ring'[x] # NULL /\ Sound(ring'[x], x)
                                 /\ entryCounts'[x] = ring'[x].count
              /\ meta' # NULL /\ ~fault'
    BY <1>6 DEF Live
  <2>1. /\ \A x \in Ring : /\ ring[x] # NULL /\ Sound(ring[x], x)
                           /\ entryCounts[x] = ring[x].count
        /\ ~fault
    BY DEF V72Inv, Live
  <2>2. g # NULL /\ meta' # NULL
    BY <1>2, <1>8 DEF NullAssumption
  <2>3. Sound(g, r) /\ n = g.count
    BY <1>2, <2>1 DEF q, n
  <2>. QED  BY <1>6, <1>7, <2>1, <2>2, <2>3
<1>11. Own'
  <2>. SUFFICES ASSUME initOk, ~spilled'
       PROVE  /\ metaTail' = ring'[Main].tail
              /\ \A s \in Slots(Main) : Window(ring'[Main], Main, s) =>
                   /\ ring'[Main].entry[s].tag = s
                   /\ meta'[s].bank = Main /\ meta'[s].slot = s
                   /\ meta'[s].uop = ring'[Main].entry[s].uop
    BY <1>6 DEF Own, InWindow, Window
  <2>1. r = Main /\ ~spilled /\ ring'[Main] = g
    BY <1>7
  <2>2. /\ metaTail = q.tail
        /\ \A s \in Slots(Main) : Window(q, Main, s) =>
             /\ q.entry[s].tag = s
             /\ meta[s].bank = Main /\ meta[s].slot = s
             /\ meta[s].uop = q.entry[s].uop
        /\ Sound(q, Main)
    BY <2>1 DEF V72Inv, Own, Live, InWindow, Window, q
  <2>3. g.tail = (metaTail + 1) % MainEntries
    BY <1>2, <2>1, <2>2, Names
  <2>4. ASSUME NEW s \in Slots(Main), Window(g, Main, s)
        PROVE  /\ g.entry[s].tag = s
               /\ meta'[s].bank = Main /\ meta'[s].slot = s
               /\ meta'[s].uop = g.entry[s].uop
    <3>1. CASE s = metaTail
      BY <1>2, <1>8, <2>1, <2>2, <3>1 DEF m
    <3>2. CASE s # metaTail
      <4>1. Window(q, Main, s) /\ s \in Tag
        BY <1>2, <2>1, <2>2, <2>4, <3>2, Names
      <4>2. g.entry[s] = q.entry[s] /\ meta'[s] = meta[s]
        BY <1>2, <1>8, <2>1, <2>2, <3>2, <4>1
      <4>. QED  BY <2>2, <4>1, <4>2
    <3>. QED  BY <3>1, <3>2
  <2>. QED  BY <1>6, <2>1, <2>3, <2>4 DEF NextTag
<1>. QED  BY <1>9, <1>10, <1>11 DEF V72Inv

LEMMA RetireKeeps ==
  ASSUME V72Assumption, NullAssumption, V72Inv, NEW t \in Tag,
         V72RobRetireEntry(t), meta # NULL
  PROVE  V72Inv'
<1>. DEFINE r == meta[t].bank
            q == ring[r]
            p == [q EXCEPT !.entry[meta[t].slot].state = RETIRED]
<1>1. /\ Base /\ TypeOK /\ r \in Ring /\ meta[t].slot \in Slots(r)
      /\ ring = [x \in Ring |-> ring[x]] /\ entryCounts \in [Ring -> Nat]
      /\ ring[r] # NULL
  BY DEF V72RobRetireEntry, V72Inv, Base, TypeOK, MetaType
<1>2. /\ q \in RingType(r) /\ q.count \in Nat /\ q.count <= entryCounts[r]
  BY <1>1, RingTyped
<1>3. PICK k \in 0 .. q.count : /\ Drains(p, r, k)
                                /\ ring' = [ring EXCEPT ![r] = Freed(p, r, k)]
                                /\ entryCounts' = [entryCounts EXCEPT ![r] = CountDown(@, k)]
  BY DEF V72RobRetireEntry
<1>4. UNCHANGED <<meta, metaTail, nextExtBank, totalAllocations, initOk, spilled, fault>>
  BY DEF V72RobRetireEntry
<1>5. /\ p \in RingType(r) /\ p.count = q.count /\ p.tail = q.tail /\ p.head = q.head
      /\ \A s \in Slots(r) : /\ p.entry[s].tag = q.entry[s].tag
                             /\ p.entry[s].uop = q.entry[s].uop
      /\ Windowed(q, r) => Windowed(p, r)
  BY <1>1, <1>2, MarkKeeps
<1>. HIDE DEF p, r
<1>. DEFINE f == Freed(p, r, k)
            n == entryCounts[r] - k
<1>6. /\ f \in RingType(r) /\ f.count = p.count - k /\ f.tail = p.tail
      /\ \A s \in Slots(r) : /\ f.entry[s].tag = p.entry[s].tag
                             /\ f.entry[s].uop = p.entry[s].uop
      /\ \A s \in Slots(r) : Window(f, r, s) => Window(p, r, s)
      /\ Windowed(p, r) => Sound(f, r)
  BY <1>1, <1>3, <1>5, FreedKeeps
<1>7. n \in Nat /\ n >= f.count /\ k \in Int
  BY <1>1, <1>2, <1>3, <1>5, <1>6
<1>. HIDE DEF f
<1>8. /\ ring'[r] = f /\ \A x \in Ring \ {r} : ring'[x] = ring[x]
      /\ ring' = [x \in Ring |-> ring'[x]]
  BY <1>1, <1>3 DEF f
<1>9. /\ entryCounts'[r] = n /\ \A x \in Ring \ {r} : entryCounts'[x] = entryCounts[x]
      /\ entryCounts' \in [Ring -> Nat]
  BY <1>1, <1>3, <1>7 DEF CountDown
<1>10. Base'
  <2>1. TypeOK'
    BY <1>1, <1>4, <1>6, <1>8, <1>9 DEF TypeOK
  <2>2. \A x \in Ring : ring'[x] # NULL => entryCounts'[x] >= ring'[x].count
    BY <1>1, <1>7, <1>8, <1>9 DEF Base
  <2>. QED  BY <1>1, <1>4, <1>8, <2>1, <2>2 DEF Base
<1>11. Live'
  <2>. SUFFICES ASSUME initOk
       PROVE  /\ \A x \in Ring : /\ ring'[x] # NULL /\ Sound(ring'[x], x)
                                 /\ entryCounts'[x] = ring'[x].count
              /\ meta' # NULL /\ ~fault'
    BY <1>4 DEF Live
  <2>1. /\ \A x \in Ring : /\ ring[x] # NULL /\ Sound(ring[x], x)
                           /\ entryCounts[x] = ring[x].count
        /\ ~fault
    BY DEF V72Inv, Live
  <2>2. f # NULL
    BY <1>1, <1>6 DEF NullAssumption
  <2>3. Sound(f, r) /\ n = f.count
    BY <1>1, <1>5, <1>6, <2>1 DEF Sound
  <2>. QED  BY <1>1, <1>4, <1>8, <1>9, <2>1, <2>2, <2>3
<1>12. Own'
  <2>. SUFFICES ASSUME initOk, ~spilled
       PROVE  /\ metaTail = ring'[Main].tail
              /\ \A s \in Slots(Main) : Window(ring'[Main], Main, s) =>
                   /\ ring'[Main].entry[s].tag = s
                   /\ meta[s].bank = Main /\ meta[s].slot = s
                   /\ meta[s].uop = ring'[Main].entry[s].uop
    BY <1>4 DEF Own, InWindow, Window
  <2>1. /\ metaTail = ring[Main].tail
        /\ \A s \in Slots(Main) : Window(ring[Main], Main, s) =>
             /\ ring[Main].entry[s].tag = s
             /\ meta[s].bank = Main /\ meta[s].slot = s
             /\ meta[s].uop = ring[Main].entry[s].uop
    BY DEF V72Inv, Own, InWindow, Window
  <2>2. CASE r = Main
    <3>1. \A s \in Slots(Main) : Window(p, Main, s) => Window(ring[Main], Main, s)
      BY <1>5, <2>2 DEF Window
    <3>. QED  BY <1>5, <1>6, <1>8, <2>1, <2>2, <3>1
  <2>3. CASE r # Main
    <3>1. ring'[Main] = ring[Main]
      BY <1>8, <2>3, Names
    <3>. QED  BY <2>1, <3>1
  <2>. QED  BY <2>2, <2>3
<1>. QED  BY <1>10, <1>11, <1>12 DEF V72Inv

\* A fault changes nothing else, and a sound buffer has none.
LEMMA FaultKeeps ==
  ASSUME V72Inv, Fault, ~initOk
  PROVE  V72Inv'
<1>1. TypeOK'
  BY DEF V72Inv, Base, TypeOK, Fault
<1>. QED  BY <1>1 DEF V72Inv, Base, Live, Own, Fault

LEMMA StepV72 ==
  ASSUME V72Assumption, NullAssumption, V72Inv, [Next]_vars
  PROVE  V72Inv'
<1>. USE V72Assumption, NullAssumption, V72Inv
<1>1. initOk => meta # NULL /\ \A r \in Ring : ring[r] # NULL
  BY DEF V72Inv, Live
<1>2. nextExtBank \in Ext /\ spilled \in BOOLEAN /\ Base
  BY DEF V72Inv, Base, TypeOK
<1>3. CASE V72RobDistributorInit
  BY <1>3, InitSucceedsKeeps, InitFailsKeeps DEF V72RobDistributorInit
<1>4. CASE AllocateMain
  <2>1. CASE meta = NULL
    BY <1>1, <1>4, <2>1, FaultKeeps DEF AllocateMain
  <2>2. CASE meta # NULL
    <3>1. ring[Main] # NULL /\ entryCounts[Main] < MainEntries
      BY <1>4 DEF AllocateMain, Callable, MainHasRoom
    <3>2. ring[Main].count \in Nat /\ ring[Main].count <= entryCounts[Main]
          /\ entryCounts[Main] \in Nat /\ MainEntries \in Nat
      BY <1>2, <3>1, RingTyped, Names DEF Base, TypeOK, V72Assumption
    <3>3. ring[Main].count < Size(Main)
      BY <3>1, <3>2, Names
    <3>. QED  BY <1>2, <1>4, <2>2, <3>1, <3>3, Names, AllocateInKeeps DEF AllocateMain
  <2>. QED  BY <2>1, <2>2
<1>5. CASE AllocateSpill
  <2>1. PICK i \in Ext :
          /\ ~ExtFull(ScanExt(i))
          /\ IF ring[ScanExt(i)] = NULL \/ meta = NULL
             THEN Fault
             ELSE /\ nextExtBank' = (ScanExt(i) + 1) % ExtBanks
                  /\ spilled' = TRUE
                  /\ AllocateIn(ScanExt(i))
    BY <1>5 DEF AllocateSpill
  <2>. DEFINE r == ScanExt(i)
  <2>2. r \in Ext
    <3>1. ExtBanks \in Nat \ {0} /\ nextExtBank + i \in Int
      BY <1>2 DEF V72Assumption, Ext
    <3>2. (nextExtBank + i) % ExtBanks \in 0 .. ExtBanks - 1
      BY <3>1, SMT
    <3>. QED  BY <3>2 DEF ScanExt, Ext
  <2>. HIDE DEF r
  <2>3. CASE ring[r] = NULL \/ meta = NULL
    <3>1. Fault
      BY <2>1, <2>3 DEF r
    <3>. QED  BY <1>1, <2>2, <2>3, <3>1, Names, FaultKeeps
  <2>4. CASE ring[r] # NULL /\ meta # NULL
    <3>1. nextExtBank' = (r + 1) % ExtBanks /\ spilled' = TRUE /\ AllocateIn(r)
      BY <2>1, <2>4 DEF r
    <3>2. nextExtBank' \in Ext
      <4>1. ExtBanks \in Nat \ {0} /\ r + 1 \in Int
        BY <2>2 DEF V72Assumption, Ext
      <4>2. (r + 1) % ExtBanks \in 0 .. ExtBanks - 1
        BY <4>1, SMT
      <4>. QED  BY <3>1, <4>2 DEF Ext
    <3>3. r \in Ring /\ ring[r].count < Size(r)
      <4>1. ~(ring[r].count >= ExtEntries) /\ r \in Ring /\ Size(r) = ExtEntries
        BY <2>1, <2>2, <2>4, Names DEF ExtFull, r
      <4>2. ring[r].count \in Nat /\ ExtEntries \in Nat
        BY <1>2, <2>4, <4>1, RingTyped DEF V72Assumption
      <4>. QED  BY <4>1, <4>2
    <3>. QED  BY <2>4, <3>1, <3>2, <3>3, AllocateInKeeps
  <2>. QED  BY <2>3, <2>4
<1>6. CASE AllocateStall
  <2>1. UNCHANGED <<ring, meta, entryCounts, metaTail, nextExtBank,
                    totalAllocations, totalRetirements, inits, initOk, spilled, fault>>
    BY <1>6 DEF AllocateStall
  <2>2. TypeOK'
    BY <1>2, <2>1 DEF Base, TypeOK
  <2>. QED  BY <2>1, <2>2 DEF V72Inv, Base, Live, Own, InWindow
<1>7. ASSUME NEW t \in Tag, V72RobRetireEntry(t)
      PROVE  V72Inv'
  <2>1. CASE meta = NULL
    BY <1>1, <1>7, <2>1, FaultKeeps DEF V72RobRetireEntry
  <2>2. CASE meta # NULL
    BY <1>7, <2>2, RetireKeeps
  <2>. QED  BY <2>1, <2>2
<1>8. CASE UNCHANGED vars
  <2>1. TypeOK'
    BY <1>2, <1>8 DEF Base, TypeOK, vars
  <2>. QED  BY <1>8, <2>1 DEF V72Inv, Base, Live, Own, InWindow, vars
<1>. QED  BY <1>3, <1>4, <1>5, <1>6, <1>7, <1>8 DEF Next

-------------------------------------------------------------------------------
(* What follows                                                            *)

LEMMA SpecV72 ==
  ASSUME V72Assumption, NullAssumption
  PROVE  Spec => []V72Inv
<1>1. Init => V72Inv
  BY InitV72
<1>2. V72Inv /\ [Next]_vars => V72Inv'
  BY StepV72
<1>. QED  BY <1>1, <1>2, PTL DEF Spec

\* Rings, tables and counters keep their types, also after an initialisation that
\* failed half way and left some of them from an earlier one.
THEOREM TypesAlways ==
  ASSUME V72Assumption, NullAssumption
  PROVE  Spec => []TypeOK
<1>1. V72Inv => TypeOK
  BY DEF V72Inv, Base
<1>. QED  BY <1>1, SpecV72, PTL

\* While nothing has spilled, the tag of every entry in flight leads back to it.
THEOREM MetadataOwned ==
  ASSUME V72Assumption, NullAssumption
  PROVE  Spec => []UnspilledMetadata
<1>1. V72Inv => UnspilledMetadata
  BY DEF V72Inv, Own, UnspilledMetadata, PointsBack
<1>. QED  BY <1>1, SpecV72, PTL

\* The window of a ring has as many slots as the ring counts.
LEMMA WindowSize ==
  ASSUME V72Assumption, NEW r \in Ring, ring[r] \in RingType(r)
  PROVE  Cardinality({s \in Slots(r) : InWindow(r, s)}) = ring[r].count
<1>. DEFINE n == Size(r)
            h == ring[r].head
            c == ring[r].count
            S == 0 .. c - 1
            W == {s \in Slots(r) : InWindow(r, s)}
            At(i) == (h + i) % n
            a == [i \in S |-> At(i)]
<1>1. /\ n \in Nat \ {0} /\ Slots(r) = 0 .. n - 1
      /\ h \in 0 .. n - 1 /\ c \in 0 .. n
  BY Sizes DEF RingType
<1>. HIDE DEF n, h, c
<1>2. ASSUME NEW i \in S
      PROVE  At(i) \in W
  <2>1. i \in 0 .. n
    BY <1>1
  <2>2. At(i) \in Slots(r)
    BY <1>1, <2>1, Wrap
  <2>. QED  BY <2>2 DEF InWindow, n, h, c
<1>3. ASSUME NEW i \in S, NEW j \in S, At(i) = At(j)
      PROVE  i = j
  <2>1. i \in 0 .. n - 1 /\ j \in 0 .. n - 1
    BY <1>1
  <2>. QED  BY <1>1, <1>3, <2>1, Apart
<1>4. \A s \in W : \E i \in S : s = At(i)
  BY DEF InWindow, n, h, c
<1>. HIDE DEF At, S, W
<1>5. a \in Bijection(S, W)
  <2>1. a \in [S -> W]
    BY <1>2
  <2>2. \A i, j \in S : a[i] = a[j] => i = j
    BY <1>3
  <2>3. \A s \in W : \E i \in S : a[i] = s
    BY <1>4
  <2>. QED  BY <2>1, <2>2, <2>3 DEF Bijection, Injection, Surjection, IsInjective
<1>6. IsFiniteSet(S) /\ Cardinality(S) = c
  <2>1. IsFiniteSet(0 .. c - 1) /\ Cardinality(0 .. c - 1) = IF 0 > c - 1 THEN 0 ELSE c - 1 - 0 + 1
    BY <1>1, FS_Interval
  <2>. QED  BY <1>1, <2>1 DEF S
<1>7. ExistsBijection(S, W)
  BY <1>5 DEF ExistsBijection
<1>8. Cardinality(W) = Cardinality(S)
  BY <1>6, <1>7, FS_Bijection
<1>. QED  BY <1>6, <1>8 DEF W, c

\* After a successful initialisation the windows stay sound whatever tags are
\* retired, the two counters of a ring agree with each other and with its window,
\* and callers are told the sum of the windows.
THEOREM RingsAlways ==
  ASSUME V72Assumption, NullAssumption
  PROVE  Spec => []RingsConsistent
<1>1. V72Inv => RingWindows /\ RingHeadPending /\ NoFaultAfterInit
  BY DEF V72Inv, Live, Sound, Windowed, Window, RingWindows, RingHeadPending,
         NoFaultAfterInit, InWindow
<1>2. V72Inv => CountsAgree
  <2>. SUFFICES ASSUME V72Inv, initOk
       PROVE  /\ \A r \in Ring : entryCounts[r] = ring[r].count
              /\ V72RobGetActiveCount =
                   SumFunction([r \in Ring |->
                                  Cardinality({s \in Slots(r) : InWindow(r, s)})])
    BY DEF CountsAgree
  <2>1. \A r \in Ring : ring[r] # NULL /\ entryCounts[r] = ring[r].count
    BY DEF V72Inv, Live
  <2>2. \A r \in Ring : Cardinality({s \in Slots(r) : InWindow(r, s)}) = ring[r].count
    BY <2>1, RingTyped, WindowSize DEF V72Inv
  <2>. DEFINE size(r) == Cardinality({s \in Slots(r) : InWindow(r, s)})
  <2>. HIDE DEF size
  <2>3. \A r \in Ring : ring[r].count = size(r)
    BY <2>2 DEF size
  <2>4. {x \in Ring : ring[x] # NULL} = Ring
    BY <2>1
  <2>5. [r \in {x \in Ring : ring[x] # NULL} |-> ring[r].count] = [r \in Ring |-> size(r)]
    BY <2>3, <2>4
  <2>6. V72RobGetActiveCount =
          SumFunction([r \in {x \in Ring : ring[x] # NULL} |-> ring[r].count])
    BY <2>1, Names DEF V72RobGetActiveCount
  <2>7. V72RobGetActiveCount = SumFunction([r \in Ring |-> size(r)])
    BY <2>5, <2>6
  <2>. QED  BY <2>1, <2>7 DEF size
<1>3. V72Inv => RingsConsistent
  BY <1>1, <1>2 DEF RingsConsistent
<1>. QED  BY <1>3, SpecV72, PTL

===============================================================================
