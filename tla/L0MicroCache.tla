----------------------------- MODULE L0MicroCache -----------------------------
(***************************************************************************)
(* The private L0 micro-caches, performance/l0cache/l0microcache.c: one    *)
(* direct-mapped cache of Lines lines per execution unit.  A miss of       *)
(* either kind installs the line filled with zeros.  L0CacheWrite changes  *)
(* the cache and nothing else; there is no L1 behind it in the code.       *)
(*                                                                         *)
(* An address is a tag, a line index and an offset.  An access of n bytes  *)
(* that does not fit in its line is counted, and installs the line, but    *)
(* copies nothing.  Dirty is never set and is left out.  MaxAccesses and   *)
(* MaxInits bound the calls.                                               *)
(***************************************************************************)
EXTENDS Integers, FiniteSets

CONSTANTS
  MaxUnits,      \* L0_MAX_UNITS
  Lines,         \* L0_CACHE_LINES
  LineSize,      \* L0_LINE_SIZE
  Tags, Values,  \* values are not 0
  Sizes,         \* sizes of accesses
  MaxAccesses, MaxInits,
  NULL

Unit   == 0 .. MaxUnits - 1
Index  == 0 .. Lines - 1
Offset == 0 .. LineSize - 1

L0Assumption ==
  /\ MaxUnits \in Nat /\ Lines \in Nat \ {0} /\ LineSize \in Nat \ {0}
  /\ Tags # {} /\ 0 \notin Values /\ Sizes \subseteq Nat \ {0}

VARIABLES
  activeUnits,   \* gL0ActiveUnits
  cache,         \* gL0Caches: NULL, or lines and statistics
  inits,
  wrote          \* <<unit, tag, index, offset, value>>: what each unit last
                 \* wrote to an address since the initialisation

vars == <<activeUnits, cache, inits, wrote>>

ZeroLine(t) == [valid |-> TRUE, tag |-> t, data |-> [o \in Offset |-> 0]]

EmptyCache(t) ==
  [line |-> [i \in Index |-> [ZeroLine(t) EXCEPT !.valid = FALSE]],
   accesses |-> 0, hits |-> 0, misses |-> 0, writes |-> 0]

AnyTag == CHOOSE t \in Tags : TRUE

-------------------------------------------------------------------------------

Init ==
  /\ activeUnits = 0
  /\ cache = [u \in Unit |-> NULL]
  /\ inits = 0 /\ wrote = {}

\* Mutant of Clamped: the request is not limited.
ClampedNot(n) == n

Clamped(n) == IF n > MaxUnits THEN MaxUnits ELSE n

\* The call asks for n units and the allocation of unit f fails (none if f is
\* not below n); the units after it stay NULL but count as active.
L0CacheInit(n, f) ==
  /\ inits < MaxInits
  /\ activeUnits' = Clamped(n)
  /\ cache' = [u \in Unit |-> IF u < Clamped(n) /\ u < f THEN EmptyCache(AnyTag)
                                                         ELSE NULL]
  /\ inits' = inits + 1
  /\ wrote' = {}

\* All units.
L0CacheV71Init(f) == L0CacheInit(MaxUnits, f)

\* The status check of a read and a write, and the test of an invalidation.
Ready(u) == u < activeUnits /\ cache[u] # NULL

Matches(l, t) == l.valid /\ l.tag = t

\* Mutant of Installed: the bytes of the line that was there stay.
InstalledDirty(l, t) == [l EXCEPT !.valid = TRUE, !.tag = t]

\* The line that replaces l on a miss of tag t.
Installed(l, t) == ZeroLine(t)

Fits(o, n) == n <= LineSize - o

Bytes(o, n) == {b \in Offset : Fits(o, n) /\ b >= o /\ b < o + n}

\* Mutant of CountRead: a miss is also counted as a hit.
CountReadTwice(c, hit) ==
  [c EXCEPT !.accesses = @ + 1, !.hits = @ + 1,
            !.misses = IF hit THEN @ ELSE @ + 1]

CountRead(c, hit) ==
  [c EXCEPT !.accesses = @ + 1,
            !.hits = IF hit THEN @ + 1 ELSE @,
            !.misses = IF hit THEN @ ELSE @ + 1]

\* What a read copies out is the line it leaves, if the bytes fit.
L0CacheRead(u, t, i) ==
  /\ Ready(u) /\ cache[u].accesses < MaxAccesses
  /\ LET l == cache[u].line[i]
         hit == Matches(l, t)
         line == IF hit THEN l ELSE Installed(l, t)
     IN  cache' = [cache EXCEPT ![u] =
                     [CountRead(@, hit) EXCEPT !.line[i] = line]]
  /\ UNCHANGED <<activeUnits, inits, wrote>>

L0CacheWrite(u, t, i, o, n, v) ==
  /\ Ready(u) /\ cache[u].accesses < MaxAccesses
  /\ LET l == cache[u].line[i]
         line == IF Matches(l, t) THEN l ELSE Installed(l, t)
         stored == [b \in Offset |-> IF b \in Bytes(o, n) THEN v ELSE line.data[b]]
     IN  cache' = [cache EXCEPT ![u].line[i] = [line EXCEPT !.data = stored],
                                ![u].accesses = @ + 1, ![u].writes = @ + 1]
  /\ wrote' = {w \in wrote : ~(<<w[1], w[2], w[3]>> = <<u, t, i>>
                                /\ w[4] \in Bytes(o, n))}
                \cup {<<u, t, i, b, v>> : b \in Bytes(o, n)}
  /\ UNCHANGED <<activeUnits, inits>>

\* Mutant of Holders: the loop stops at the first unit that holds the line.
HoldersFirst(t, i) ==
  {u \in Unit : /\ Ready(u) /\ Matches(cache[u].line[i], t)
                /\ \A w \in 0 .. u - 1 :
                     Ready(w) => ~Matches(cache[w].line[i], t)}

Holders(t, i) == {u \in Unit : Ready(u) /\ Matches(cache[u].line[i], t)}

L0CacheInvalidate(t, i) ==
  /\ cache' = [u \in Unit |->
        IF u \in Holders(t, i) THEN [cache[u] EXCEPT !.line[i].valid = FALSE]
                               ELSE cache[u]]
  /\ UNCHANGED <<activeUnits, inits, wrote>>

Next ==
  \/ \E n \in 0 .. MaxUnits + 1, f \in 0 .. MaxUnits : L0CacheInit(n, f)
  \/ \E f \in 0 .. MaxUnits : L0CacheV71Init(f)
  \/ \E u \in Unit, t \in Tags, i \in Index : L0CacheRead(u, t, i)
  \/ \E u \in Unit, t \in Tags, i \in Index, o \in Offset, n \in Sizes :
       \E v \in Values : L0CacheWrite(u, t, i, o, n, v)
  \/ \E t \in Tags, i \in Index : L0CacheInvalidate(t, i)

Spec == Init /\ [][Next]_vars

-------------------------------------------------------------------------------

\* Every field has its type.
TypeOK ==
  /\ activeUnits \in 0 .. MaxUnits
  /\ \A u \in Unit : cache[u] # NULL =>
       /\ u < activeUnits
       /\ cache[u].line \in [Index -> [valid : BOOLEAN, tag : Tags,
                                       data : [Offset -> Values \cup {0}]]]

\* Lines come and go, but a unit never reads bytes of one address at another:
\* a byte of a valid line is zero or what the unit last wrote there.
NoForeignBytes ==
  \A u \in Unit : cache[u] # NULL => \A i \in Index : \A o \in Offset :
    LET l == cache[u].line[i]
    IN  l.valid /\ l.data[o] # 0 => <<u, l.tag, i, o, l.data[o]>> \in wrote

\* Every access counted is exactly one of hit, miss and write.
StatisticsAddUp ==
  \A u \in Unit : cache[u] # NULL =>
    cache[u].accesses = cache[u].hits + cache[u].misses + cache[u].writes

\* After an invalidation no unit hits on the address, also when the last
\* initialisation stopped half way through the units.
InvalidateReachesAll ==
  [][\A t \in Tags, i \in Index : L0CacheInvalidate(t, i) =>
       \A u \in Unit : cache'[u] # NULL => ~Matches(cache'[u].line[i], t)]_vars

\* The header's "write-through policy: writes go to L0 + L1": a line that was
\* displaced comes back with what was written to it.  So what a hit of a unit
\* returns is what the unit last wrote there.
HitReturnsLastWrite ==
  \A u \in Unit : cache[u] # NULL => \A i \in Index : \A o \in Offset :
    LET l == cache[u].line[i]
    IN  \A v \in Values :
          l.valid /\ <<u, l.tag, i, o, v>> \in wrote => l.data[o] = v

===============================================================================
