--------------------------- MODULE MemoryCompressor ---------------------------
(***************************************************************************)
(* The memory-link compressor, performance/bwgov/memorycompressor.c:       *)
(* target ratios set by a workload pattern, and byte and line counters of  *)
(* the reads and writes made under them.                                   *)
(*                                                                         *)
(* Ratios are in tenths.  A compressed size is the size divided by the     *)
(* ratio, cut to an integer; the rounding of the division in double        *)
(* precision is left out.  MaxBytes bounds the bytes of each direction.    *)
(***************************************************************************)
EXTENDS Integers

CONSTANTS
  LineSize,       \* HMC_CACHE_LINE_SIZE
  TargetRatios,   \* ratios, in tenths, passed to the initialisation
  PhysicalBw,     \* the physical bandwidth passed to it
  Sizes,          \* sizes of accesses
  MaxBytes,
  NULL

MinRatio    == 10   \* HMC_MIN_RATIO
V72Ratio    == 30   \* V72_COMPRESSION_RATIO
V72Effective == 1920  \* V72_EFFECTIVE_BW

\* The only call of the initialisation passes 64.0, of which V72_EFFECTIVE_BW is
\* V72_COMPRESSION_RATIO times.
CompressorAssumption ==
  /\ LineSize \in Nat \ {0} /\ TargetRatios \subseteq Nat
  /\ PhysicalBw \in Nat /\ PhysicalBw * V72Ratio = V72Effective
  /\ Sizes \subseteq Nat /\ MaxBytes \in Nat

VARIABLES
  gMemComp,   \* NULL, or the structure
  least       \* the smallest ratio in force since the initialisation

compressorVars == <<gMemComp, least>>

Dir == {"read", "write"}

Compressor ==
  [Ratio : Nat, PeakPhysical : Nat, PeakEffective : Nat,   \* effective in tenths
   Raw : [Dir -> Nat], Compressed : [Dir -> Nat], Lines : [Dir -> Nat],
   Latency : Nat]

PatternRatio ==
  [HmcPatternGeneric |-> 15, HmcPatternVideoEncoding |-> 18,
   HmcPatternOlapScan |-> 20, HmcPatternDlTraining |-> 22]

AtMost(a, b) == IF a < b THEN a ELSE b

-------------------------------------------------------------------------------

Init == gMemComp = NULL /\ least = 0

\* Mutant of Clamped: the target is taken as it is given.
ClampedNot(r) == r

Clamped(r) == IF r < MinRatio THEN MinRatio ELSE r

MemoryCompressorInit(r) ==
  \/ gMemComp' = NULL /\ least' = 0
  \/ LET none == [d \in Dir |-> 0]
     IN  /\ gMemComp' =
              [Ratio |-> Clamped(r), PeakPhysical |-> PhysicalBw,
               PeakEffective |-> PhysicalBw * Clamped(r),
               Raw |-> none, Compressed |-> none, Lines |-> none, Latency |-> 0]
         /\ least' = Clamped(r)

CompressedSize(n) == (n * 10) \div gMemComp.Ratio

\* Mutant of LinesOf: a part of a line at the end is not counted.
LinesOfShort(n) == n \div LineSize

LinesOf(n) == (n + LineSize - 1) \div LineSize

\* MemoryCompressorRead and MemoryCompressorWrite.
Access(d, n) ==
  /\ gMemComp # NULL /\ gMemComp.Raw[d] + n <= MaxBytes
  /\ gMemComp' = [gMemComp EXCEPT
        !.Raw[d] = @ + n, !.Compressed[d] = @ + CompressedSize(n),
        !.Lines[d] = @ + LinesOf(n),
        !.Latency = @ + (IF d = "read" THEN LinesOf(n) ELSE 0)]
  /\ UNCHANGED least

MemoryCompressorWrite(n) == Access("write", n)
MemoryCompressorRead(n)  == Access("read", n)

\* Mutant of Retarget: the peak keeps its value.
RetargetRatio(r, peak) == gMemComp' = [gMemComp EXCEPT !.Ratio = r]

Retarget(r, peak) ==
  gMemComp' = [gMemComp EXCEPT !.Ratio = r, !.PeakEffective = peak]

MemoryCompressorSetWorkloadPattern(p) ==
  /\ gMemComp # NULL
  /\ Retarget(PatternRatio[p], gMemComp.PeakPhysical * PatternRatio[p])
  /\ least' = AtMost(least, PatternRatio[p])

MemoryCompressorV72Init ==
  /\ gMemComp # NULL
  /\ Retarget(V72Ratio, V72Effective)
  /\ least' = AtMost(least, V72Ratio)

Next ==
  \/ \E r \in TargetRatios : MemoryCompressorInit(r)
  \/ \E n \in Sizes : MemoryCompressorWrite(n)
  \/ \E n \in Sizes : MemoryCompressorRead(n)
  \/ \E p \in DOMAIN PatternRatio : MemoryCompressorSetWorkloadPattern(p)
  \/ MemoryCompressorV72Init

Spec == Init /\ [][Next]_compressorVars

TotalRaw        == gMemComp.Raw["read"] + gMemComp.Raw["write"]
TotalCompressed == gMemComp.Compressed["read"] + gMemComp.Compressed["write"]

MemoryCompressorV72GetEffectiveBW == V72Effective

\* MemoryCompressorGetBandwidth reports PeakPhysical * TotalRaw /
\* TotalCompressed; AtLeast(r) says that this is at least r tenths of the
\* physical bandwidth.
AtLeast(r) == TotalCompressed > 0 => TotalRaw * 10 >= r * TotalCompressed

-------------------------------------------------------------------------------

\* The compressor has its type.
TypeOK == gMemComp # NULL => gMemComp \in Compressor

\* However the ratio changes between accesses, the bandwidth the compressor
\* reports is at least that of the smallest ratio in force, so never below the
\* physical bandwidth.
ReportCoversTarget ==
  gMemComp # NULL => AtLeast(least) /\ AtLeast(MinRatio)

\* The peak effective bandwidth is that of the ratio in force, also where v7.2
\* sets both from constants and reports its own.
PeakFollowsRatio ==
  gMemComp # NULL =>
    /\ gMemComp.PeakEffective = gMemComp.PeakPhysical * gMemComp.Ratio
    /\ gMemComp.Ratio = V72Ratio =>
         gMemComp.PeakEffective = MemoryCompressorV72GetEffectiveBW

\* The lines counted hold the bytes counted, and reads have been charged one
\* cycle for each of theirs.
LinesHoldBytes ==
  gMemComp # NULL =>
    /\ \A d \in Dir : gMemComp.Lines[d] * LineSize >= gMemComp.Raw[d]
    /\ gMemComp.Latency = gMemComp.Lines["read"]

===============================================================================
