------------------------------- MODULE CpuidSpoof -------------------------------
(***************************************************************************)
(* The answers to CPUID, hwcompat/cpuid/cpuidspoof.c: a table of overrides *)
(* filled once from the processor, and the look-up behind the protocol's   *)
(* HandleCpuid.                                                            *)
(*                                                                         *)
(* The processor is the record cpu.  An answer is abstracted to where it   *)
(* comes from and to the feature bits the firmware touches; leaves 0x400.. *)
(* and 0x800.. start at HvBase and ExtBase.                                 *)
(***************************************************************************)
EXTENDS Integers, Sequences

CONSTANTS
  HvBase, ExtBase,   \* 0x40000000 and 0x80000000
  HvLast,            \* 0x4FFFFFFF
  HvLeaves,          \* how many leaves of the hypervisor range are looked up
  MaxOverrides       \* MAX_CPUID_OVERRIDES

VARIABLES
  cpu,             \* the processor: see Cpu
  gCpuidOverrides  \* the first gCpuidOverrideCount entries

\* The ranges do not overlap, and there is room up to the second extended leaf
\* whatever the processor counts.
SpoofAssumption ==
  /\ HvBase \in Nat /\ 36 < HvBase /\ ExtBase \in Nat
  /\ HvLast \in Nat /\ HvBase + 5 <= HvLast /\ HvLast < ExtBase
  /\ MaxOverrides \in Nat /\ MaxOverrides >= 29

\* std and ext: the highest leaf of each range (ext -1: no extended leaves);
\* caches: the types of the subleaves of leaf 4; levels: the counts of threads
\* and cores of leaf 0x0B; states: the subleaves of leaf 0x0D that are not zero;
\* flags: the feature bits; ht: the logical processors of leaf 1.
Cpu ==
  [std : 0 .. HvBase - 1, ext : {-1} \cup Nat,
   caches : Seq(0 .. 3), levels : Seq(Nat), states : Nat \ {0},
   flags : SUBSET {"VMX", "HV", "PDCM", "SVM"}, ht : Nat, l3Mb : Nat,
   vendor : {"Intel", "Amd", "Unknown"}, paging : BOOLEAN,
   locked : BOOLEAN, outside : BOOLEAN]

\* The feature bits each leaf carries.
FlagsOf(l) ==
  CASE l = 1 -> {"VMX", "HV", "PDCM"} [] l = ExtBase + 1 -> {"SVM"} [] OTHER -> {}

Answer(from, l, s, flags) == [from |-> from, leaf |-> l, sub |-> s, flags |-> flags]

\* The leaves with a handler of their own, and all leaves whose answer depends on
\* the subleaf.
HandledApart == {4, 7, 11, 13}
Indexed == HandledApart \cup {15, 16, 18, 20, 23, 24, 27, 29, 30, 31, 32, 35, 36}
             \cup {ExtBase + 29, ExtBase + 32, ExtBase + 38}

\* AsmCpuidEx.
Processor(l, s) ==
  Answer("processor", l, IF l \in Indexed THEN s ELSE 0, cpu.flags \cap FlagsOf(l))

\* AsmCpuid asks for no subleaf: the processor takes what ECX happens to hold.
Stray == -1

AsmCpuid(l) == Processor(l, Stray)

Override(l, s, a) == [Leaf |-> l, Subleaf |-> s, Answer |-> a]

-------------------------------------------------------------------------------

\* The bits PopulateLeaf01 sets and clears.
Forced(flags) == (flags \cup {"VMX", "HV"}) \ {"PDCM"}

PopulateLeaf01 ==
  <<Override(1, 0, Answer("processor", 1, 0, Forced(AsmCpuid(1).flags)))>>

\* The type of a cache; zero ends the list.
CacheType(s) == IF s + 1 \in DOMAIN cpu.caches THEN cpu.caches[s + 1] ELSE 0

\* The first of the five subleaves that is no cache, and 5 if there is none.
LastCache == CHOOSE n \in 0 .. 5 : /\ n = 5 \/ CacheType(n) = 0
                                   /\ \A s \in 0 .. n - 1 : CacheType(s) # 0

\* Third-level caches get the firmware's geometry, and a processor with three
\* caches gets a fourth.
PopulateLeaf04 ==
  LET entry(s) == Override(4, s, IF CacheType(s) \in {0, 3}
                                 THEN Answer("firmware", 4, s, {}) ELSE Processor(4, s))
  IN  [i \in 1 .. (IF LastCache = 3 THEN 4 ELSE LastCache) |-> entry(i - 1)]

PopulateLeaf07 == <<Override(7, 0, Processor(7, 0))>>

\* The levels of the topology, with the one that ends them; at most four.
PopulateLeaf0B ==
  [i \in 1 .. (IF Len(cpu.levels) < 4 THEN Len(cpu.levels) + 1 ELSE 4) |->
     Override(11, i - 1, Processor(11, i - 1))]

\* The first ten subleaves up to one that is zero.
PopulateLeaf0D ==
  [i \in 1 .. (IF cpu.states < 10 THEN cpu.states ELSE 10) |->
     Override(13, i - 1, Processor(13, i - 1))]

PopulateHypervisorLeaves ==
  [i \in 1 .. 6 |-> Override(HvBase + i - 1, 0, Answer("firmware", HvBase + i - 1, 0, {}))]

PopulateExtendedLeaves ==
  [i \in 1 .. cpu.ext + 1 |->
     LET l == ExtBase + i - 1
         a == AsmCpuid(l)
     IN  Override(l, 0, IF i = 2 THEN [a EXCEPT !.flags = @ \cup {"SVM"}] ELSE a)]

\* Mutant of PopulateOtherLeaves: leaf 4 is filled here as well.
PopulateOtherLeavesAll ==
  LET upTo[l \in 0 .. cpu.std] ==
        IF l < 2 THEN <<>>
        ELSE IF l \in HandledApart \ {4} THEN upTo[l - 1]
        ELSE Append(upTo[l - 1], Override(l, 0, AsmCpuid(l)))
  IN  upTo[cpu.std]

\* From leaf 2 on.
PopulateOtherLeaves ==
  LET upTo[l \in 0 .. cpu.std] ==
        IF l < 2 THEN <<>>
        ELSE IF l \in HandledApart THEN upTo[l - 1]
        ELSE Append(upTo[l - 1], Override(l, 0, AsmCpuid(l)))
  IN  upTo[cpu.std]

\* AddOverride drops what no longer fits.
AddOverrides(all) ==
  SubSeq(all, 1, IF Len(all) < MaxOverrides THEN Len(all) ELSE MaxOverrides)

CpuidSpoofInit ==
  gCpuidOverrides' =
    AddOverrides(PopulateLeaf01 \o PopulateLeaf04 \o PopulateLeaf07 \o PopulateLeaf0B
                   \o PopulateLeaf0D \o PopulateHypervisorLeaves
                   \o PopulateExtendedLeaves \o PopulateOtherLeaves)

\* The ranges that answer zero when the table has nothing for them.
Blank(l) ==
  \/ l > HvBase /\ l <= HvLast
  \/ l >= ExtBase + 9 /\ l <= ExtBase + 24 /\ l # ExtBase + 10

CpuidSpoofHandler(l, s) ==
  LET hits == {i \in DOMAIN gCpuidOverrides :
                 gCpuidOverrides[i].Leaf = l /\ gCpuidOverrides[i].Subleaf = s}
  IN  IF hits # {}
      THEN gCpuidOverrides[CHOOSE i \in hits : \A j \in hits : i <= j].Answer
      ELSE IF Blank(l) THEN Answer("zero", l, s, {}) ELSE Processor(l, s)

===============================================================================
