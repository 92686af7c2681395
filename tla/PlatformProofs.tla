----------------------------- MODULE PlatformProofs -----------------------------
(***************************************************************************)
(* What Platform promises of the APIC, of the management handler and of    *)
(* the boot, for every value of their constants.                           *)
(***************************************************************************)
EXTENDS Platform, Sequences, WellFoundedInduction, TLAPS

-------------------------------------------------------------------------------
(* The highest vector                                                      *)

\* A non-empty set of natural numbers has a least one.
LEMMA Least ==
  ASSUME NEW t \in SUBSET Nat, t # {}
  PROVE  \E k \in t : \A l \in t : k <= l
<1>. DEFINE R == OpToRel(<, Nat)
<1>1. IsWellFoundedOn(R, Nat)
  BY NatLessThanWellFounded
<1>. HIDE DEF R
<1>2. PICK k \in t : \A l \in t : <<l, k>> \notin R
  BY <1>1, WFMin
<1>3. \A l \in t : ~(l < k)
  BY <1>2 DEF R, OpToRel
<1>. QED  BY <1>3

\* A non-empty set of numbers with a bound has a greatest one.
LEMMA Greatest ==
  ASSUME NEW n \in Nat, NEW s \in SUBSET (0 .. n), s # {}
  PROVE  \E m \in s : \A w \in s : w <= m
<1>. DEFINE t == {n - w : w \in s}
<1>1. t \in SUBSET Nat /\ t # {}
  <2>1. \A w \in s : n - w \in Nat
    OBVIOUS
  <2>. QED  BY <2>1
<1>2. PICK k \in t : \A l \in t : k <= l
  BY <1>1, Least
<1>3. PICK m \in s : k = n - m
  OBVIOUS
<1>4. ASSUME NEW w \in s
      PROVE  w <= m
  BY <1>2, <1>3, <1>4
<1>. QED  BY <1>4

\* The registers are disjoint intervals of the vectors, in order, and cover them.
LEMMA BitsCover ==
  ASSUME Apic!ApicAssumption
  PROVE  /\ \A i \in Apic!RegIndex : Apic!Bits(i) \subseteq Apic!Vector
         /\ \A v \in Apic!Vector : \E i \in Apic!RegIndex : v \in Apic!Bits(i)
         /\ \A i, j \in Apic!RegIndex : i < j => \A v \in Apic!Bits(i), w \in Apic!Bits(j) : v < w
         /\ 0 \in Apic!Vector /\ Regs * RegBits - 1 \in Nat
<1>. Regs \in Nat \ {0} /\ RegBits \in Nat \ {0}
  BY DEF Apic!ApicAssumption
<1>1. Regs * RegBits \in Nat /\ Regs * RegBits >= 1
  BY SMT
<1>2. ASSUME NEW i \in Apic!RegIndex
      PROVE  /\ i * RegBits \in Nat
             /\ i * RegBits + RegBits <= Regs * RegBits
  <2>1. i + 1 <= Regs /\ i \in Nat
    BY <1>2 DEF Apic!RegIndex
  <2>2. (i + 1) * RegBits <= Regs * RegBits
    BY <2>1, SMT
  <2>. QED  BY <2>1, <2>2, SMT
<1>3. \A i \in Apic!RegIndex : Apic!Bits(i) \subseteq Apic!Vector
  BY <1>1, <1>2 DEF Apic!Bits, Apic!Vector
<1>4. ASSUME NEW v \in Apic!Vector
      PROVE  \E i \in Apic!RegIndex : v \in Apic!Bits(i)
  <2>. DEFINE q == v \div RegBits
  <2>1. q \in Nat /\ q * RegBits <= v /\ v < (q + 1) * RegBits
    BY SMT DEF Apic!Vector
  <2>2. v < Regs * RegBits /\ v \in Nat
    BY <1>1 DEF Apic!Vector
  <2>. HIDE DEF q
  <2>3. q >= Regs => q * RegBits >= Regs * RegBits
    BY <2>1, SMT
  <2>4. q * RegBits \in Nat /\ (q + 1) * RegBits = q * RegBits + RegBits
    BY <2>1, SMT
  <2>5. q < Regs
    BY <1>1, <2>1, <2>2, <2>3, <2>4
  <2>6. q \in Apic!RegIndex /\ v \in Apic!Bits(q)
    BY <2>1, <2>2, <2>4, <2>5 DEF Apic!RegIndex, Apic!Bits
  <2>. QED  BY <2>6
<1>5. ASSUME NEW i \in Apic!RegIndex, NEW j \in Apic!RegIndex, i < j,
             NEW v \in Apic!Bits(i), NEW w \in Apic!Bits(j)
      PROVE  v < w
  <2>1. i + 1 <= j /\ i \in Nat /\ j \in Nat
    BY <1>5 DEF Apic!RegIndex
  <2>2. (i + 1) * RegBits <= j * RegBits
    BY <2>1, SMT
  <2>3. (i + 1) * RegBits = i * RegBits + RegBits
    BY <2>1, SMT
  <2>4. i * RegBits \in Nat /\ j * RegBits \in Nat
    BY <1>2
  <2>. QED  BY <2>2, <2>3, <2>4 DEF Apic!Bits
<1>6. 0 \in Apic!Vector /\ Regs * RegBits - 1 \in Nat
  BY <1>1 DEF Apic!Vector
<1>. QED  BY <1>3, <1>4, <1>5, <1>6

LEMMA VectorsAreNumbers == \A v \in Apic!Vector : v \in Int
BY DEF Apic!Vector

\* What the scan of the registers and the scan of the bits find together is the
\* greatest vector of the set.
LEMMA TopIsGreatest ==
  ASSUME Apic!ApicAssumption, NEW s \in SUBSET Apic!Vector, s # {}
  PROVE  Apic!Top(s) \in s /\ \A w \in s : w <= Apic!Top(s)
<1>. DEFINE k == Apic!TopRegister(s)
<1>1. k \in Apic!RegIndex /\ s \cap Apic!Bits(k) # {}
      /\ \A j \in Apic!RegIndex : j > k => s \cap Apic!Bits(j) = {}
  <2>. DEFINE used == {i \in Apic!RegIndex : s \cap Apic!Bits(i) # {}}
  <2>1. used # {}
    BY BitsCover
  <2>2. Regs - 1 \in Nat /\ used \in SUBSET (0 .. Regs - 1)
    BY DEF Apic!ApicAssumption, Apic!RegIndex
  <2>3. PICK m \in used : \A j \in used : j <= m
    BY <2>1, <2>2, Greatest
  <2>4. \A j \in Apic!RegIndex : j > m => s \cap Apic!Bits(j) = {}
    BY <2>3 DEF Apic!RegIndex
  <2>. QED  BY <2>3, <2>4 DEF Apic!TopRegister
<1>. HIDE DEF k
<1>. DEFINE r == s \cap Apic!Bits(k)
<1>2. Apic!Top(s) \in r /\ \A w \in r : w <= Apic!Top(s)
  <2>1. r \in SUBSET (0 .. Regs * RegBits - 1) /\ r # {} /\ Regs * RegBits - 1 \in Nat
    BY <1>1, BitsCover DEF Apic!Vector
  <2>2. PICK m \in r : \A w \in r : w <= m
    BY <2>1, Greatest
  <2>. HIDE DEF r
  <2>3. Apic!TopBit(r) \in r /\ \A w \in r : w <= Apic!TopBit(r)
    BY <2>2 DEF Apic!TopBit
  <2>4. Apic!Top(s) = Apic!TopBit(r)
    BY DEF Apic!Top, k, r
  <2>. QED  BY <2>3, <2>4
<1>3. ASSUME NEW w \in s
      PROVE  w <= Apic!Top(s)
  <2>1. PICK j \in Apic!RegIndex : w \in Apic!Bits(j)
    BY BitsCover
  <2>2. ~(j > k)
    BY <1>1, <2>1
  <2>3. CASE j = k
    BY <1>2, <2>1, <2>3
  <2>4. CASE j < k
    <3>1. w < Apic!Top(s)
      BY <1>1, <1>2, <2>1, <2>4, BitsCover
    <3>2. w \in Apic!Vector /\ Apic!Top(s) \in Apic!Vector
      BY <1>2
    <3>3. w \in Int /\ Apic!Top(s) \in Int
      BY <3>2, VectorsAreNumbers
    <3>. QED  BY <3>1, <3>3
  <2>. QED  BY <1>1, <2>2, <2>3, <2>4 DEF Apic!RegIndex
<1>. QED  BY <1>2, <1>3

-------------------------------------------------------------------------------
(* The invariant                                                           *)

ApicInv == Apic!TypeOK /\ Apic!ApicSound

LEMMA InitApic ==
  ASSUME Apic!ApicAssumption, Apic!Init
  PROVE  ApicInv
BY DEF Apic!ApicAssumption, Apic!Init, Apic!Stopped, ApicInv, Apic!TypeOK, Apic!ApicSound, Apic!TimerRuns,
       Apic!NoSpuriousInterrupt

\* A tick lowers the count, reloads it from a count that is not zero or stops.
LEMMA TickApic ==
  ASSUME Apic!ApicAssumption, ApicInv, Apic!ApicShadowTimerTick
  PROVE  ApicInv'
<1>1. timer.enabled /\ timer.current > 0 /\ timer.current <= timer.initial
      /\ timer \in [enabled : BOOLEAN, initial : 0 .. MaxCount, current : 0 .. MaxCount]
      /\ MaxCount \in Nat
  BY DEF Apic!ApicAssumption, ApicInv, Apic!ApicSound, Apic!TimerRuns, Apic!TypeOK, Apic!ApicShadowTimerTick
<1>2. CASE timer.current > 1
  <2>1. timer' = [timer EXCEPT !.current = @ - 1] /\ UNCHANGED <<irr, owed>>
    BY <1>2 DEF Apic!ApicShadowTimerTick
  <2>2. timer.current - 1 \in 0 .. MaxCount /\ timer.current - 1 > 0
        /\ timer.current - 1 <= timer.initial
    BY <1>1, <1>2
  <2>3. timer' \in [enabled : BOOLEAN, initial : 0 .. MaxCount, current : 0 .. MaxCount]
        /\ timer'.current = timer.current - 1 /\ timer'.initial = timer.initial
    BY <1>1, <2>1, <2>2
  <2>. QED  BY <2>1, <2>2, <2>3 DEF ApicInv, Apic!ApicSound, Apic!TypeOK, Apic!TimerRuns,
                  Apic!NoSpuriousInterrupt, Apic!ApicShadowTimerTick
<1>3. CASE ~(timer.current > 1)
  <2>. DEFINE raised == {lvt.vector} \cap {v \in Apic!Vector : v >= MinTimerVector}
  <2>1. timer' = Apic!Expired /\ irr' = irr \cup raised /\ owed' = owed \cup raised
    BY <1>3 DEF Apic!ApicShadowTimerTick
  <2>2. raised \subseteq Apic!Vector
    OBVIOUS
  <2>. HIDE DEF raised
  <2>3. timer' \in [enabled : BOOLEAN, initial : 0 .. MaxCount, current : 0 .. MaxCount]
    <3>1. timer.initial \in 0 .. MaxCount /\ 0 \in 0 .. MaxCount
      BY <1>1
    <3>2. CASE lvt.periodic
      BY <1>1, <2>1, <3>1, <3>2 DEF Apic!Expired
    <3>3. CASE ~lvt.periodic
      BY <1>1, <2>1, <3>1, <3>3 DEF Apic!Expired
    <3>. QED  BY <3>2, <3>3
  <2>4. timer'.enabled => timer'.current > 0 /\ timer'.current <= timer'.initial
    BY <1>1, <2>1 DEF Apic!Expired
  <2>. QED  BY <2>1, <2>2, <2>3, <2>4 DEF ApicInv, Apic!ApicSound, Apic!TypeOK, Apic!TimerRuns,
                  Apic!NoSpuriousInterrupt, Apic!ApicShadowTimerTick
<1>. QED  BY <1>2, <1>3

\* An exit hands over a vector that was requested, or none.
LEMMA ExitApic ==
  ASSUME Apic!ApicAssumption, ApicInv, NEW flag \in BOOLEAN, Apic!VmExit(flag)
  PROVE  ApicInv'
<1>1. CASE irr = {}
  BY <1>1 DEF Apic!VmExit, ApicInv, Apic!ApicSound, Apic!TypeOK, Apic!TimerRuns, Apic!NoSpuriousInterrupt
<1>2. CASE irr # {}
  <2>1. Apic!Top(irr) \in irr /\ irr \subseteq Apic!Vector /\ NULL \notin Apic!Vector
    BY <1>2, TopIsGreatest DEF ApicInv, Apic!TypeOK, Apic!ApicAssumption
  <2>2. /\ irr' = irr \ {Apic!Top(irr)} /\ isr' = isr \cup {Apic!Top(irr)}
        /\ entry' \in {Apic!Top(irr), NULL} /\ owed' = owed \ {entry'}
        /\ UNCHANGED <<lvt, timer>>
    BY <1>2 DEF Apic!VmExit, Apic!Dequeued
  <2>. QED  BY <2>1, <2>2 DEF ApicInv, Apic!ApicSound, Apic!TypeOK, Apic!TimerRuns, Apic!NoSpuriousInterrupt
<1>. QED  BY <1>1, <1>2

\* Every handler keeps the invariant.
LEMMA NextApic ==
  ASSUME Apic!ApicAssumption, ApicInv, [Apic!Next]_Apic!vars
  PROVE  ApicInv'
<1>. USE DEF ApicInv, Apic!ApicSound, Apic!TypeOK, Apic!TimerRuns, Apic!NoSpuriousInterrupt
<1>1. CASE Apic!ApicShadowInit
  BY <1>1 DEF Apic!ApicAssumption, Apic!ApicShadowInit, Apic!Stopped
<1>2. ASSUME NEW v \in Apic!Vector, Apic!ApicShadowInjectInterrupt(v)
      PROVE  ApicInv'
  BY <1>2 DEF Apic!ApicShadowInjectInterrupt
<1>3. ASSUME NEW i \in Apic!RegIndex, NEW b \in SUBSET Apic!Bits(i), Apic!WriteIrr(i, b)
      PROVE  ApicInv'
  BY <1>3, BitsCover DEF Apic!WriteIrr
<1>4. ASSUME NEW i \in Apic!RegIndex, NEW b \in SUBSET Apic!Bits(i), Apic!WriteIsr(i, b)
      PROVE  ApicInv'
  BY <1>4, BitsCover DEF Apic!WriteIsr
<1>5. ASSUME NEW l \in Apic!Lvt, Apic!WriteLvt(l)
      PROVE  ApicInv'
  BY <1>5 DEF Apic!WriteLvt, Apic!Lvt
<1>6. ASSUME NEW n \in 0 .. MaxCount, Apic!WriteInitialCount(n)
      PROVE  ApicInv'
  <2>1. timer' = [enabled |-> n > 0 /\ ~lvt.masked, initial |-> n, current |-> n]
    BY <1>6 DEF Apic!WriteInitialCount
  <2>2. timer' \in [enabled : BOOLEAN, initial : 0 .. MaxCount, current : 0 .. MaxCount]
    BY <2>1
  <2>3. timer'.enabled => n > 0
    BY <2>1
  <2>. QED  BY <1>6, <2>1, <2>2, <2>3 DEF Apic!WriteInitialCount
<1>7. CASE Apic!ApicShadowEoi
  BY <1>7 DEF Apic!ApicShadowEoi
<1>8. CASE Apic!ApicShadowTimerTick
  BY <1>8, TickApic
<1>9. ASSUME NEW flag \in BOOLEAN, Apic!VmExit(flag)
      PROVE  ApicInv'
  BY <1>9, ExitApic
<1>10. CASE UNCHANGED Apic!vars
  BY <1>10 DEF Apic!vars
<1>. QED  BY <1>1, <1>2, <1>3, <1>4, <1>5, <1>6, <1>7, <1>8, <1>9, <1>10 DEF Apic!Next

-------------------------------------------------------------------------------

\* A step of the platform is a step of its APIC or leaves it alone.
LEMMA StepOfApic == [Next]_vars => [Apic!Next]_Apic!vars
<1>1. ApicStep => Apic!Next
  BY DEF ApicStep
<1>2. [Next]_vars => ApicStep \/ UNCHANGED apicVars
  BY DEF Next, vars, BootStep, Rest, ExitStep, ShadowStep, SmmStep, ServiceStep
<1>3. UNCHANGED apicVars => UNCHANGED Apic!vars
  BY DEF apicVars, Apic!vars
<1>. QED  BY <1>1, <1>2, <1>3

LEMMA ApicInvAlways == Spec => []ApicInv
<1>1. Apic!ApicAssumption
  BY PartsAssumption DEF PartsAssumption
<1>2. Init => ApicInv
  BY <1>1, InitApic DEF Init
<1>3. ApicInv /\ [Next]_vars => ApicInv'
  BY <1>1, NextApic, StepOfApic
<1>. QED  BY <1>2, <1>3, PTL DEF Spec

\* No sequence of register writes, ticks and exits leaves an enabled timer at
\* zero or makes an interrupt pending that was not requested.
THEOREM ApicAlways == Spec => []ApicSound
<1>1. ApicInv => ApicSound
  BY DEF ApicInv, ApicSound
<1>. QED  BY <1>1, ApicInvAlways, PTL

\* The vector an exit hands to the guest outranks every vector left pending.
THEOREM DeliveryOrder == Spec => HighestFirst
<1>1. ApicInv /\ [Next]_vars => [Apic!VmExit(TRUE) => \A w \in irr' : w < entry']_Apic!vars
  <2>. SUFFICES ASSUME ApicInv, Apic!VmExit(TRUE), NEW w \in irr'
                PROVE  w < entry'
    OBVIOUS
  <2>1. CASE irr = {}
    BY <2>1 DEF Apic!VmExit
  <2>2. CASE irr # {}
    <3>1. irr \in SUBSET Apic!Vector /\ Apic!ApicAssumption
      BY PartsAssumption DEF ApicInv, Apic!TypeOK, PartsAssumption
    <3>2. w \in irr /\ w # Apic!Top(irr) /\ entry' = Apic!Top(irr)
      BY <2>2 DEF Apic!VmExit, Apic!Dequeued
    <3>3. w <= Apic!Top(irr) /\ w \in Apic!Vector /\ Apic!Top(irr) \in Apic!Vector
      BY <2>2, <3>1, <3>2, TopIsGreatest
    <3>4. w \in Int /\ Apic!Top(irr) \in Int
      BY <3>1, <3>3, VectorsAreNumbers
    <3>. QED  BY <3>2, <3>3, <3>4
  <2>. QED  BY <2>1, <2>2
<1>. QED  BY <1>1, ApicInvAlways, PTL DEF Spec, HighestFirst, Apic!HighestFirst

-------------------------------------------------------------------------------
(* The management handler                                                  *)

\* What the handler keeps: its types, the time stamp of the interrupt under way,
\* and that the counters agree with each other and with what really happened.
SmmTyped ==
  /\ tsc \in 0 .. MaxTime /\ began \in -1 .. tsc
  /\ gSmmState \in [base : BOOLEAN, size : BOOLEAN, save : 0 .. tsc, entries : {0, 1024}]
  /\ gSmmStats \in [ticks : {0, TicksPerUs}, max : Nat, count : Nat, violations : Nat,
                    smrr : BOOLEAN]

SmmFlags == gSmmActive \in BOOLEAN /\ late \in BOOLEAN /\ unpaired \in BOOLEAN

StampIsBegin ==
  /\ gSmmActive <=> began >= 0
  /\ gSmmActive /\ ~unpaired => gSmmState.save = began

CountersAgree ==
  /\ gSmmStats.violations > 0 <=> gSmmStats.max > BudgetUs
  /\ gSmmState.entries > 0 => gSmmState.base

\* An interrupt under way is counted and has not been judged yet.
PairedIsJudged ==
  ~unpaired =>
    /\ gSmmStats.violations > 0 <=> late
    /\ gSmmStats.violations <= gSmmStats.count
    /\ gSmmActive => gSmmStats.violations + 1 <= gSmmStats.count

SmmInv == SmmTyped /\ SmmFlags /\ StampIsBegin /\ CountersAgree /\ PairedIsJudged

\* A number of whole microseconds is over the budget exactly from the tick on
\* that completes the next one.
LEMMA WholeMicroseconds ==
  ASSUME NEW a \in Nat, NEW t \in Nat \ {0}, NEW b \in Nat
  PROVE  /\ a \div t \in Nat
         /\ a \div t > b <=> a >= t * (b + 1)
<1>. DEFINE q == a \div t
<1>1. q \in Nat
  BY SMT
<1>2. a >= t * q /\ a < t * (q + 1)
  BY SMT
<1>. HIDE DEF q
<1>3. q > b => t * q >= t * (b + 1)
  BY <1>1, SMT
<1>4. q <= b => t * (q + 1) <= t * (b + 1)
  BY <1>1, SMT
<1>5. t * q \in Nat /\ t * (q + 1) \in Nat /\ t * (b + 1) \in Nat
  BY <1>1, SMT
<1>6. q > b <=> a >= t * (b + 1)
  BY <1>1, <1>2, <1>3, <1>4, <1>5, SMT
<1>. QED  BY <1>1, <1>6 DEF q

LEMMA InitSmm ==
  ASSUME Smm!SmmAssumption, Smm!Init
  PROVE  SmmInv
<1>1. SmmTyped
  BY DEF Smm!SmmAssumption, Smm!Init, Smm!NoState, Smm!NoStats, SmmTyped
<1>2. SmmFlags
  BY Zenon DEF Smm!Init, SmmFlags
<1>3. StampIsBegin
  BY DEF Smm!Init, StampIsBegin
<1>4. CountersAgree /\ PairedIsJudged
  BY DEF Smm!SmmAssumption, Smm!Init, Smm!NoState, Smm!NoStats, CountersAgree, PairedIsJudged
<1>. QED  BY <1>1, <1>2, <1>3, <1>4 DEF SmmInv

\* Time passes.
LEMMA WaitSmm ==
  ASSUME Smm!SmmAssumption, SmmInv, Smm!Wait
  PROVE  SmmInv'
<1>1. SmmTyped'
  BY DEF Smm!SmmAssumption, SmmInv, SmmTyped, Smm!Wait
<1>. QED  BY <1>1 DEF SmmInv, SmmFlags, Smm!Wait, StampIsBegin, CountersAgree, PairedIsJudged

\* Starting over forgets the interrupt under way, which is unpaired from then on.
LEMMA HandlerInitSmm ==
  ASSUME Smm!SmmAssumption, SmmInv, NEW b \in BOOLEAN, NEW s \in BOOLEAN, Smm!SmmHandlerInit(b, s)
  PROVE  SmmInv'
<1>1. gSmmState' = [base |-> b, size |-> s, save |-> 0, entries |-> 0]
  BY DEF Smm!SmmHandlerInit, Smm!NoState
<1>2. gSmmStats' = [ticks |-> TicksPerUs, max |-> 0, count |-> 0, violations |-> 0,
                    smrr |-> b /\ s]
  BY DEF Smm!SmmHandlerInit, Smm!NoStats
<1>3. SmmTyped'
  BY <1>1, <1>2 DEF Smm!SmmAssumption, SmmInv, SmmTyped, Smm!SmmHandlerInit
<1>4. SmmFlags'
  BY Zenon DEF SmmInv, SmmFlags, Smm!SmmHandlerInit
<1>5. StampIsBegin'
  BY DEF SmmInv, StampIsBegin, Smm!SmmHandlerInit
<1>6. CountersAgree'
  BY <1>1, <1>2 DEF Smm!SmmAssumption, CountersAgree
<1>7. PairedIsJudged'
  <2>1. gSmmStats'.violations = 0 /\ gSmmStats'.count = 0
    BY <1>2
  <2>2. ~late' /\ (gSmmActive' => unpaired')
    BY Zenon DEF SmmInv, SmmFlags, Smm!SmmHandlerInit
  <2>. QED  BY <2>1, <2>2 DEF PairedIsJudged
<1>. QED  BY <1>3, <1>4, <1>5, <1>6, <1>7 DEF SmmInv

\* An interrupt begins.
LEMMA SaveSmm ==
  ASSUME Smm!SmmAssumption, SmmInv, Smm!SmmHandlerSaveState
  PROVE  SmmInv'
<1>. gSmmStats.count + 1 \in Nat /\ tsc \in Nat
  BY DEF Smm!SmmAssumption, SmmInv, SmmTyped
<1>. DEFINE e == IF gSmmState.base THEN 1024 ELSE gSmmState.entries
<1>0. e \in {0, 1024} /\ (e > 0 => gSmmState.base) /\ tsc \in 0 .. tsc
  BY DEF SmmInv, SmmTyped, CountersAgree
<1>. HIDE DEF e
<1>1. /\ gSmmState' \in [base : BOOLEAN, size : BOOLEAN, save : 0 .. tsc, entries : {0, 1024}]
      /\ gSmmState'.save = tsc /\ gSmmState'.base = gSmmState.base
      /\ gSmmState'.entries > 0 => gSmmState'.base
  <2>1. gSmmState' = [gSmmState EXCEPT !.save = tsc, !.entries = e]
    BY DEF Smm!SmmHandlerSaveState, e
  <2>. DEFINE B == BOOLEAN
              T == 0 .. tsc
              E == {0, 1024}
  <2>2. tsc \in T /\ e \in E /\ gSmmState \in [base : B, size : B, save : T, entries : E]
    BY <1>0 DEF SmmInv, SmmTyped
  <2>. HIDE DEF B, T, E
  <2>3. /\ gSmmState' \in [base : B, size : B, save : T, entries : E]
        /\ gSmmState'.base = gSmmState.base /\ gSmmState'.save = tsc
        /\ gSmmState'.entries = e
    BY <2>1, <2>2, Zenon
  <2>4. gSmmState'.entries > 0 => gSmmState'.base
    BY <1>0, <2>3
  <2>. QED  BY <2>3, <2>4, Zenon DEF B, T, E
<1>2. /\ gSmmStats' \in [ticks : {0, TicksPerUs}, max : Nat, count : Nat, violations : Nat,
                         smrr : BOOLEAN]
      /\ gSmmStats'.count = gSmmStats.count + 1
      /\ gSmmStats'.violations = gSmmStats.violations /\ gSmmStats'.max = gSmmStats.max
  BY DEF SmmInv, SmmTyped, Smm!SmmHandlerSaveState
<1>3. /\ tsc' = tsc /\ began' = tsc /\ late' = late /\ gSmmActive' = TRUE
      /\ unpaired' = (unpaired \/ gSmmActive)
  BY DEF Smm!SmmHandlerSaveState
<1>4. SmmTyped'
  BY <1>1, <1>2, <1>3 DEF SmmInv, SmmTyped
<1>5. StampIsBegin'
  BY <1>1, <1>3 DEF StampIsBegin
<1>6. CountersAgree'
  BY <1>1, <1>2 DEF SmmInv, CountersAgree
<1>7. PairedIsJudged'
  <2>. SUFFICES ASSUME ~unpaired
                PROVE  /\ gSmmStats'.violations > 0 <=> late
                       /\ gSmmStats'.violations + 1 <= gSmmStats'.count
                       /\ gSmmStats'.violations <= gSmmStats'.count
    BY <1>3 DEF PairedIsJudged
  <2>1. gSmmStats.violations > 0 <=> late
    BY DEF SmmInv, PairedIsJudged
  <2>2. /\ gSmmStats.violations <= gSmmStats.count
        /\ gSmmStats.violations \in Nat /\ gSmmStats.count \in Nat
    BY DEF SmmInv, SmmTyped, PairedIsJudged
  <2>. QED  BY <1>2, <2>1, <2>2
<1>8. SmmFlags'
  BY <1>3, Zenon DEF SmmInv, SmmFlags
<1>. QED  BY <1>4, <1>5, <1>6, <1>7, <1>8 DEF SmmInv

\* An interrupt ends: the time the handler measures is over the budget exactly
\* when the time that has passed is.
LEMMA RestoreSmm ==
  ASSUME Smm!SmmAssumption, SmmInv, Smm!SmmHandlerRestoreState
  PROVE  SmmInv'
<1>1. /\ tsc' = tsc /\ began' = -1 /\ gSmmState' = gSmmState /\ gSmmActive' = FALSE
      /\ unpaired' = (unpaired \/ ~gSmmActive)
      /\ late' = (late \/ (began >= 0 /\ tsc - began >= TicksPerUs * (BudgetUs + 1)))
  BY DEF Smm!SmmHandlerRestoreState
<1>2. /\ gSmmStats.ticks = TicksPerUs /\ TicksPerUs \in Nat \ {0} /\ BudgetUs \in Nat
      /\ tsc - gSmmState.save \in Nat
  BY DEF Smm!SmmAssumption, SmmInv, SmmTyped, Smm!SmmHandlerRestoreState
<1>3. /\ Smm!ElapsedUs \in Nat
      /\ Smm!OverBudget <=> tsc - gSmmState.save >= TicksPerUs * (BudgetUs + 1)
  BY <1>2, WholeMicroseconds DEF Smm!ElapsedUs, Smm!OverBudget
<1>4. gSmmStats.violations \in Nat /\ gSmmStats.max \in Nat /\ gSmmStats.count \in Nat
  BY DEF SmmInv, SmmTyped
<1>5. /\ gSmmStats' \in [ticks : {0, TicksPerUs}, max : Nat, count : Nat, violations : Nat,
                         smrr : BOOLEAN]
      /\ gSmmStats'.count = gSmmStats.count
      /\ gSmmStats'.max = IF Smm!ElapsedUs > gSmmStats.max THEN Smm!ElapsedUs ELSE gSmmStats.max
      /\ gSmmStats'.violations = IF Smm!OverBudget THEN gSmmStats.violations + 1
                                 ELSE gSmmStats.violations
  <2>. DEFINE v == IF Smm!OverBudget THEN gSmmStats.violations + 1 ELSE gSmmStats.violations
              m == IF Smm!ElapsedUs > gSmmStats.max THEN Smm!ElapsedUs ELSE gSmmStats.max
  <2>1. v \in Nat /\ m \in Nat
    BY <1>3, <1>4
  <2>2. gSmmStats' = [gSmmStats EXCEPT !.max = m, !.violations = v]
    BY DEF Smm!SmmHandlerRestoreState
  <2>. HIDE DEF v, m
  <2>3. gSmmStats = [ticks |-> gSmmStats.ticks, max |-> gSmmStats.max,
                     count |-> gSmmStats.count, violations |-> gSmmStats.violations,
                     smrr |-> gSmmStats.smrr]
    BY DEF SmmInv, SmmTyped
  <2>4. gSmmStats' = [ticks |-> gSmmStats.ticks, max |-> m, count |-> gSmmStats.count,
                      violations |-> v, smrr |-> gSmmStats.smrr]
    BY <2>2, <2>3, Zenon
  <2>5. gSmmStats.ticks \in {0, TicksPerUs} /\ gSmmStats.smrr \in BOOLEAN
    BY DEF SmmInv, SmmTyped
  <2>6. /\ gSmmStats' \in [ticks : {0, TicksPerUs}, max : Nat, count : Nat,
                           violations : Nat, smrr : BOOLEAN]
        /\ gSmmStats'.count = gSmmStats.count
        /\ gSmmStats'.max = m /\ gSmmStats'.violations = v
    BY <1>4, <2>1, <2>4, <2>5
  <2>. QED  BY <2>6 DEF v, m
<1>6. SmmTyped'
  BY <1>1, <1>5 DEF SmmInv, SmmTyped
<1>7. StampIsBegin'
  BY <1>1 DEF StampIsBegin
<1>8. CountersAgree'
  <2>1. Smm!OverBudget <=> Smm!ElapsedUs > BudgetUs
    BY DEF Smm!OverBudget
  <2>2. gSmmStats.violations > 0 <=> gSmmStats.max > BudgetUs
    BY DEF SmmInv, CountersAgree
  <2>3. gSmmStats'.violations > 0 <=> gSmmStats'.max > BudgetUs
    BY <1>2, <1>3, <1>4, <1>5, <2>1, <2>2
  <2>. QED  BY <1>1, <2>3 DEF SmmInv, CountersAgree
<1>9. PairedIsJudged'
  <2>. SUFFICES ASSUME ~unpaired, gSmmActive
                PROVE  /\ gSmmStats'.violations > 0 <=> late'
                       /\ gSmmStats'.violations <= gSmmStats'.count
    BY <1>1 DEF PairedIsJudged
  <2>1. gSmmState.save = began /\ began >= 0
    BY DEF SmmInv, StampIsBegin
  <2>2. /\ gSmmStats.violations > 0 <=> late
        /\ gSmmStats.violations + 1 <= gSmmStats.count
    BY DEF SmmInv, PairedIsJudged
  <2>3. late' <=> late \/ Smm!OverBudget
    BY <1>1, <1>3, <2>1
  <2>. QED  BY <1>4, <1>5, <2>2, <2>3
<1>10. SmmFlags'
  BY <1>1, Zenon DEF SmmInv, SmmFlags
<1>. QED  BY <1>6, <1>7, <1>8, <1>9, <1>10 DEF SmmInv

\* A restore before the handler is initialised traps and counts nothing.
LEMMA FaultSmm ==
  ASSUME Smm!SmmAssumption, SmmInv, Smm!SmmHandlerRestoreFault
  PROVE  SmmInv'
<1>1. SmmTyped'
  BY DEF Smm!SmmAssumption, SmmInv, SmmTyped, Smm!SmmHandlerRestoreFault
<1>2. StampIsBegin'
  BY DEF StampIsBegin, Smm!SmmHandlerRestoreFault
<1>3. CountersAgree' /\ PairedIsJudged'
  BY DEF SmmInv, CountersAgree, PairedIsJudged, Smm!SmmHandlerRestoreFault
<1>4. SmmFlags'
  BY Zenon DEF SmmInv, SmmFlags, Smm!SmmHandlerRestoreFault
<1>. QED  BY <1>1, <1>2, <1>3, <1>4 DEF SmmInv

\* The invariant is more than what a run checks.
LEMMA SmmInvGives == SmmInv => Smm!TypeOK /\ Smm!SmmBudget
<1>. SUFFICES ASSUME SmmInv PROVE Smm!TypeOK /\ Smm!SmmBudget
  OBVIOUS
<1>1. Smm!TypeOK
  BY DEF SmmInv, SmmTyped, Smm!TypeOK
<1>2. Smm!TimeoutIsReal
  BY Zenon DEF SmmInv, PairedIsJudged, Smm!TimeoutIsReal, Smm!SmmHandlerValidate
<1>3. Smm!StatisticsAgree
  BY DEF SmmInv, CountersAgree, PairedIsJudged, Smm!StatisticsAgree, Smm!SmmHandlerGetStats
<1>. QED  BY <1>1, <1>2, <1>3 DEF Smm!SmmBudget


LEMMA NextSmm ==
  ASSUME Smm!SmmAssumption, SmmInv, [Smm!Next]_Smm!vars
  PROVE  SmmInv'
<1>1. CASE UNCHANGED Smm!vars
  BY <1>1 DEF Smm!vars, SmmInv, SmmTyped, SmmFlags, StampIsBegin, CountersAgree, PairedIsJudged
<1>. QED  BY <1>1, WaitSmm, HandlerInitSmm, SaveSmm, RestoreSmm, FaultSmm DEF Smm!Next

LEMMA StepOfSmm == [Next]_vars => [Smm!Next]_Smm!vars
<1>1. SmmStep => Smm!Next
  BY DEF SmmStep
<1>2. [Next]_vars => SmmStep \/ UNCHANGED smmVars
  BY DEF Next, vars, BootStep, Rest, ExitStep, ShadowStep, ApicStep, ServiceStep
<1>3. UNCHANGED smmVars => UNCHANGED Smm!vars
  BY DEF smmVars, Smm!vars
<1>. QED  BY <1>1, <1>2, <1>3

LEMMA SmmInvAlways == Spec => []SmmInv
<1>1. Smm!SmmAssumption
  BY PartsAssumption DEF PartsAssumption
<1>2. Init => SmmInv
  BY <1>1, InitSmm DEF Init
<1>3. SmmInv /\ [Next]_vars => SmmInv'
  BY <1>1, StepOfSmm, NextSmm
<1>. QED  BY <1>2, <1>3, PTL DEF Spec

\* The handler answers EFI_TIMEOUT exactly when an interrupt was late, while its
\* calls are paired, and its statistics always agree.
THEOREM BudgetAlways == Spec => []SmmBudget
<1>1. SmmInv => SmmBudget
  BY SmmInvGives DEF SmmBudget
<1>. QED  BY <1>1, SmmInvAlways, PTL

-------------------------------------------------------------------------------
(* The boot                                                                *)

\* The steps before anything of the hypervisor is touched.
Early == {"topology", "mode", "cpuid", "acpi", "smbios", "hypervisor"}

\* The steps of the test guest.
Guesting == {"test guest", "create", "run"}

Untouched == ~vmxe /\ ~svme /\ held = {} /\ buffers = 0 /\ backend = NULL

NoVcpus == gVcpuState = [i \in VcpuIds |-> Boot!NoVcpu]

\* What the driver holds at each of its steps.
StepHolds ==
  /\ pc \notin {"create", "run", "guest", "lost"} => testPages = {}
  /\ pc \in Early => Untouched /\ ready = {}
  /\ pc = "install" /\ gBootMode # Boot!Legacy => Untouched
  /\ pc \in Guesting => gBootMode = Boot!Legacy /\ ready # {}
  /\ pc \in Early \cup {"test guest", "create"} => NoVcpus

\* The functions a backend was given are those of a core that is linked.
BackendByBuild ==
  /\ backend = "Intel" => linked = "vmxcore"
  /\ backend = "Amd" => linked = "hypervisorbackend" /\ cpu.vendor = "Amd"

\* Where the units behind the hypervisor started, its processor can run it.
UnitsBehind ==
  ready # {} =>
    \/ backend = "Intel" /\ vmxe /\ Boot!PostValidateVmxSupport
    \/ backend = "Amd" /\ svme /\ Boot!PostValidateSvmSupport

Vcpu == [first : Nat \cup {NULL}, second : Nat \cup {NULL}, active : BOOLEAN]

\* Only the test guest's vCPU is ever created.
OnlyFirstVcpu == \A i \in VcpuIds \ {0} : gVcpuState[i] = Boot!NoVcpu

HvInv ==
  /\ cpu \in Machines /\ linked \in {"vmxcore", "hypervisorbackend"}
  /\ nextPage \in Nat /\ reinits \in Nat
  /\ gVcpuState \in [VcpuIds -> Vcpu] /\ OnlyFirstVcpu
  /\ BackendByBuild /\ UnitsBehind /\ Boot!ActiveIsReady /\ Boot!NoPageLost

BootInv == Boot!TypeOK /\ Boot!ModeMatchesStore /\ StepHolds /\ HvInv

\* The invariant is more than what a run checks.
LEMMA BootInvGives == BootInv => Boot!TypeOK /\ Boot!BootStateSound /\ Boot!HypervisorReady
<1>. SUFFICES ASSUME BootInv
              PROVE  Boot!TypeOK /\ Boot!BootStateSound /\ Boot!HypervisorReady
  OBVIOUS
<1>1. Boot!TestPagesFreed
  BY DEF BootInv, StepHolds, Boot!TestPagesFreed
<1>2. Boot!HypervisorAsAsked
  BY DEF BootInv, StepHolds, Untouched, HvInv, UnitsBehind, Boot!HypervisorAsAsked
<1>. QED  BY <1>1, <1>2 DEF BootInv, HvInv, Boot!BootStateSound, Boot!HypervisorReady

-------------------------------------------------------------------------------
(* Vcpus and their pages                                                   *)

\* A vCPU nobody created has no page and is not active.
LEMMA NoVcpuIsIdle ==
  /\ Boot!NoVcpu \in Vcpu /\ Boot!NoVcpu.first = NULL /\ Boot!NoVcpu.second = NULL
  /\ Boot!NoVcpu.active = FALSE
BY DEF Boot!NoVcpu, Vcpu

\* The pages of the vCPUs of g.
PagesOf(g) == (UNION {{g[i].first, g[i].second} : i \in VcpuIds}) \ {NULL}

LEMMA InPagesOf ==
  ASSUME NEW g, NEW p
  PROVE  p \in PagesOf(g) <=> p # NULL /\ \E i \in VcpuIds : p \in {g[i].first, g[i].second}
<1>. DEFINE pairs == {{g[i].first, g[i].second} : i \in VcpuIds}
<1>1. PagesOf(g) = (UNION pairs) \ {NULL}
  BY DEF PagesOf
<1>2. \A s : s \in pairs <=> \E i \in VcpuIds : s = {g[i].first, g[i].second}
  BY Zenon
<1>. HIDE DEF pairs
<1>3. p \in UNION pairs <=> \E s \in pairs : p \in s
  OBVIOUS
<1>4. p \in UNION pairs <=> \E i \in VcpuIds : p \in {g[i].first, g[i].second}
  BY <1>2, <1>3, Zenon
<1>. QED  BY <1>1, <1>4

LEMMA PagesOfNone ==
  ASSUME NEW g, \A i \in VcpuIds : g[i] = Boot!NoVcpu
  PROVE  PagesOf(g) = {}
BY InPagesOf, NoVcpuIsIdle

LEMMA PagesOfOne ==
  ASSUME NEW g, NEW k \in VcpuIds, \A i \in VcpuIds \ {k} : g[i] = Boot!NoVcpu
  PROVE  PagesOf(g) = {g[k].first, g[k].second} \ {NULL}
BY InPagesOf, NoVcpuIsIdle

\* What holds of the vCPUs when there are none.
VcpusIdle ==
  gVcpuState \in [VcpuIds -> Vcpu] /\ OnlyFirstVcpu /\ Boot!ActiveIsReady /\ Boot!Allocated = {}

LEMMA NoVcpusHold == NoVcpus => VcpusIdle
<1>. SUFFICES ASSUME NoVcpus PROVE VcpusIdle
  OBVIOUS
<1>1. \A i \in VcpuIds : gVcpuState[i] = Boot!NoVcpu
  BY DEF NoVcpus
<1>2. gVcpuState \in [VcpuIds -> Vcpu]
  BY NoVcpuIsIdle DEF NoVcpus
<1>3. Boot!Allocated = {}
  BY <1>1, PagesOfNone DEF Boot!Allocated, PagesOf
<1>. QED  BY <1>1, <1>2, <1>3, NoVcpuIsIdle DEF VcpusIdle, OnlyFirstVcpu, Boot!ActiveIsReady

\* A step that leaves the hypervisor and its units alone.
LEMMA HvStays ==
  ASSUME HvInv, UNCHANGED <<cpu, Boot!hvVars, ready>>
  PROVE  HvInv'
<1>1. UNCHANGED <<cpu, linked, backend, vmxe, svme, vmxOn, current, gVcpuState, vmcs, nextPage,
                  held, reinits, ready>>
  BY DEF Boot!hvVars
<1>2. Boot!ActiveIsReady'
  BY <1>1 DEF HvInv, Boot!ActiveIsReady
<1>3. Boot!NoPageLost'
  BY <1>1 DEF HvInv, Boot!NoPageLost, Boot!Allocated
<1>4. BackendByBuild' /\ UnitsBehind'
  BY <1>1 DEF HvInv, BackendByBuild, UnitsBehind, Boot!PostValidateVmxSupport,
              Boot!PostValidateSvmSupport
<1>. QED  BY <1>1, <1>2, <1>3, <1>4 DEF HvInv, OnlyFirstVcpu

\* The vCPUs are forgotten, and with them their pages, which is counted.
LEMMA Forgotten ==
  ASSUME HvInv, Boot!ForgetVcpus, UNCHANGED held
  PROVE  /\ NoVcpus' /\ gVcpuState' \in [VcpuIds -> Vcpu] /\ OnlyFirstVcpu'
         /\ Boot!ActiveIsReady' /\ reinits' \in Nat /\ Boot!NoPageLost'
<1>1. NoVcpus'
  BY DEF Boot!ForgetVcpus, NoVcpus
<1>2. /\ gVcpuState' \in [VcpuIds -> Vcpu] /\ OnlyFirstVcpu'
      /\ Boot!ActiveIsReady' /\ Boot!Allocated' = {}
  <2>1. VcpusIdle'
    BY <1>1, NoVcpusHold, PTL
  <2>. QED  BY <2>1 DEF VcpusIdle
<1>3. reinits' \in Nat /\ (reinits' = 0 => reinits = 0 /\ Boot!Allocated = {})
  BY DEF HvInv, Boot!ForgetVcpus
<1>4. Boot!NoPageLost'
  BY <1>2, <1>3 DEF HvInv, Boot!NoPageLost
<1>. QED  BY <1>1, <1>2, <1>3, <1>4

\* HypervisorBackendInit of either build: what its result says.
LEMMA BackendStarted ==
  ASSUME Boot!BootAssumption, HvInv, NEW n, NEW ok \in BOOLEAN,
         Boot!HypervisorBackendInit(n, ok), UNCHANGED cpu
  PROVE  /\ linked' = linked /\ nextPage' = nextPage /\ held' = held
         /\ gVcpuState' \in [VcpuIds -> Vcpu] /\ OnlyFirstVcpu' /\ BackendByBuild'
         /\ (ready # {} => UnitsBehind') /\ Boot!ActiveIsReady' /\ reinits' \in Nat /\ Boot!NoPageLost'
         /\ ok => UnitsBehind'
         /\ NoVcpus => NoVcpus'
<1>. USE DEF HvInv
<1>1. cpu.flags' = cpu.flags /\ cpu.vendor' = cpu.vendor /\ cpu.locked' = cpu.locked
      /\ cpu.outside' = cpu.outside /\ NULL # "Intel" /\ NULL # "Amd"
  BY DEF Boot!BootAssumption, Boot!StartAssumption
<1>2. CASE Boot!VmxBackendInit(n, ok)
  <2>1. /\ linked = "vmxcore" /\ UNCHANGED <<linked, nextPage, held, svme>>
        /\ "VMX" \in cpu.flags /\ vmxe' = TRUE /\ Boot!ForgetVcpus
        /\ backend' = IF ok THEN "Intel" ELSE backend
        /\ ok => cpu.locked /\ cpu.outside
    BY <1>2 DEF Boot!VmxBackendInit
  <2>2. BackendByBuild'
    BY <1>1, <2>1 DEF BackendByBuild
  <2>3. ok => UnitsBehind'
    BY <1>1, <2>1 DEF UnitsBehind, Boot!PostValidateVmxSupport
  <2>4. ready # {} => UnitsBehind'
    BY <1>1, <2>1, <2>3 DEF UnitsBehind, BackendByBuild, Boot!PostValidateVmxSupport,
                            Boot!PostValidateSvmSupport
  <2>. QED  BY <2>1, <2>2, <2>3, <2>4, Forgotten
<1>3. CASE Boot!SvmBackendInit(n, ok)
  <2>1. linked = "hypervisorbackend" /\ UNCHANGED <<linked, nextPage, held, vmxe>>
    BY <1>3 DEF Boot!SvmBackendInit
  <2>2. CASE Boot!DetectVendor = "Amd" /\ backend' = "Amd" /\ Boot!SvmInit(n, ok)
    <3>1. /\ cpu.vendor = "Amd" /\ Boot!ForgetVcpus
          /\ ok = ("SVM" \in cpu.flags) /\ svme' = (svme \/ ok)
      BY <2>1, <2>2 DEF Boot!DetectVendor, Boot!SvmInit
    <3>2. BackendByBuild'
      BY <1>1, <2>1, <2>2, <3>1 DEF BackendByBuild
    <3>3. ok => UnitsBehind'
      BY <1>1, <2>2, <3>1 DEF UnitsBehind, Boot!PostValidateSvmSupport
    <3>4. ready # {} => UnitsBehind'
      BY <1>1, <2>1, <2>2, <3>1 DEF UnitsBehind, BackendByBuild, Boot!PostValidateSvmSupport
    <3>. QED  BY <2>1, <3>1, <3>2, <3>3, <3>4, Forgotten
  <2>3. CASE /\ Boot!DetectVendor = "Unknown" /\ backend' = NULL /\ ~ok
             /\ UNCHANGED <<hvCpuCount, gVcpuState, reinits, svme>>
    <3>1. cpu.vendor = "Unknown"
      BY <2>1, <2>3 DEF Boot!DetectVendor
    <3>2. BackendByBuild'
      BY <1>1, <2>1, <2>3 DEF BackendByBuild
    <3>3. ready = {}
      BY <2>1, <3>1 DEF UnitsBehind, BackendByBuild
    <3>4. OnlyFirstVcpu' /\ (NoVcpus => NoVcpus') /\ Boot!NoPageLost'
      BY <2>1, <2>3 DEF OnlyFirstVcpu, NoVcpus, Boot!NoPageLost, Boot!Allocated
    <3>5. Boot!ActiveIsReady'
      BY <1>1, <2>1, <2>3 DEF Boot!ActiveIsReady
    <3>. QED  BY <2>1, <2>3, <3>2, <3>3, <3>4, <3>5
  <2>. QED  BY <1>3, <2>2, <2>3 DEF Boot!SvmBackendInit
<1>. QED  BY <1>2, <1>3 DEF Boot!HypervisorBackendInit

\* BackendInitTraps, on a processor where no unit can have started.
LEMMA BackendTrapped ==
  ASSUME Boot!BootAssumption, HvInv, NEW n, Boot!BackendInitTraps(n), UNCHANGED <<cpu, ready>>
  PROVE  HvInv' /\ ready = {}
<1>1. /\ linked = "vmxcore" /\ "VMX" \notin cpu.flags /\ Boot!ForgetVcpus
      /\ UNCHANGED <<linked, backend, vmxe, svme, nextPage, held>>
  BY DEF Boot!BackendInitTraps
<1>2. ready = {}
  BY <1>1 DEF HvInv, UnitsBehind, BackendByBuild, Boot!PostValidateVmxSupport
<1>3. BackendByBuild' /\ UnitsBehind'
  BY <1>1, <1>2 DEF HvInv, BackendByBuild, UnitsBehind
<1>. QED  BY <1>1, <1>2, <1>3, Forgotten DEF HvInv

\* The pages of a new vCPU are exactly those that are held; the control fields
\* are adjusted to what the processor accepts.
LEMMA VcpuCreated ==
  ASSUME Boot!BootAssumption, HvInv, NoVcpus, ready # {}, NEW ok \in BOOLEAN,
         Boot!VcpuCreate(0, ok), UNCHANGED <<cpu, ready>>
  PROVE  HvInv'
<1>. USE DEF HvInv
<1>1. 0 \in VcpuIds /\ NULL \notin Nat /\ MustBeOne \subseteq MayBeOne /\ NULL # "Intel" /\ NULL # "Amd"
  BY DEF Boot!BootAssumption, Boot!StartAssumption
<1>2. reinits = 0 => held = {}
  BY NoVcpusHold DEF VcpusIdle, Boot!NoPageLost
<1>3. ASSUME NEW n \in 0 .. 1, Boot!VcpuCreateNoPages(0, n)
      PROVE  HvInv'
  <2>1. /\ nextPage' = nextPage + n /\ held' = held
        /\ UNCHANGED <<linked, backend, hvCpuCount, vmxe, svme, vmxOn, current, gVcpuState,
                       vmcs, reinits>>
    BY <1>3 DEF Boot!VcpuCreateNoPages, Boot!GivenBack
  <2>2. Boot!ActiveIsReady' /\ Boot!NoPageLost'
    BY <2>1 DEF Boot!ActiveIsReady, Boot!NoPageLost, Boot!Allocated
  <2>3. BackendByBuild' /\ UnitsBehind' /\ OnlyFirstVcpu'
    BY <2>1 DEF BackendByBuild, UnitsBehind, OnlyFirstVcpu, Boot!PostValidateVmxSupport,
                Boot!PostValidateSvmSupport
  <2>. QED  BY <2>1, <2>2, <2>3
\* What the two cores' ways to fill a state have in common.
<1>. DEFINE first  == nextPage + 1
            second == nextPage + 2
            Filled(active) == [first |-> first, second |-> second, active |-> active]
<1>4. ASSUME NEW active \in BOOLEAN,
             gVcpuState' = [gVcpuState EXCEPT ![0] = Filled(active)],
             held' = held \cup {first, second}, nextPage' = nextPage + 2, reinits' = reinits
      PROVE  /\ gVcpuState' \in [VcpuIds -> Vcpu] /\ OnlyFirstVcpu' /\ nextPage' \in Nat
             /\ Boot!NoPageLost' /\ gVcpuState'[0] = Filled(active)
             /\ \A i \in VcpuIds : gVcpuState'[i].active => i = 0 /\ active
  <2>1. first \in Nat /\ second \in Nat
    OBVIOUS
  <2>2. Filled(active) \in Vcpu
    BY <2>1 DEF Vcpu
  <2>3. gVcpuState' \in [VcpuIds -> Vcpu] /\ gVcpuState'[0] = Filled(active)
        /\ \A i \in VcpuIds \ {0} : gVcpuState'[i] = Boot!NoVcpu
    BY <1>1, <1>4, <2>2 DEF OnlyFirstVcpu
  <2>4. Boot!Allocated' = {first, second}
    <3>1. Boot!Allocated' = PagesOf(gVcpuState')
      BY DEF Boot!Allocated, PagesOf
    <3>2. PagesOf(gVcpuState') = {gVcpuState'[0].first, gVcpuState'[0].second} \ {NULL}
      BY <1>1, <2>3, PagesOfOne
    <3>. QED  BY <1>1, <2>1, <2>3, <3>1, <3>2
  <2>5. Boot!NoPageLost'
    BY <1>2, <1>4, <2>4 DEF Boot!NoPageLost
  <2>. QED  BY <1>4, <2>3, <2>5, NoVcpuIsIdle DEF OnlyFirstVcpu
<1>5. ASSUME NEW step \in {"VMXON", "VMCLEAR", "VMPTRLD", "done"}, Boot!VmxVcpuCreate(0, step)
      PROVE  HvInv'
  <2>1. /\ backend = "Intel" /\ UNCHANGED <<linked, backend, vmxe, svme, reinits>>
        /\ gVcpuState' = [gVcpuState EXCEPT ![0] = Filled(step = "done")]
        /\ held' = held \cup {first, second} /\ nextPage' = nextPage + 2
        /\ step = "done" => /\ vmxe /\ vmxOn' = first /\ current' = second
                           /\ vmcs' = Boot!VmxSetupVmcs
    BY <1>5 DEF Boot!VmxVcpuCreate
  <2>2. BackendByBuild' /\ UnitsBehind'
    BY <2>1 DEF BackendByBuild, UnitsBehind, Boot!PostValidateVmxSupport,
                Boot!PostValidateSvmSupport
  <2>3. /\ MustBeOne \subseteq Boot!VmxSetupVmcs.controls
        /\ Boot!VmxSetupVmcs.controls \subseteq MayBeOne
    BY <1>1 DEF Boot!VmxSetupVmcs, Boot!AdjustCtrl
  <2>4. Boot!ActiveIsReady'
    BY <2>1, <1>4, <2>3 DEF Boot!ActiveIsReady
  <2>. QED  BY <2>1, <1>4, <2>2, <2>4
<1>6. CASE Boot!SvmCreateVcpu(0)
  <2>1. /\ backend = "Amd"
        /\ UNCHANGED <<linked, backend, vmxe, svme, vmxOn, current, vmcs, reinits>>
        /\ gVcpuState' = [gVcpuState EXCEPT ![0] = Filled(TRUE)]
        /\ held' = held \cup {first, second} /\ nextPage' = nextPage + 2
    BY <1>6 DEF Boot!SvmCreateVcpu
  <2>2. BackendByBuild' /\ UnitsBehind'
    BY <2>1 DEF BackendByBuild, UnitsBehind, Boot!PostValidateVmxSupport,
                Boot!PostValidateSvmSupport
  <2>3. svme
    BY <2>1 DEF UnitsBehind
  <2>4. Boot!ActiveIsReady'
    BY <2>1, <2>3, <1>4 DEF Boot!ActiveIsReady
  <2>. QED  BY <2>1, <1>4, <2>2, <2>4
<1>7. CASE Boot!SvmCreateRefused(0)
  BY <1>7, HvStays DEF Boot!SvmCreateRefused
<1>. QED  BY <1>3, <1>5, <1>6, <1>7 DEF Boot!VcpuCreate, Boot!VmxFailures

\* A run makes at most the vCPU's own VMCS current again, whether it comes back
\* or not.
LEMMA VcpuRan ==
  ASSUME Boot!BootAssumption, HvInv, UNCHANGED <<cpu, ready>>,
         NEW back \in BOOLEAN, Boot!VcpuRun(0, back)
  PROVE  HvInv'
<1>1. CASE Boot!SvmRunVcpu(0, back)
  BY <1>1, HvStays DEF Boot!SvmRunVcpu
<1>2. CASE Boot!VmxVcpuRun(0, back)
  <2>1. /\ UNCHANGED <<linked, backend, vmxe, svme, vmxOn, gVcpuState, vmcs, nextPage, held,
                       reinits, hvCpuCount>>
        /\ backend = "Intel"
        /\ current' \in {current, IF gVcpuState[0].active THEN gVcpuState[0].second ELSE current}
    BY <1>2 DEF Boot!VmxVcpuRun
  <2>2. 0 \in VcpuIds
    BY DEF Boot!BootAssumption, Boot!StartAssumption
  <2>3. current' = current
    BY <2>1, <2>2 DEF HvInv, Boot!ActiveIsReady
  <2>. QED  BY <2>1, <2>3, HvStays DEF Boot!hvVars
<1>. QED  BY <1>1, <1>2 DEF Boot!VcpuRun

-------------------------------------------------------------------------------
(* The steps of the driver                                                 *)

LEMMA InitBoot ==
  ASSUME Boot!BootAssumption, Boot!Init
  PROVE  BootInv
<1>1. /\ cpu \in Machines /\ linked \in {"vmxcore", "hypervisorbackend"}
      /\ nvram \in Boot!Byte \cup {WIDE, NULL} /\ pc = "topology" /\ asked = NULL
      /\ backend = NULL /\ ~vmxe /\ ~svme /\ NoVcpus /\ nextPage = 0 /\ held = {} /\ reinits = 0
      /\ gBootMode = 0 /\ gCpuCount = 0 /\ testPages = {} /\ buffers = 0 /\ ready = {}
      /\ gBemiThreadCount = 144
  BY DEF Boot!Init, Boot!PowerOn, Boot!HypervisorReset, NoVcpus
<1>2. Boot!TypeOK /\ Boot!ModeMatchesStore /\ StepHolds
  BY <1>1 DEF Boot!TypeOK, Boot!ModeMatchesStore, StepHolds, Untouched, Early, Guesting,
              Boot!Byte, Boot!Ended
<1>3. HvInv
  BY <1>1, NoVcpusHold DEF Boot!BootAssumption, Boot!StartAssumption, HvInv, VcpusIdle, BackendByBuild, UnitsBehind, Boot!NoPageLost
<1>. QED  BY <1>2, <1>3 DEF BootInv

\* Whatever the processor counts, there is a number of processors and a number of
\* threads within its limits.
LEMMA Detected ==
  ASSUME Boot!BootAssumption, cpu \in Machines
  PROVE  /\ Boot!DetectedCpus \in Nat
         /\ Boot!PostCalculateThreadCount(Boot!DetectedCpus, Boot!DetectedL3) \in 1 .. 84
<1>1. cpu.levels \in Seq(Nat) /\ cpu.ht \in Nat
  BY DEF Boot!BootAssumption, Boot!Cpu
<1>2. Boot!ThreadsPerCore \in Nat
  BY <1>1 DEF Boot!ThreadsPerCore
<1>3. Boot!Cores \in Nat
  BY <1>1, <1>2 DEF Boot!Cores
<1>4. Boot!DetectedCpus \in Nat
  BY <1>2, <1>3 DEF Boot!DetectedCpus
<1>5. \A n \in Int : Boot!Clamp(n) \in 1 .. 84
  BY DEF Boot!Clamp
<1>. QED  BY <1>4, <1>5 DEF Boot!PostCalculateThreadCount

Quietly == UNCHANGED <<cpu, Boot!hvVars, buffers, ready>>

\* The steps that do not reach the hypervisor, before it, without it, and after.
LEMMA QuietSteps ==
  ASSUME Boot!BootAssumption, BootInv,
         \/ Boot!Topology \/ Boot!ReadBootMode \/ Boot!SpoofCpuid \/ Boot!InstallAcpi
         \/ Boot!InstallSmbios \/ Boot!SkipHypervisor \/ Boot!AllocateTestPages
         \/ Boot!InstallProtocol \/ \E m \in Boot!Byte : Boot!BemiSetBootMode(m)
         \/ \E v \in Boot!Byte \cup {WIDE, NULL} : Boot!SystemWritesVariable(v)
  PROVE  BootInv'
<1>1. Quietly
  BY DEF Quietly, Boot!Topology, Boot!ReadBootMode, Boot!SpoofCpuid, Boot!InstallAcpi,
         Boot!InstallSmbios, Boot!SkipHypervisor, Boot!AllocateTestPages, Boot!InstallProtocol,
         Boot!BemiSetBootMode, Boot!SystemWritesVariable, Boot!coreVars
<1>2. HvInv'
  BY <1>1, HvStays DEF BootInv, Quietly
<1>3. (Untouched => Untouched') /\ (NoVcpus => NoVcpus') /\ ready' = ready /\ buffers' = buffers
  BY <1>1 DEF Quietly, Untouched, NoVcpus, Boot!hvVars
<1>. USE DEF BootInv
<1>4. CASE Boot!Topology
  <2>1. gCpuCount' \in Nat /\ gBemiThreadCount' \in 1 .. 84
    BY <1>4, Detected DEF HvInv, Boot!Topology, Boot!PostDetectTopology
  <2>2. /\ pc = "topology" /\ pc' = "mode"
        /\ UNCHANGED <<nvram, gBootMode, testPages, asked>>
    BY <1>4 DEF Boot!Topology
  <2>. QED  BY <1>2, <1>3, <2>1, <2>2 DEF Boot!TypeOK, Boot!ModeMatchesStore, StepHolds, Early, Guesting
<1>5. CASE Boot!ReadBootMode
  <2>1. /\ pc = "mode" /\ pc' = "cpuid"
        /\ UNCHANGED <<gCpuCount, gBemiThreadCount, testPages>>
    BY <1>5 DEF Boot!ReadBootMode
  <2>2. /\ nvram' \in Boot!Byte \cup {WIDE, NULL} /\ gBootMode' \in Boot!Byte
        /\ asked' # NULL => nvram' = asked' /\ gBootMode' = asked'
    BY <1>5 DEF Boot!ReadBootMode, Boot!ModeRead, Boot!ModeDefaulted, Boot!SetVariable, Boot!TypeOK,
                Boot!BootAssumption, Boot!Native, Boot!Legacy, Boot!Byte
  <2>. QED  BY <1>2, <1>3, <2>1, <2>2 DEF Boot!TypeOK, Boot!ModeMatchesStore, StepHolds, Early, Guesting, Boot!BemiGetBootMode
<1>6. CASE Boot!SpoofCpuid \/ Boot!InstallAcpi \/ Boot!InstallSmbios \/ Boot!SkipHypervisor
           \/ Boot!InstallProtocol
  <2>1. /\ \/ pc = "cpuid" /\ pc' = "acpi"
           \/ pc = "acpi" /\ pc' = "smbios"
           \/ pc = "smbios" /\ pc' = "hypervisor"
           \/ pc = "hypervisor" /\ pc' = "install"
           \/ pc = "install" /\ pc' \in {"running", "failed"}
        /\ UNCHANGED <<nvram, gBootMode, gCpuCount, gBemiThreadCount, testPages, asked>>
    BY <1>6 DEF Boot!SpoofCpuid, Boot!InstallAcpi, Boot!InstallSmbios, Boot!SkipHypervisor, Boot!InstallProtocol,
                Boot!coreVars
  <2>2. Boot!TypeOK' /\ Boot!ModeMatchesStore'
    BY <1>3, <2>1 DEF Boot!TypeOK, Boot!ModeMatchesStore, Boot!Ended, Boot!BemiGetBootMode
  <2>3. StepHolds'
    BY <1>3, <2>1 DEF StepHolds, Early, Guesting
  <2>. QED  BY <1>2, <2>2, <2>3
<1>7. CASE Boot!AllocateTestPages
  <2>1. /\ pc = "test guest"
        /\ \/ pc' = "create" /\ testPages' = {"code", "stack"}
           \/ pc' = "install" /\ testPages' = {}
        /\ UNCHANGED <<nvram, gBootMode, gCpuCount, gBemiThreadCount, asked>>
    BY <1>7 DEF Boot!AllocateTestPages
  <2>. QED  BY <1>2, <1>3, <2>1 DEF Boot!TypeOK, Boot!ModeMatchesStore, StepHolds, Early, Guesting, Boot!BemiGetBootMode
<1>8. ASSUME NEW m \in Boot!Byte, Boot!BemiSetBootMode(m)
      PROVE  BootInv'
  <2>1. /\ pc = "running" /\ gBootMode' = m /\ nvram' \in {m, nvram}
        /\ asked' # NULL => nvram' = m /\ asked' = m
        /\ UNCHANGED <<pc, gCpuCount, gBemiThreadCount, testPages>>
    BY <1>8 DEF Boot!BemiSetBootMode, Boot!NewMode
  <2>. QED  BY <1>2, <1>3, <2>1 DEF Boot!TypeOK, Boot!ModeMatchesStore, StepHolds, Early, Guesting, Boot!BemiGetBootMode
<1>9. ASSUME NEW v \in Boot!Byte \cup {WIDE, NULL}, Boot!SystemWritesVariable(v)
      PROVE  BootInv'
  <2>1. /\ pc = "running" /\ nvram' = v /\ asked' = NULL
        /\ UNCHANGED <<pc, gBootMode, gCpuCount, gBemiThreadCount, testPages>>
    BY <1>9 DEF Boot!SystemWritesVariable
  <2>. QED  BY <1>2, <1>3, <2>1 DEF Boot!TypeOK, Boot!ModeMatchesStore, StepHolds, Early, Guesting
<1>. QED  BY <1>4, <1>5, <1>6, <1>7, <1>8, <1>9

\* BemiInitHypervisor: the units are there only behind a backend that started.
LEMMA HypervisorInitialised ==
  ASSUME Boot!BootAssumption, HvInv, buffers \in Nat, ready \in {{}, Boot!Units},
         NEW n, NEW ok \in BOOLEAN,
         Boot!BemiInitHypervisor(n, ok), UNCHANGED cpu
  PROVE  /\ HvInv' /\ (NoVcpus => NoVcpus') /\ buffers' \in Nat /\ ready' \in {{}, Boot!Units}
         /\ IF ok THEN ready' # {} ELSE ready' = ready /\ buffers' = buffers
<1>1. PICK started \in BOOLEAN, room \in BOOLEAN :
        /\ ok = (started /\ room)
        /\ Boot!HypervisorBackendInit(n, started)
        /\ buffers' = IF ok THEN buffers + 1 ELSE buffers
        /\ ready' = IF ok THEN Boot!Units ELSE ready
  BY DEF Boot!BemiInitHypervisor
<1>2. /\ linked' = linked /\ nextPage' = nextPage /\ held' = held
      /\ gVcpuState' \in [VcpuIds -> Vcpu] /\ OnlyFirstVcpu' /\ BackendByBuild'
      /\ (ready # {} => UnitsBehind') /\ Boot!ActiveIsReady' /\ reinits' \in Nat
      /\ Boot!NoPageLost' /\ (started => UnitsBehind') /\ (NoVcpus => NoVcpus')
  BY <1>1, BackendStarted
<1>3. UnitsBehind'
  <2>1. CASE ready' = {}
    BY <2>1 DEF UnitsBehind
  <2>. QED  BY <1>1, <1>2, <2>1
<1>4. Boot!Units # {}
  BY DEF Boot!Units
<1>. QED  BY <1>1, <1>2, <1>3, <1>4 DEF HvInv

\* The steps that reach the hypervisor.
LEMMA HypervisorSteps ==
  ASSUME Boot!BootAssumption, BootInv,
         \/ Boot!StartHypervisor \/ Boot!HypervisorTraps \/ Boot!CreateTestVcpu
         \/ Boot!RunTestVcpu \/ Boot!TestGuestExits
         \/ \E n \in 0 .. 1 : Boot!InitHypervisorAgain(n)
  PROVE  BootInv'
<1>. USE DEF BootInv
<1>0. buffers \in Nat /\ ready \in {{}, Boot!Units} /\ HvInv
  BY DEF Boot!TypeOK
<1>1. CASE Boot!StartHypervisor
  <2>1. PICK ok \in BOOLEAN : /\ Boot!BemiInitHypervisor(gCpuCount, ok)
                            /\ pc' = IF ok THEN "test guest" ELSE "install"
    BY <1>1 DEF Boot!StartHypervisor
  <2>2. /\ pc = "hypervisor" /\ gBootMode = Boot!Legacy
        /\ UNCHANGED <<cpu, nvram, gBootMode, gCpuCount, gBemiThreadCount, testPages, asked>>
    BY <1>1 DEF Boot!StartHypervisor, Boot!HypervisorWanted
  <2>3. /\ HvInv' /\ (NoVcpus => NoVcpus') /\ buffers' \in Nat /\ ready' \in {{}, Boot!Units}
        /\ IF ok THEN ready' # {} ELSE ready' = ready
    BY <1>0, <2>1, <2>2, HypervisorInitialised
  <2>. QED  BY <2>1, <2>2, <2>3 DEF Boot!TypeOK, Boot!ModeMatchesStore, StepHolds, Early, Guesting, Boot!BemiGetBootMode
<1>2. CASE Boot!HypervisorTraps
  <2>1. /\ pc = "hypervisor" /\ pc' = "trapped" /\ Boot!BackendInitTraps(gCpuCount)
        /\ UNCHANGED <<cpu, nvram, gBootMode, gCpuCount, gBemiThreadCount, testPages, asked,
                       buffers, ready>>
    BY <1>2 DEF Boot!HypervisorTraps, Boot!coreVars
  <2>2. HvInv'
    BY <1>0, <2>1, BackendTrapped
  <2>. QED  BY <2>1, <2>2 DEF Boot!TypeOK, Boot!ModeMatchesStore, StepHolds, Early, Guesting, Boot!BemiGetBootMode, Boot!Ended
<1>3. CASE Boot!CreateTestVcpu
  <2>1. /\ pc = "create"
        /\ UNCHANGED <<cpu, nvram, gBootMode, gCpuCount, gBemiThreadCount, asked, buffers, ready>>
        /\ \/ pc' = "run" /\ testPages' = testPages /\ Boot!VcpuCreate(0, TRUE)
           \/ pc' = "install" /\ testPages' = {} /\ Boot!VcpuCreate(0, FALSE)
    BY <1>3 DEF Boot!CreateTestVcpu, Boot!CreateFailed, Boot!FreeTestPages
  <2>2. NoVcpus /\ ready # {} /\ gBootMode = Boot!Legacy
    BY <2>1 DEF StepHolds, Guesting, Early
  <2>3. HvInv'
    BY <1>0, <2>1, <2>2, VcpuCreated
  <2>. QED  BY <2>1, <2>2, <2>3 DEF Boot!TypeOK, Boot!ModeMatchesStore, StepHolds, Early, Guesting, Boot!BemiGetBootMode
<1>4. CASE Boot!RunTestVcpu
  <2>1. /\ pc = "run"
        /\ UNCHANGED <<cpu, nvram, gBootMode, gCpuCount, gBemiThreadCount, asked, buffers, ready>>
        /\ \/ pc' = "install" /\ testPages' = {} /\ Boot!VcpuRun(0, TRUE)
           \/ pc' = "guest" /\ testPages' = testPages /\ Boot!VcpuRun(0, FALSE)
    BY <1>4 DEF Boot!RunTestVcpu, Boot!FreeTestPages
  <2>2. gBootMode = Boot!Legacy
    BY <2>1 DEF StepHolds, Guesting
  <2>3. HvInv'
    BY <1>0, <2>1, VcpuRan
  <2>. QED  BY <2>1, <2>2, <2>3 DEF Boot!TypeOK, Boot!ModeMatchesStore, StepHolds, Early, Guesting, Boot!BemiGetBootMode, Boot!Ended
<1>5. ASSUME NEW n \in 0 .. 1, Boot!InitHypervisorAgain(n)
      PROVE  BootInv'
  <2>1. /\ pc = "running"
        /\ UNCHANGED <<cpu, nvram, gBootMode, gCpuCount, gBemiThreadCount, testPages, asked>>
    BY <1>5 DEF Boot!InitHypervisorAgain
  <2>2. \/ pc' = pc /\ \E ok \in BOOLEAN : Boot!BemiInitHypervisor(n, ok)
        \/ pc' = "trapped" /\ Boot!BackendInitTraps(n) /\ UNCHANGED <<buffers, ready>>
    BY <1>5 DEF Boot!InitHypervisorAgain
  <2>3. HvInv' /\ buffers' \in Nat /\ ready' \in {{}, Boot!Units} /\ pc' \in {"running", "trapped"}
    BY <1>0, <2>1, <2>2, HypervisorInitialised, BackendTrapped
  <2>. QED  BY <2>1, <2>3 DEF Boot!TypeOK, Boot!ModeMatchesStore, StepHolds, Early, Guesting, Boot!BemiGetBootMode, Boot!Ended
<1>6. CASE Boot!TestGuestExits
  <2>1. /\ pc = "guest" /\ pc' = "lost"
        /\ UNCHANGED <<cpu, nvram, gBootMode, gCpuCount, gBemiThreadCount, testPages, asked,
                       buffers, ready, Boot!hvVars>>
    BY <1>6 DEF Boot!TestGuestExits, Boot!ExitNowhere, Boot!coreVars
  <2>2. HvInv'
    BY <1>0, <2>1, HvStays
  <2>. QED  BY <2>1, <2>2 DEF Boot!TypeOK, Boot!ModeMatchesStore, StepHolds, Early, Guesting, Boot!BemiGetBootMode, Boot!Ended
<1>. QED  BY <1>1, <1>2, <1>3, <1>4, <1>5, <1>6

\* After a reset the driver starts over, with the variable store as it was.
LEMMA Rebooted ==
  ASSUME Boot!BootAssumption, BootInv, Boot!Reboot
  PROVE  BootInv'
<1>1. /\ UNCHANGED <<cpu, linked, nvram, asked>> /\ pc' = "topology"
      /\ backend' = NULL /\ ~vmxe' /\ ~svme' /\ NoVcpus' /\ nextPage' = 0 /\ held' = {}
      /\ reinits' = 0 /\ gBootMode' = 0 /\ gCpuCount' = 0 /\ testPages' = {} /\ buffers' = 0
      /\ ready' = {} /\ gBemiThreadCount' = 144
  BY DEF Boot!Reboot, NoVcpus
<1>2. Boot!TypeOK' /\ Boot!ModeMatchesStore' /\ StepHolds'
  <2>1. Boot!TypeOK'
    <3>1. nvram' \in Boot!Byte \cup {WIDE, NULL}
      BY <1>1 DEF BootInv, Boot!TypeOK
    <3>2. gBootMode' \in Boot!Byte
      BY <1>1 DEF Boot!Byte
    <3>. QED  BY <1>1, <3>1, <3>2 DEF Boot!TypeOK
  <2>2. Boot!ModeMatchesStore'
    BY <1>1 DEF BootInv, Boot!ModeMatchesStore
  <2>3. Untouched'
    BY <1>1 DEF Untouched
  <2>4. StepHolds'
    BY <1>1, <2>3 DEF StepHolds, Guesting
  <2>. QED  BY <2>1, <2>2, <2>4
<1>3. VcpusIdle'
  BY <1>1, NoVcpusHold, PTL
<1>4. HvInv'
  BY <1>1, <1>3 DEF BootInv, Boot!BootAssumption, Boot!StartAssumption, HvInv, VcpusIdle, BackendByBuild,
                    UnitsBehind, Boot!NoPageLost
<1>. QED  BY <1>2, <1>4 DEF BootInv

LEMMA NextBoot ==
  ASSUME Boot!BootAssumption, BootInv, [Boot!Next]_Boot!vars
  PROVE  BootInv'
<1>1. CASE UNCHANGED Boot!vars
  <2>1. UNCHANGED <<cpu, Boot!hvVars, ready>>
    BY <1>1 DEF Boot!vars, Boot!coreVars
  <2>2. HvInv'
    BY <2>1, HvStays DEF BootInv
  <2>3. UNCHANGED <<vmxe, svme, held, backend, gVcpuState>>
    BY <2>1 DEF Boot!hvVars
  <2>4. UNCHANGED <<pc, nvram, gBootMode, gCpuCount, gBemiThreadCount, testPages, asked, buffers,
                    ready>>
    BY <1>1 DEF Boot!vars, Boot!coreVars
  <2>5. Boot!TypeOK' /\ Boot!ModeMatchesStore'
    BY <2>4 DEF BootInv, Boot!TypeOK, Boot!ModeMatchesStore, Boot!BemiGetBootMode
  <2>6. (Untouched <=> Untouched') /\ (NoVcpus <=> NoVcpus')
    BY <2>3, <2>4 DEF Untouched, NoVcpus
  <2>7. StepHolds'
    BY <2>4, <2>6 DEF BootInv, StepHolds
  <2>. QED  BY <2>2, <2>5, <2>7 DEF BootInv
<1>2. CASE Boot!BootStep
  BY <1>2, QuietSteps, HypervisorSteps DEF Boot!BootStep
<1>3. CASE Boot!Reboot
  BY <1>3, Rebooted
<1>. QED  BY <1>1, <1>2, <1>3, QuietSteps, HypervisorSteps DEF Boot!Next

LEMMA StepOfBoot == [Next]_vars => [Boot!Next]_Boot!vars
<1>1. BootStep => Boot!Next
  BY DEF BootStep
<1>2. [Next]_vars => BootStep \/ UNCHANGED bootVars
  <2>1. [Next]_vars =>
          BootStep \/ ServiceStep \/ ExitStep \/ ApicStep \/ ShadowStep \/ SmmStep \/ UNCHANGED vars
    BY DEF Next
  <2>2. ServiceStep \/ ExitStep \/ ApicStep \/ ShadowStep \/ SmmStep => UNCHANGED bootVars
    BY DEF ServiceStep, ExitStep, ApicStep, ShadowStep, SmmStep
  <2>3. UNCHANGED vars => UNCHANGED bootVars
    BY DEF vars
  <2>. QED  BY <2>1, <2>2, <2>3
<1>3. UNCHANGED bootVars => UNCHANGED Boot!vars
  BY DEF bootVars, Boot!vars, Boot!hvVars, Boot!tableVars, Boot!coreVars
<1>. QED  BY <1>1, <1>2, <1>3

LEMMA BootInvAlways == Spec => []BootInv
<1>1. Boot!BootAssumption
  BY PartsAssumption DEF PartsAssumption
<1>2. Init => BootInv
  BY <1>1, InitBoot DEF Init
<1>3. BootInv /\ [Next]_vars => BootInv'
  BY <1>1, StepOfBoot, NextBoot
<1>. QED  BY <1>2, <1>3, PTL DEF Spec

\* The mode in memory and the mode in the store agree across boots unless a write
\* failed or came from elsewhere; the test guest's pages are given back on every
\* way out.
THEOREM BootStateAlways == Spec => []BootStateSound
<1>1. BootInv => BootStateSound
  BY BootInvGives DEF BootStateSound
<1>. QED  BY <1>1, BootInvAlways, PTL

\* The hypervisor is touched only when asked for, starts only where the processor
\* can run it, gives no vCPU that cannot be entered, and loses no page.
THEOREM HypervisorAlways == Spec => []HypervisorReady
<1>1. BootInv => HypervisorReady
  BY BootInvGives DEF HypervisorReady
<1>. QED  BY <1>1, BootInvAlways, PTL

===============================================================================
