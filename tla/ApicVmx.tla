-------------------------------- MODULE ApicVmx --------------------------------
(***************************************************************************)
(* The shadow local APIC, hwcompat/apic/ApicShadow.c, and the end of every *)
(* VM exit, which takes an interrupt from it (BemiVmxExitHandler in        *)
(* hypervisor/vmx/vmxcore.c).                                              *)
(*                                                                         *)
(* The request and in-service registers are the sets irr and isr of the    *)
(* vectors whose bits are set; Regs registers of RegBits bits each make    *)
(* them up, and ApicShadowWrite stores any value in any of them.  Register *)
(* offsets without a side effect are left out, and so is what the          *)
(* processor does with the VM-entry field.  MaxCount bounds the timer      *)
(* counts that are written.                                                *)
(***************************************************************************)
EXTENDS Integers, FiniteSets

CONSTANTS
  Regs, RegBits,    \* 8 registers of 32 bits
  MinTimerVector,   \* 16
  TimerVectors,     \* the vectors written to the timer's LVT
  MaxCount,
  NONE

Vector == 0 .. Regs * RegBits - 1
RegIndex == 0 .. Regs - 1
Bits(i) == i * RegBits .. i * RegBits + RegBits - 1

ApicAssumption ==
  /\ Regs \in Nat \ {0} /\ RegBits \in Nat \ {0}
  /\ TimerVectors \subseteq Vector
  /\ MinTimerVector \in Nat /\ MaxCount \in Nat
  /\ NONE \notin Vector

VARIABLES
  irr, isr,     \* offsets 0x200 and 0x100 of gLapicRegs
  lvt,          \* gTimerLvt: vector, mask (bit 16), periodic (bit 17)
  timer,        \* gTimerEnabled, gTimerInitialCount, gTimerCurrentCount
  entry,        \* what the last VM exit wrote to the VM-entry interrupt field
  owed          \* vectors requested and not written to that field since

vars == <<irr, isr, lvt, timer, entry, owed>>

Lvt == [vector : TimerVectors, masked : BOOLEAN, periodic : BOOLEAN]
Stopped == [enabled |-> FALSE, initial |-> 0, current |-> 0]

-------------------------------------------------------------------------------

\* The zeroed statics: the timer is not masked until ApicShadowInit.
Init ==
  /\ irr = {} /\ isr = {} /\ owed = {}
  /\ lvt = [vector |-> 0, masked |-> FALSE, periodic |-> FALSE]
  /\ timer = Stopped
  /\ entry = NONE

ApicShadowInit ==
  /\ irr' = {} /\ isr' = {} /\ owed' = {}
  /\ lvt' = [vector |-> 0, masked |-> TRUE, periodic |-> FALSE]
  /\ timer' = Stopped
  /\ UNCHANGED entry

ApicShadowInjectInterrupt(v) ==
  /\ irr' = irr \cup {v}
  /\ owed' = owed \cup {v}
  /\ UNCHANGED <<isr, lvt, timer, entry>>

\* A write of the bits b to request register i counts as requesting them.
WriteIrr(i, b) ==
  /\ irr' = (irr \ Bits(i)) \cup b
  /\ owed' = (owed \ Bits(i)) \cup b
  /\ UNCHANGED <<isr, lvt, timer, entry>>

WriteIsr(i, b) ==
  /\ isr' = (isr \ Bits(i)) \cup b
  /\ UNCHANGED <<irr, lvt, timer, entry, owed>>

\* A running timer goes on when its LVT is rewritten, masked or not.
WriteLvt(l) ==
  /\ lvt' = l
  /\ UNCHANGED <<irr, isr, timer, entry, owed>>

WriteInitialCount(n) ==
  /\ timer' = [enabled |-> n > 0 /\ ~lvt.masked, initial |-> n, current |-> n]
  /\ UNCHANGED <<irr, isr, lvt, entry, owed>>

\* Mutant of TopRegister: the registers are scanned upwards.
TopRegisterUp(s) ==
  CHOOSE i \in RegIndex : /\ s \cap Bits(i) # {}
                          /\ \A j \in RegIndex : j < i => s \cap Bits(j) = {}

\* The register the downward scan stops at.
TopRegister(s) ==
  CHOOSE i \in RegIndex : /\ s \cap Bits(i) # {}
                          /\ \A j \in RegIndex : j > i => s \cap Bits(j) = {}

\* 31 - AsmMsb32(r), with AsmMsb32 counting leading zeros: the highest bit.
TopBit(s) == CHOOSE v \in s : \A w \in s : w <= v

Top(s) == TopBit(s \cap Bits(TopRegister(s)))

ApicShadowEoi ==
  /\ isr' = IF isr = {} THEN {} ELSE isr \ {Top(isr)}
  /\ UNCHANGED <<irr, lvt, timer, entry, owed>>

\* Mutant of Expired: a one-shot timer stays enabled.
ExpiredEnabled ==
  [timer EXCEPT !.current = IF lvt.periodic THEN timer.initial ELSE 0]

\* Mutant of Expired: the periodic reload is one tick too long.
ExpiredLate ==
  IF lvt.periodic THEN [timer EXCEPT !.current = timer.initial + 1]
                  ELSE [timer EXCEPT !.current = 0, !.enabled = FALSE]

Expired ==
  IF lvt.periodic THEN [timer EXCEPT !.current = timer.initial]
                  ELSE [timer EXCEPT !.current = 0, !.enabled = FALSE]

ApicShadowTimerTick ==
  /\ timer.enabled /\ timer.current > 0
  /\ IF timer.current > 1
     THEN /\ timer' = [timer EXCEPT !.current = @ - 1]
          /\ UNCHANGED <<irr, owed>>
     ELSE /\ timer' = Expired
          /\ LET raised == {lvt.vector} \cap {v \in Vector : v >= MinTimerVector}
             IN  irr' = irr \cup raised /\ owed' = owed \cup raised
  /\ UNCHANGED <<isr, lvt, entry>>

\* Mutant of Dequeued: the request bit stays set.
DequeuedKept == irr

\* The request register after its highest vector has moved to service.
Dequeued == irr \ {Top(irr)}

\* The end of BemiVmxExitHandler, whatever the exit reason; flag is the
\* guest's RFLAGS.IF.  The vector is taken before the flag is tested.
VmExit(flag) ==
  /\ IF irr = {}
     THEN entry' = NONE /\ UNCHANGED <<irr, isr, owed>>
     ELSE /\ irr' = Dequeued
          /\ isr' = isr \cup {Top(irr)}
          /\ entry' = IF flag THEN Top(irr) ELSE NONE
          /\ owed' = owed \ {entry'}
  /\ UNCHANGED <<lvt, timer>>

Next ==
  \/ ApicShadowInit
  \/ \E v \in Vector : ApicShadowInjectInterrupt(v)
  \/ \E i \in RegIndex : \E b \in SUBSET Bits(i) : WriteIrr(i, b)
  \/ \E i \in RegIndex : \E b \in SUBSET Bits(i) : WriteIsr(i, b)
  \/ \E l \in Lvt : WriteLvt(l)
  \/ \E n \in 0 .. MaxCount : WriteInitialCount(n)
  \/ ApicShadowEoi
  \/ ApicShadowTimerTick
  \/ \E flag \in BOOLEAN : VmExit(flag)

Spec == Init /\ [][Next]_vars

-------------------------------------------------------------------------------

\* Every field has its type.
TypeOK ==
  /\ irr \subseteq Vector /\ isr \subseteq Vector /\ owed \subseteq Vector
  /\ lvt \in [vector : TimerVectors \cup {0}, masked : BOOLEAN, periodic : BOOLEAN]
  /\ timer \in [enabled : BOOLEAN, initial : 0 .. MaxCount,
                current : 0 .. MaxCount]
  /\ entry \in Vector \cup {NONE}

\* An enabled timer has something left to count, so the next expiry always
\* comes: no sequence of LVT rewrites, count writes and ticks leaves it enabled
\* at zero, where ApicShadowTimerTick would ignore it for ever.
TimerRuns == timer.enabled => timer.current > 0 /\ timer.current <= timer.initial

\* One delivery per request: a vector is pending only if it has been requested
\* since it was last handed to the guest.
NoSpuriousInterrupt == irr \subseteq owed

\* No sequence of register writes, ticks and exits stops the timer or invents an
\* interrupt.
ApicSound == TimerRuns /\ NoSpuriousInterrupt

\* The vector handed to the guest outranks everything left pending, across
\* registers as well as within one.
HighestFirst ==
  [][VmExit(TRUE) => \A w \in irr' : w < entry']_vars

\* The comment on the delivery step: a pending interrupt is delivered if IF is
\* set, so an exit with IF set hands the guest some interrupt it is owed.
DeliveredIfInterruptible ==
  [][VmExit(TRUE) /\ owed # {} => entry' \in owed]_vars

===============================================================================
