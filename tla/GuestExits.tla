------------------------------- MODULE GuestExits -------------------------------
(***************************************************************************)
(* The exit handlers: BemiVmxExitHandler of hypervisor/vmx/vmxcore.c and    *)
(* BemiSvmExitHandler of hypervisor/svm/svmcore.c, with the handlers of one *)
(* exit each they share.  HandleCrAccess and HandleIoExit are defined twice; *)
(* the VMX core is taken with those of its own file and the SVM core with   *)
(* those of hypervisor/common/hypervisorbackend.c.                          *)
(*                                                                         *)
(* A half register has W values, a register W * W; MSR numbers and CPUID    *)
(* leaves are half registers.  Before each exit the guest loads its         *)
(* registers with one of Files.  The interrupt that ends a VMX exit is in    *)
(* ApicVmx.                                                                 *)
(*                                                                         *)
(* GUEST_STATE and the processor number the registers differently: Numbered *)
(* is the place in GUEST_STATE of the register an instruction names.        *)
(***************************************************************************)
EXTENDS Integers

CONSTANTS
  W,           \* 2^32
  Gprs,        \* places in GUEST_STATE, those of RAX, RBX, RCX and RDX among them
  Files,       \* the register contents the guest is looked at with
  Leaves,      \* CPUID of the processor: leaf -> <<EAX, EBX, ECX, EDX>>
  MaxLeaf,     \* 0x1F
  VmxBit, HvBit,  \* the values of bits 5 and 31 of ECX
  Crs,         \* the control registers kept: 0, 3 and 4
  Protected,   \* the MSRs 0x3A and 0x13C
  Lengths,     \* of instructions
  Window,      \* instruction pointers are taken modulo this
  NONE

RAX == 0
RBX == 1
RCX == 2
RDX == 3

\* The processor's order is RAX, RCX, RDX, RBX, RSP, RBP, RSI, RDI, R8 and so on;
\* GUEST_STATE's is RAX, RBX, RCX, RDX, RSI, RDI, RBP, RSP, R8 and so on.
Numbered(n) == IF n \in 1 .. 7 THEN <<RCX, RDX, RBX, 7, 6, 4, 5>>[n] ELSE n

Word == 0 .. W - 1
Register == 0 .. W * W - 1

Low(r)  == r % W
High(r) == r \div W

ExitsAssumption ==
  /\ {RAX, RBX, RCX, RDX} \subseteq Gprs
  /\ Files \subseteq [Gprs -> Register]
  /\ Leaves \in [Word -> [1 .. 4 -> Word]]
  /\ Protected \subseteq Word /\ MaxLeaf \in Word
  /\ HvBit \in Nat \ {0} /\ VmxBit \in Nat \ {0} /\ W = 2 * HvBit
  /\ Window \in Nat \ {0, 1} /\ Lengths \subseteq 1 .. Window - 1

VARIABLES
  core,    \* "vmx" or "svm"
  gpr, rip, cr,
  msr,     \* the processor's: number -> value
  lapicId, \* register 0 of the shadow APIC
  exit,    \* the exit to be handled, or NONE
  wrote,   \* what a WRMSR of the guest last wrote to an MSR it may write, or NONE
  answer   \* after a handled exit: what kind of answer the registers hold

vars == <<core, gpr, rip, cr, msr, lapicId, exit, wrote, answer>>

-------------------------------------------------------------------------------

Init ==
  /\ core \in {"vmx", "svm"}
  /\ gpr \in Files /\ rip = 0
  /\ cr = [c \in Crs |-> 0] /\ msr = [m \in Word |-> 0] /\ lapicId = 0
  /\ exit = NONE /\ wrote = [m \in Word |-> NONE] /\ answer = "none"

\* Exits of instructions the handlers know, of others, and of events that no
\* instruction caused.
Instructions == {"CPUID", "RDMSR", "WRMSR", "IO", "HLT", "INVD", "XSETBV", "VMCALL", "other"}
Events == {"EXTERNAL_INT", "INT_WINDOW", "PREEMPTION"}
Faults == {"EPT_VIOLATION", "EPT_MISCONFIG"}

\* num is the control register of an access, type how it is accessed (0 to it, 1
\* from it, 2 CLTS, 3 LMSW), reg the processor's number of the other operand.
Exit(reason, length) == [reason |-> reason, length |-> length, num |-> 0, type |-> 0, reg |-> 0]

Exits ==
  {Exit(r, l) : r \in Instructions \cup Faults \cup Events, l \in Lengths}
    \cup [reason : {"CR_ACCESS"}, length : Lengths, num : Crs \cup {8}, type : 0 .. 3,
          reg : Gprs]
    \cup [reason : {"NPF"}, length : Lengths, num : {0, 1}, type : 0 .. 1, reg : {0}]

\* The exits the processor of a core takes: nested paging is SVM's.
Takes(e) == IF core = "vmx" THEN e.reason # "NPF" ELSE e.reason \notin Events \cup Faults

GuestExit(file, e) ==
  /\ exit = NONE /\ Takes(e)
  /\ gpr' = file /\ exit' = e /\ answer' = "none"
  /\ UNCHANGED <<core, rip, cr, msr, lapicId, wrote>>

\* The fields of the control structure, as a handler reads and writes them.
VmxReadGuestState == [rip |-> rip, cr |-> cr]

VmxWriteGuestState(s) == rip' = s.rip % Window /\ cr' = s.cr

\* Only the instruction pointer differs when the state is written back.
Advance(n) == VmxWriteGuestState([VmxReadGuestState EXCEPT !.rip = @ + n])

-------------------------------------------------------------------------------

\* Mutant of Leaf: all of RAX is the leaf.
LeafWhole == gpr[RAX]

Leaf == Low(gpr[RAX])

ClearBit(x, bit) == IF (x \div bit) % 2 = 1 THEN x - bit ELSE x

\* AsmCpuidEx, with the two features hidden and the number of leaves cut.
CpuidFor(leaf) ==
  LET raw == Leaves[leaf % W]
  IN  IF leaf = 1 THEN [raw EXCEPT ![3] = ClearBit(ClearBit(@, HvBit), VmxBit)]
      ELSE IF leaf = 0 /\ raw[1] > MaxLeaf THEN [raw EXCEPT ![1] = MaxLeaf] ELSE raw

HandleCpuidExit ==
  /\ LET regs == CpuidFor(Leaf)
     IN  gpr' = [gpr EXCEPT ![RAX] = regs[1], ![RBX] = regs[2], ![RCX] = regs[3],
                            ![RDX] = regs[4]]
  /\ answer' = IF Low(gpr[RAX]) = 1 THEN "features" ELSE "none"
  /\ Advance(exit.length)
  /\ UNCHANGED <<msr, lapicId, wrote>>

\* Mutant of MsrValue: the upper half of RAX is not cut off.
MsrValueUncut == (gpr[RAX] + gpr[RDX] * W) % (W * W)

\* EDX:EAX; the shift drops the upper half of RDX.
MsrValue == Low(gpr[RAX]) + Low(gpr[RDX]) * W

\* Only the VMX exit reasons tell reading from writing: under SVM a read is
\* carried out as a write.
IsRead == core = "vmx" /\ exit.reason = "RDMSR"

HandleMsrExit ==
  LET m == Low(gpr[RCX])
  IN  /\ IF IsRead
         THEN /\ gpr' = [gpr EXCEPT ![RAX] = Low(msr[m]), ![RDX] = High(msr[m])]
              /\ UNCHANGED <<msr, wrote>>
         ELSE /\ msr' = IF m \in Protected THEN msr ELSE [msr EXCEPT ![m] = MsrValue]
              /\ wrote' = IF exit.reason = "RDMSR" \/ m \in Protected THEN wrote
                          ELSE [wrote EXCEPT ![m] = <<Low(gpr[RDX]), Low(gpr[RAX])>>]
              /\ UNCHANGED gpr
      /\ answer' = IF IsRead THEN "msr" ELSE "none"
      /\ Advance(exit.length)
      /\ UNCHANGED lapicId

\* The control registers after value was moved to the one the exit names.
CrLoaded(value) == IF exit.num \in Crs THEN [cr EXCEPT ![exit.num] = value] ELSE cr

\* Control registers and guest registers after an access; vmxcore.c's: the
\* processor's number is taken for a place in GUEST_STATE, everything but a move
\* to a control register for one from it, and a control register it does not keep
\* for zero.
VmxHandleCrAccess ==
  IF exit.type = 0 THEN <<CrLoaded(gpr[exit.reg]), gpr>>
  ELSE <<cr, [gpr EXCEPT ![exit.reg] = IF exit.num \in Crs THEN cr[exit.num] ELSE 0]>>

\* hypervisorbackend.c's: RAX, and the access types the other way round.
SvmHandleCrAccess ==
  IF exit.type # 0 THEN <<CrLoaded(gpr[RAX]), gpr>>
  ELSE <<cr, IF exit.num \in Crs THEN [gpr EXCEPT ![RAX] = cr[exit.num]] ELSE gpr>>

HandleCrAccess ==
  /\ LET moved == IF core = "vmx" THEN VmxHandleCrAccess ELSE SvmHandleCrAccess
     IN  /\ VmxWriteGuestState([rip |-> rip + exit.length, cr |-> moved[1]])
         /\ gpr' = moved[2]
  /\ answer' = "none"
  /\ UNCHANGED <<msr, lapicId, wrote>>

\* vmxcore.c's: port accesses are ignored.
VmxHandleIoExit == UNCHANGED gpr

\* hypervisorbackend.c's: reads go through to the port, and only the narrow ones
\* keep the upper half of RAX; writes change nothing.
SvmHandleIoExit ==
  \/ UNCHANGED gpr
  \/ \E v \in Word : \/ gpr' = [gpr EXCEPT ![RAX] = v]
                     \/ gpr' = [gpr EXCEPT ![RAX] = High(@) * W + v]

HandleIoExit ==
  /\ IF core = "vmx" THEN VmxHandleIoExit ELSE SvmHandleIoExit
  /\ answer' = "none"
  /\ Advance(exit.length)
  /\ UNCHANGED <<msr, lapicId, wrote>>

\* Mutant of Skipped: an exit for a pending interrupt skips an instruction.
SkippedAlways == exit.length

\* By how much the remaining VMX exits move the guest on.
Skipped == IF exit.reason \in Events THEN 0 ELSE exit.length

VmxResume ==
  /\ Advance(Skipped)
  /\ answer' = "none"
  /\ UNCHANGED <<gpr, msr, lapicId, wrote>>

\* What an access to the first register of the APIC's page gives: the register
\* and the value.
ApicShadowRead == lapicId

ApicHandleMmioAccess(isWrite, value) ==
  IF isWrite THEN <<Low(value), value>> ELSE <<lapicId, ApicShadowRead>>

\* A nested page fault.  The address has lost its page offset, so an access to
\* the APIC's page (num 1) is one to its register 0.
SvmNestedPageFault ==
  /\ IF exit.num = 0 THEN UNCHANGED <<gpr, lapicId>>
     ELSE LET access == ApicHandleMmioAccess(exit.type = 1, gpr[RAX])
          IN  /\ lapicId' = access[1]
              /\ gpr' = IF exit.type = 1 THEN gpr
                        ELSE [gpr EXCEPT ![RAX] = High(@) * W + Low(access[2])]
  /\ answer' = "none"
  /\ Advance(1)
  /\ UNCHANGED <<msr, wrote>>

\* HLT, and every exit the SVM handler does not know: one byte further.
SvmResume ==
  /\ Advance(IF exit.reason = "HLT" THEN exit.length ELSE 1)
  /\ answer' = "none"
  /\ UNCHANGED <<gpr, msr, lapicId, wrote>>

\* The switch of the two handlers, with the registers and the fields of the
\* control structure read before it and written back after it.
Handled ==
  /\ exit # NONE /\ exit' = NONE /\ UNCHANGED core
  /\ \/ exit.reason = "CPUID" /\ HandleCpuidExit
     \/ exit.reason \in {"RDMSR", "WRMSR"} /\ HandleMsrExit
     \/ exit.reason = "CR_ACCESS" /\ HandleCrAccess
     \/ exit.reason = "IO" /\ HandleIoExit
     \/ exit.reason \notin {"CPUID", "RDMSR", "WRMSR", "CR_ACCESS", "IO", "NPF"}
          /\ (IF core = "vmx" THEN VmxResume ELSE SvmResume)
     \/ exit.reason = "NPF" /\ SvmNestedPageFault

Next ==
  \/ \E file \in Files, e \in Exits : GuestExit(file, e)
  \/ Handled

Spec == Init /\ [][Next]_vars

-------------------------------------------------------------------------------

\* The guest's state has its type.
TypeOK ==
  /\ gpr \in [Gprs -> Register] /\ rip \in 0 .. Window - 1
  /\ cr \in [Crs -> Register] /\ msr \in [Word -> Register]
  /\ exit \in Exits \cup {NONE} /\ lapicId \in Word

\* Whatever the halves above bit 31 hold, the guest finds neither VMX nor a
\* hypervisor in leaf 1 and never changes a protected MSR; and an exit of VMX
\* leaves in every other MSR the halves the guest last wrote there.  (Under SVM a
\* read of an MSR overwrites it.)
GuestKeptIn ==
  /\ answer = "features" =>
       (gpr[RCX] \div VmxBit) % 2 = 0 /\ (gpr[RCX] \div HvBit) % 2 = 0
  /\ \A m \in Protected : msr[m] = 0
  /\ core = "vmx" =>
       \A m \in Word : wrote[m] # NONE => <<High(msr[m]), Low(msr[m])>> = wrote[m]

\* The moves between a control register and a register of one number in both
\* orders.  VMX's handler mistakes the other accesses: it takes another register
\* for the operand, and CLTS and LMSW for moves from a control register.
PlainMove(e) == e.type \in {0, 1} /\ Numbered(e.reg) = e.reg

\* The exits that are handled as the instruction they are for: not a fault, whose
\* instruction is skipped unexecuted, and under SVM neither a read of an MSR, which
\* it takes for a write, nor an access to a control register, which it does not
\* describe the way the handler reads it, nor what the handler does not know.
HandledAsMeant(e) ==
  /\ e.reason \notin Faults \cup {"NPF"}
  /\ e.reason = "CR_ACCESS" => PlainMove(e)
  /\ core = "svm" => e.reason \in {"CPUID", "WRMSR", "IO", "HLT"}

\* The registers each instruction may change.
Outputs(e) ==
  CASE e.reason = "CPUID" -> {RAX, RBX, RCX, RDX}
    [] e.reason = "RDMSR" -> {RAX, RDX}
    [] e.reason = "CR_ACCESS" /\ e.type = 1 -> {Numbered(e.reg)}
    [] e.reason = "IO" -> {RAX}
    [] OTHER -> {}

\* Where an exit is handled as meant, the guest goes on exactly after the
\* instruction (at it, if an event caused the exit) and finds changed only the
\* registers that instruction writes: a control register only by a move to it,
\* with the operand's value, and an MSR only by a WRMSR.
ExitTransparent ==
  [][Handled /\ HandledAsMeant(exit) =>
       /\ rip' = (rip + (IF exit.reason \in Events THEN 0 ELSE exit.length)) % Window
       /\ \A r \in Gprs \ Outputs(exit) : gpr'[r] = gpr[r]
       /\ cr' # cr => /\ exit.reason = "CR_ACCESS" /\ exit.type = 0
                      /\ cr' = [cr EXCEPT ![exit.num] = gpr[Numbered(exit.reg)]]
       /\ msr' # msr => exit.reason = "WRMSR"]_vars

===============================================================================
