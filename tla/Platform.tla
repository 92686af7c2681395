-------------------------------- MODULE Platform --------------------------------
(***************************************************************************)
(* The firmware around the performance units: the boot, the guest's exits, *)
(* the shadow APIC, the shadowed registers, the management interrupt and   *)
(* the services of a legacy boot.                                          *)
(*                                                                         *)
(* No two of them share state that both write (the page fault of GuestExits *)
(* reaches one register of the APIC that ApicVmx leaves out), and the boot  *)
(* is over before the others are called, so as in PerformanceUnits one     *)
(* part takes steps and the others stay at rest.                           *)
(***************************************************************************)
EXTENDS Integers

CONSTANTS
  Parts,   \* "boot", "exits", "apic", "msr", "smm", "legacy"
  NULL, WIDE,
  \* BootFlow
  HvBase, HvLast, ExtBase, HvLeaves, MaxOverrides, VcpuIds, MaxPages, ControlBits, MustBeOne,
  MayBeOne, Requested, ByteValues, Machines, PcdBemiBootMode, MaxBoots, MaxInits,
  \* GuestExits
  W, Gprs, Files, Leaves, MaxLeaf, VmxBit, HvBit, Crs, Protected, Lengths, Window,
  \* ApicVmx
  Regs, RegBits, MinTimerVector, TimerVectors, MaxCount,
  \* MsrShadow
  Rows, Ranges, Others, Values, MaxShadowMsrs,
  \* SmmHandler
  TicksPerUs, BudgetUs, MaxTime, MaxSmis,
  \* LegacyServices
  Disks, MemoryMaps, Capacities

VARIABLES
  part,
  cpu, gCpuidOverrides, linked, backend, hvCpuCount, vmxe, svme, vmxOn, current, gVcpuState,
  vmcs, nextPage, held, reinits, madt, madtAt, madtFreed, smbios, pc, nvram, gBootMode,
  gCpuCount, gBemiThreadCount, testPages, buffers, ready, asked, boots, initCalls,
  core, gpr, rip, cr, exitMsr, lapicId, exit, wrote, answer,
  irr, isr, lvt, timer, entry, owed,
  gMsrShadowTable, msr, guest, initial,
  tsc, gSmmState, gSmmStats, gSmmActive, fault, began, late, unpaired,
  disks, memory, legacyPc, pools, call, owned, e820

bootVars   == <<cpu, gCpuidOverrides, linked, backend, hvCpuCount, vmxe, svme, vmxOn, current,
                gVcpuState, vmcs, nextPage, held, reinits, madt, madtAt, madtFreed, smbios, pc,
                nvram, gBootMode, gCpuCount, gBemiThreadCount, testPages, buffers, ready,
                asked, boots, initCalls>>
exitVars   == <<core, gpr, rip, cr, exitMsr, lapicId, exit, wrote, answer>>
apicVars   == <<irr, isr, lvt, timer, entry, owed>>
msrVars    == <<gMsrShadowTable, msr, guest, initial>>
smmVars    == <<tsc, gSmmState, gSmmStats, gSmmActive, fault, began, late, unpaired>>
legacyVars == <<disks, memory, legacyPc, pools, call, owned, e820>>
vars == <<part, bootVars, exitVars, apicVars, msrVars, smmVars, legacyVars>>

-------------------------------------------------------------------------------

Boot == INSTANCE BootFlow

Exits == INSTANCE GuestExits WITH NONE <- NULL, msr <- exitMsr

Apic == INSTANCE ApicVmx WITH NONE <- NULL

Shadow == INSTANCE MsrShadow WITH NONE <- NULL

Smm == INSTANCE SmmHandler

Services == INSTANCE LegacyServices WITH pc <- legacyPc

\* The assumptions of the parts on their constants.
ASSUME PartsAssumption ==
  /\ Boot!BootAssumption /\ Exits!ExitsAssumption /\ Apic!ApicAssumption
  /\ Shadow!MsrAssumption /\ Smm!SmmAssumption /\ Services!LegacyAssumption

-------------------------------------------------------------------------------

\* A part that does not run keeps one of its initial states.
Init ==
  /\ part \in Parts
  /\ Boot!Init /\ (part # "boot" => /\ cpu = CHOOSE m \in Machines : TRUE
                                   /\ linked = "vmxcore" /\ nvram = NULL)
  /\ Exits!Init /\ (part # "exits" => core = "vmx" /\ gpr = CHOOSE f \in Files : TRUE)
  /\ Apic!Init /\ Shadow!Init /\ Smm!Init
  /\ Services!Init /\ (part # "legacy" => /\ disks = CHOOSE d \in Disks : TRUE
                                         /\ memory = CHOOSE m \in MemoryMaps : TRUE)

\* Part p takes the step and the others rest.
Only(p) == part = p /\ UNCHANGED part

Rest == UNCHANGED <<exitVars, apicVars, msrVars, smmVars, legacyVars>>

BootStep == Only("boot") /\ Boot!Next /\ Rest

ExitStep ==
  /\ Only("exits") /\ Exits!Next
  /\ UNCHANGED <<bootVars, apicVars, msrVars, smmVars, legacyVars>>

ApicStep ==
  /\ Only("apic") /\ Apic!Next
  /\ UNCHANGED <<bootVars, exitVars, msrVars, smmVars, legacyVars>>

ShadowStep ==
  /\ Only("msr") /\ Shadow!Next
  /\ UNCHANGED <<bootVars, exitVars, apicVars, smmVars, legacyVars>>

SmmStep ==
  /\ Only("smm") /\ Smm!Next
  /\ UNCHANGED <<bootVars, exitVars, apicVars, msrVars, legacyVars>>

ServiceStep ==
  /\ Only("legacy") /\ Services!Next
  /\ UNCHANGED <<bootVars, exitVars, apicVars, msrVars, smmVars>>

Next == BootStep \/ ExitStep \/ ApicStep \/ ShadowStep \/ SmmStep \/ ServiceStep

\* BootFlow's fairness.
Spec == Init /\ [][Next]_vars /\ WF_vars(Only("boot") /\ Boot!BootStep /\ Rest)

-------------------------------------------------------------------------------

\* Every part has its types.
TypeOK ==
  /\ Boot!TypeOK /\ Exits!TypeOK /\ Apic!TypeOK /\ Shadow!TypeOK /\ Smm!TypeOK
  /\ Services!TypeOK

\* The boot mode and its store agree across resets, and the test guest's pages
\* are given back.
BootStateSound == Boot!BootStateSound

\* The hypervisor runs only where asked, on a processor that can, and keeps its
\* pages.
HypervisorReady == Boot!HypervisorReady

\* CPUID shows the features the firmware adds and is the processor's otherwise,
\* but for subleaf 0 of the leaves the table fills without naming a subleaf.
GuestProcessor == Boot!GuestProcessor

\* The MADT and the SMBIOS structures count the same processors.
TablesAgree == Boot!TablesAgree

\* A test guest that is run comes to its end and the boot goes on.
TestGuestCompletes == Boot!TestGuestCompletes

\* Leaf 1 hides two features from the guest, no exit changes a protected MSR, and
\* under VMX the other MSRs hold what the guest wrote.
GuestKeptIn == Exits!GuestKeptIn

\* An exit that is handled as meant retires one instruction and changes nothing
\* else.
ExitTransparent == Exits!ExitTransparent

\* The timer never hangs, and no interrupt is delivered that nobody requested.
ApicSound == Apic!ApicSound

\* The interrupt delivered is the highest one pending.
HighestFirst == Apic!HighestFirst

\* A guest reads its own shadowed values.
ShadowRegisters == Shadow!ShadowRegisters

\* The management handler's verdict is the truth while its calls are paired.
SmmBudget == Smm!SmmBudget

\* The legacy services free what they allocate and hand over the right sector.
ServicesSound == Services!ServicesSound

===============================================================================
