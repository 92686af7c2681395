-------------------------------- MODULE BootFlow --------------------------------
(***************************************************************************)
(* The boot services driver: the entry point of                            *)
(* bemibioscore/dxe/bemibioscore.c with the routines of                    *)
(* post/postroutines.c it calls, the test guest, and the protocol that     *)
(* stays for the operating system.  The driver runs on one processor and   *)
(* nothing interrupts it; every call it makes may fail.                     *)
(*                                                                         *)
(* The variable store survives a reset, memory does not.  MaxBoots bounds  *)
(* the boots and MaxInits the calls of InitHypervisor.                      *)
(***************************************************************************)
EXTENDS HypervisorStart, FirmwareTables

CONSTANTS
  Machines,          \* the processors looked at
  PcdBemiBootMode,   \* the mode of a machine without the variable
  WIDE,              \* a variable of another size, NULL being none
  MaxBoots, MaxInits

Native == 0
Legacy == 1
BemiBootModeMax == 2
Byte == 0 .. 2     \* the two modes and one byte that is neither

BootAssumption ==
  /\ StartAssumption /\ SpoofAssumption /\ Machines \subseteq Cpu
  /\ PcdBemiBootMode \in {Native, Legacy} /\ ByteValues \in Nat \ {0}

VARIABLES
  pc,                \* what the driver does next, or how the boot ended
  nvram,             \* BEMI_NATIVE: a byte, WIDE or NULL
  gBootMode, gCpuCount, gBemiThreadCount,
  testPages,         \* the pages the test guest holds
  buffers, ready,    \* trace cache buffers allocated, and the units that got the last
  asked,             \* the mode last set or read, while the store is known to hold it
  boots, initCalls

coreVars == <<nvram, gBootMode, gCpuCount, gBemiThreadCount, testPages, buffers, ready, asked,
              boots, initCalls>>
vars == <<pc, cpu, gCpuidOverrides, hvVars, tableVars, coreVars>>

-------------------------------------------------------------------------------

PowerOn ==
  /\ HypervisorReset /\ TablesReset /\ gCpuidOverrides = <<>>
  /\ gBootMode = 0 /\ gCpuCount = 0 /\ gBemiThreadCount = 144
  /\ testPages = {} /\ buffers = 0 /\ ready = {}

Init ==
  /\ cpu \in Machines
  /\ linked \in (IF cpu.vendor = "Intel" THEN {"vmxcore"} ELSE {"vmxcore", "hypervisorbackend"})
  /\ nvram \in Byte \cup {WIDE, NULL}
  /\ pc = "topology" /\ PowerOn
  /\ asked = NULL /\ boots = 1 /\ initCalls = 0

\* A reset; only what the machine is and the variable store are left.
Reboot ==
  /\ boots < MaxBoots /\ boots' = boots + 1
  /\ pc' = "topology"
  /\ backend' = NULL /\ hvCpuCount' = 0 /\ vmxe' = FALSE /\ svme' = FALSE
  /\ vmxOn' = NULL /\ current' = NULL /\ gVcpuState' = [i \in VcpuIds |-> NoVcpu]
  /\ vmcs' = NoVmcs /\ nextPage' = 0 /\ held' = {} /\ reinits' = 0
  /\ madt' = <<>> /\ madtAt' = "nowhere" /\ madtFreed' = FALSE
  /\ smbios' = [types |-> {}, cores |-> 0] /\ gCpuidOverrides' = <<>>
  /\ gBootMode' = 0 /\ gCpuCount' = 0 /\ gBemiThreadCount' = 144
  /\ testPages' = {} /\ buffers' = 0 /\ ready' = {} /\ initCalls' = 0
  /\ UNCHANGED <<cpu, linked, nvram, asked>>

-------------------------------------------------------------------------------

\* PostDetectTopology: the counts of leaf 0x0B or, on older processors, of leaf
\* 1; the core count of leaf 0x0B already includes the threads.
ThreadsPerCore ==
  IF cpu.std >= 11 THEN (IF Len(cpu.levels) >= 1 THEN cpu.levels[1] ELSE 1)
  ELSE IF cpu.std >= 1 THEN cpu.ht ELSE 1

Cores ==
  IF cpu.std >= 11 /\ Len(cpu.levels) >= 2 /\ cpu.levels[2] # 0
  THEN cpu.levels[2] ELSE ThreadsPerCore

DetectedCpus == Cores * ThreadsPerCore

\* Megabytes of the last third-level cache among the subleaves before the end.
DetectedL3 ==
  IF cpu.std >= 4 /\ \E s \in 0 .. 9 : CacheType(s) = 3 /\ \A t \in 0 .. s : CacheType(t) # 0
  THEN cpu.l3Mb ELSE 0

PostDetectTopology == [cpus |-> DetectedCpus, l3Mb |-> DetectedL3]

Clamp(n) == IF n > 84 THEN 84 ELSE IF n < 1 THEN 1 ELSE n

PostCalculateThreadCount(cpus, l3Mb) ==
  Clamp(cpus * (IF l3Mb >= 16 THEN 4 ELSE IF l3Mb >= 8 THEN 3 ELSE 2))

\* What POST would ask of the processor; nothing calls it.
PostValidateVmxSupport == "VMX" \in cpu.flags /\ cpu.locked /\ cpu.outside

PostValidateSvmSupport == "SVM" \in cpu.flags

Topology ==
  /\ pc = "topology" /\ pc' = "mode"
  /\ LET t == PostDetectTopology
     IN  /\ gCpuCount' = t.cpus
         /\ gBemiThreadCount' = PostCalculateThreadCount(t.cpus, t.l3Mb)
  /\ UNCHANGED <<cpu, gCpuidOverrides, hvVars, tableVars, nvram, gBootMode, testPages, buffers,
                 ready, asked, boots, initCalls>>

-------------------------------------------------------------------------------

\* SetVariable, whose result no caller looks at.
SetVariable(mode, ok) ==
  /\ nvram' = IF ok THEN mode ELSE nvram
  /\ asked' = IF ok THEN mode ELSE NULL

\* A stored byte is taken as it is, also one that is no mode.
ModeRead ==
  /\ nvram \in Byte
  /\ gBootMode' = nvram
  /\ asked' = nvram
  /\ UNCHANGED nvram

\* The variable is not there or has another size, or the store fails.
ModeDefaulted(ok) ==
  /\ gBootMode' = PcdBemiBootMode
  /\ SetVariable(PcdBemiBootMode, ok)

ReadBootMode ==
  /\ pc = "mode" /\ pc' = "cpuid"
  /\ ModeRead \/ \E ok \in BOOLEAN : ModeDefaulted(ok)
  /\ UNCHANGED <<cpu, gCpuidOverrides, hvVars, tableVars, gCpuCount, gBemiThreadCount,
                 testPages, buffers, ready, boots, initCalls>>

SpoofCpuid ==
  /\ pc = "cpuid" /\ pc' = "acpi"
  /\ CpuidSpoofInit
  /\ UNCHANGED <<cpu, hvVars, tableVars, coreVars>>

InstallAcpi ==
  /\ pc = "acpi" /\ pc' = "smbios"
  /\ AcpiInitTables(gCpuCount)
  /\ UNCHANGED <<cpu, gCpuidOverrides, hvVars, coreVars>>

InstallSmbios ==
  /\ pc = "smbios" /\ pc' = "hypervisor"
  /\ SmbiosInitTables(gCpuCount)
  /\ UNCHANGED <<cpu, gCpuidOverrides, hvVars, coreVars>>

-------------------------------------------------------------------------------

Units == {"smm", "trace cache", "memory compressor"}

\* BemiInitHypervisor: the backend, then the buffer and the units behind it.  The
\* buffer of an earlier call is not given back.
BemiInitHypervisor(n, ok) ==
  \E started, room \in BOOLEAN :
    /\ ok = (started /\ room)
    /\ HypervisorBackendInit(n, started)
    /\ buffers' = IF ok THEN buffers + 1 ELSE buffers
    /\ ready' = IF ok THEN Units ELSE ready

\* Mutant of HypervisorWanted: unknown modes count as legacy.
HypervisorWantedUnlessNative == gBootMode # Native

HypervisorWanted == gBootMode = Legacy

SkipHypervisor ==
  /\ pc = "hypervisor" /\ ~HypervisorWanted /\ pc' = "install"
  /\ UNCHANGED <<cpu, gCpuidOverrides, hvVars, tableVars, coreVars>>

StartHypervisor ==
  /\ pc = "hypervisor" /\ HypervisorWanted
  /\ \E ok \in BOOLEAN : /\ BemiInitHypervisor(gCpuCount, ok)
                         /\ pc' = IF ok THEN "test guest" ELSE "install"
  /\ UNCHANGED <<cpu, gCpuidOverrides, tableVars, nvram, gBootMode, gCpuCount,
                 gBemiThreadCount, testPages, asked, boots, initCalls>>

HypervisorTraps ==
  /\ pc = "hypervisor" /\ HypervisorWanted /\ pc' = "trapped"
  /\ BackendInitTraps(gCpuCount)
  /\ UNCHANGED <<cpu, gCpuidOverrides, tableVars, coreVars>>

\* VmxTestGuestLaunch, the pages of code and stack: both, or none is kept.
AllocateTestPages ==
  /\ pc = "test guest"
  /\ \/ testPages' = {"code", "stack"} /\ pc' = "create"
     \/ testPages' = {} /\ pc' = "install"
  /\ UNCHANGED <<cpu, gCpuidOverrides, hvVars, tableVars, nvram, gBootMode, gCpuCount,
                 gBemiThreadCount, buffers, ready, asked, boots, initCalls>>

\* Mutant of FreeTestPages: the early return frees one page.
FreeTestPagesOne == testPages' = testPages \ {"code"}

FreeTestPages == testPages' = {}

CreateFailed == FreeTestPages /\ pc' = "install"

CreateTestVcpu ==
  /\ pc = "create"
  /\ \/ VcpuCreate(0, TRUE) /\ pc' = "run" /\ UNCHANGED testPages
     \/ VcpuCreate(0, FALSE) /\ CreateFailed
  /\ UNCHANGED <<cpu, gCpuidOverrides, tableVars, nvram, gBootMode, gCpuCount,
                 gBemiThreadCount, buffers, ready, asked, boots, initCalls>>

\* A guest that cannot be entered gives the boot back.  One that can does not:
\* SvmRunVcpu starts its guest again after the HLT for ever, and VMLAUNCH leaves
\* for the guest.
RunTestVcpu ==
  /\ pc = "run"
  /\ \/ VcpuRun(0, TRUE) /\ FreeTestPages /\ pc' = "install"
     \/ VcpuRun(0, FALSE) /\ pc' = "guest" /\ UNCHANGED testPages
  /\ UNCHANGED <<cpu, gCpuidOverrides, tableVars, nvram, gBootMode, gCpuCount,
                 gBemiThreadCount, buffers, ready, asked, boots, initCalls>>

\* The exits that VmxSetupVmcs asks for do not include HLT, so an interrupt brings
\* the first one.
TestGuestExits ==
  /\ pc = "guest" /\ pc' = "lost"
  /\ ExitNowhere
  /\ UNCHANGED <<cpu, gCpuidOverrides, tableVars, coreVars>>

InstallProtocol ==
  /\ pc = "install" /\ pc' \in {"running", "failed"}
  /\ UNCHANGED <<cpu, gCpuidOverrides, hvVars, tableVars, coreVars>>

BootStep ==
  \/ Topology \/ ReadBootMode \/ SpoofCpuid \/ InstallAcpi \/ InstallSmbios
  \/ SkipHypervisor \/ StartHypervisor \/ HypervisorTraps
  \/ AllocateTestPages \/ CreateTestVcpu \/ RunTestVcpu \/ InstallProtocol

-------------------------------------------------------------------------------

\* Mutant of NewMode: the mode goes to the store before it is taken over.
NewModeEarly(m) == gBootMode

\* The value SetVariable reads through its pointer.
NewMode(m) == m

\* BemiSetBootMode; a mode that does not exist is refused.
BemiSetBootMode(m) ==
  /\ pc = "running" /\ m < BemiBootModeMax
  /\ gBootMode' = m
  /\ \E ok \in BOOLEAN : /\ nvram' = IF ok THEN NewMode(m) ELSE nvram
                         /\ asked' = IF ok THEN m ELSE NULL
  /\ UNCHANGED <<pc, cpu, gCpuidOverrides, hvVars, tableVars, gCpuCount, gBemiThreadCount,
                 testPages, buffers, ready, boots, initCalls>>

\* The protocol's queries.
BemiGetBootMode == gBootMode

BemiHandleCpuid(l, s) == CpuidSpoofHandler(l, s)

\* The protocol's InitHypervisor.
InitHypervisorAgain(n) ==
  /\ pc = "running" /\ initCalls < MaxInits /\ initCalls' = initCalls + 1
  /\ \/ pc' = pc /\ \E ok \in BOOLEAN : BemiInitHypervisor(n, ok)
     \/ pc' = "trapped" /\ BackendInitTraps(n) /\ UNCHANGED <<buffers, ready>>
  /\ UNCHANGED <<cpu, gCpuidOverrides, tableVars, nvram, gBootMode, gCpuCount,
                 gBemiThreadCount, testPages, asked, boots>>

\* The variable has run-time access: the operating system writes it as well.
SystemWritesVariable(v) ==
  /\ pc = "running" /\ nvram' = v /\ asked' = NULL
  /\ UNCHANGED <<pc, cpu, gCpuidOverrides, hvVars, tableVars, gBootMode, gCpuCount,
                 gBemiThreadCount, testPages, buffers, ready, boots, initCalls>>

\* How a boot is left until someone resets the machine: with the protocol or
\* without it, in a trap, in the test guest or after an exit that leads nowhere.
Ended == {"running", "failed", "trapped", "guest", "lost"}

Next ==
  \/ BootStep
  \/ TestGuestExits
  \/ \E m \in Byte : BemiSetBootMode(m)
  \/ \E n \in 0 .. 1 : InitHypervisorAgain(n)
  \/ \E v \in Byte \cup {WIDE, NULL} : SystemWritesVariable(v)
  \/ pc \in Ended /\ Reboot

\* The driver's code goes on to its next step; nothing makes anyone call the
\* protocol, interrupt the guest or reset the machine.
Spec == Init /\ [][Next]_vars /\ WF_vars(BootStep)

-------------------------------------------------------------------------------

\* The driver's state has its type.  The threads are those the clamp lets through
\* or the 144 of the definition.
TypeOK ==
  /\ pc \in {"topology", "mode", "cpuid", "acpi", "smbios", "hypervisor", "test guest",
             "create", "run", "install"} \cup Ended
  /\ nvram \in Byte \cup {WIDE, NULL} /\ gBootMode \in Byte /\ gCpuCount \in Nat
  /\ gBemiThreadCount \in 1 .. 84 \cup {144}
  /\ testPages \subseteq {"code", "stack"} /\ buffers \in Nat /\ ready \in {{}, Units}

\* A mode that was stored is the mode in memory and, across a reset, the mode of
\* the next boot, until a write fails unnoticed or someone else writes it.
ModeMatchesStore ==
  asked # NULL => /\ nvram = asked
                  /\ pc \notin {"topology", "mode"} => BemiGetBootMode = asked

\* Whichever call of the test guest failed, its pages are free when the driver
\* goes on.
TestPagesFreed == pc \in {"install", "running", "failed"} => testPages = {}

\* The mode and the memory of a boot.
BootStateSound == ModeMatchesStore /\ TestPagesFreed

\* A boot that was not asked for the hypervisor leaves the processor's control
\* bits and the memory as they were (a mode that does not exist counts as
\* native); and where the units behind the hypervisor were started, POST's own
\* test of the processor agrees with the backend's.
HypervisorAsAsked ==
  /\ pc = "install" /\ gBootMode # Legacy =>
       ~vmxe /\ ~svme /\ held = {} /\ buffers = 0 /\ backend = NULL
  /\ ready # {} =>
       \/ backend = "Intel" /\ vmxe /\ PostValidateVmxSupport
       \/ backend = "Amd" /\ svme /\ PostValidateSvmSupport

\* The hypervisor is started when asked, completely, and loses no page.
HypervisorReady == HypervisorAsAsked /\ ActiveIsReady /\ NoPageLost

Looked == 0 .. cpu.std + 1 \cup HvBase .. HvBase + HvLeaves - 1
            \cup ExtBase .. ExtBase + cpu.ext + 1

\* With a filled table a caller that asks for subleaf 0 sees, on a processor of
\* either vendor, both virtualisation features and the hypervisor, also when the
\* table was too short for the leaves that follow.  Every other answer the
\* firmware does not make up is the processor's own for that leaf and subleaf,
\* from the table or past it, but for subleaf 0 of the leaves with subleaves that
\* the table fills without naming one.
GuestProcessor ==
  gCpuidOverrides # <<>> =>
    /\ BemiHandleCpuid(1, 0).flags = {"VMX", "HV"}
    /\ cpu.ext >= 1 => BemiHandleCpuid(ExtBase + 1, 0).flags = {"SVM"}
    /\ \A l \in Looked \ {1, ExtBase + 1} : \A s \in 0 .. 3 :
         LET a == BemiHandleCpuid(l, s)
         IN  a.from = "processor" /\ (s = 0 => l \notin Indexed \ HandledApart) =>
               a = Processor(l, s)

\* What the tables tell an operating system about the processors POST counted.
TablesAgree == TablesDescribe(gCpuCount)

\* "Test guest execution complete" (bemibioscore.c): a test guest that is run
\* comes to its end and the boot goes on.
TestGuestCompletes == pc = "run" ~> pc = "install"

===============================================================================
