----------------------------- MODULE HypervisorStart -----------------------------
(***************************************************************************)
(* The hypervisor from its initialisation to the launch of a guest: the    *)
(* VMX half in hypervisor/vmx/vmxcore.c, the SVM half in                    *)
(* hypervisor/svm/svmcore.c and the choice between them in                  *)
(* hypervisor/common/hypervisorbackend.c.                                   *)
(*                                                                         *)
(* vmxcore.c and hypervisorbackend.c both define HypervisorBackendInit and *)
(* HypervisorDetectVendor; linked says which of the two a build took.  The *)
(* second calls VmxInit, VmxCreateVcpu and VmxRunVcpu, of which no source   *)
(* exists, so with it only the SVM half can be started.                     *)
(*                                                                         *)
(* Pages are numbers; MaxPages bounds how many are ever handed out, as a   *)
(* failed allocation.                                                      *)
(***************************************************************************)
EXTENDS CpuidSpoof

CONSTANTS
  VcpuIds,         \* 0 .. MAX_LOGICAL_PROCESSORS - 1
  MaxPages,
  ControlBits,     \* bits of a VMX control field
  MustBeOne,       \* what the control MSRs force to one,
  MayBeOne,        \* and what they allow to be one
  Requested,       \* what VmxSetupVmcs asks for
  NULL

StartAssumption ==
  /\ 0 \in VcpuIds /\ MustBeOne \subseteq MayBeOne /\ MayBeOne \subseteq ControlBits
  /\ MaxPages \in Nat /\ NULL \notin Nat /\ NULL \notin {"Intel", "Amd"}

VARIABLES
  linked,         \* "vmxcore" or "hypervisorbackend"
  backend,        \* gHypervisorBackend.Vendor once its functions are set, or NULL
  hvCpuCount,     \* gCpuCount of vmxcore.c and gSvmCpuCount
  vmxe, svme,     \* CR4.VMXE and EFER.SVME of this processor
  vmxOn,          \* the page of the VMXON region in force, or NULL
  current,        \* the page of the current VMCS, or NULL
  gVcpuState,     \* VMXON and VMCS regions of gVcpuState, VMCB and HSAVE of gSvmVcpuState
  vmcs,           \* the fields VmxSetupVmcs wrote: names, and the controls' bits
  nextPage, held, \* pages handed out so far, and those not given back
  reinits         \* HypervisorBackendInit calls that found regions allocated

hvVars == <<linked, backend, hvCpuCount, vmxe, svme, vmxOn, current, gVcpuState, vmcs,
            nextPage, held, reinits>>

NoVcpu == [first |-> NULL, second |-> NULL, active |-> FALSE]
NoVmcs == [fields |-> {}, controls |-> {}]

\* A processor just out of reset.
HypervisorReset ==
  /\ backend = NULL /\ hvCpuCount = 0
  /\ vmxe = FALSE /\ svme = FALSE /\ vmxOn = NULL /\ current = NULL
  /\ gVcpuState = [i \in VcpuIds |-> NoVcpu] /\ vmcs = NoVmcs
  /\ nextPage = 0 /\ held = {} /\ reinits = 0

Allocated == (UNION {{gVcpuState[i].first, gVcpuState[i].second} : i \in VcpuIds}) \ {NULL}

-------------------------------------------------------------------------------

\* HypervisorDetectVendor of either file: by feature bit, or by name.
DetectVendor ==
  IF linked = "vmxcore"
  THEN CASE "VMX" \in cpu.flags -> "Intel" [] "SVM" \in cpu.flags -> "Amd" [] OTHER -> "Unknown"
  ELSE cpu.vendor

ForgetVcpus ==
  /\ gVcpuState' = [i \in VcpuIds |-> NoVcpu]
  /\ reinits' = reinits + (IF Allocated = {} THEN 0 ELSE 1)

\* vmxcore.c's HypervisorBackendInit, which does not ask DetectVendor.  CR4 is
\* written before the checks, and stays written when they fail.
VmxBackendInit(n, ok) ==
  /\ linked = "vmxcore" /\ "VMX" \in cpu.flags
  /\ ok = (cpu.paging /\ cpu.locked /\ cpu.outside)
  /\ hvCpuCount' = n /\ vmxe' = TRUE
  /\ ForgetVcpus
  /\ backend' = IF ok THEN "Intel" ELSE backend
  /\ UNCHANGED <<linked, svme, vmxOn, current, vmcs, nextPage, held>>

\* The vCPUs are forgotten before the processor is asked.
SvmInit(n, ok) ==
  /\ ok = ("SVM" \in cpu.flags)
  /\ hvCpuCount' = n /\ ForgetVcpus
  /\ svme' = (svme \/ ok)

\* hypervisorbackend.c's; its third choice is a processor of neither vendor.
SvmBackendInit(n, ok) ==
  /\ linked = "hypervisorbackend"
  /\ \/ DetectVendor = "Amd" /\ backend' = "Amd" /\ SvmInit(n, ok)
     \/ /\ DetectVendor = "Unknown" /\ backend' = NULL /\ ~ok
        /\ UNCHANGED <<hvCpuCount, gVcpuState, reinits, svme>>
  /\ UNCHANGED <<linked, vmxe, vmxOn, current, vmcs, nextPage, held>>

HypervisorBackendInit(n, ok) == VmxBackendInit(n, ok) \/ SvmBackendInit(n, ok)

\* A processor without VMX traps when it sets CR4.VMXE.
BackendInitTraps(n) ==
  /\ linked = "vmxcore" /\ "VMX" \notin cpu.flags
  /\ hvCpuCount' = n /\ ForgetVcpus
  /\ UNCHANGED <<linked, backend, vmxe, svme, vmxOn, current, vmcs, nextPage, held>>

-------------------------------------------------------------------------------

\* Mutant of AdjustCtrl: what must be one is added after what may be is cut.
AdjustCtrlRequested(requested) == requested \cap MayBeOne

AdjustCtrl(requested) == (requested \cup MustBeOne) \cap MayBeOne

\* The fields of the host state, guest state and controls that are written.
VmxSetupVmcs ==
  [fields |-> {"HOST_CR0", "HOST_CR3", "HOST_CR4", "HOST_EFER", "GUEST_SELECTORS",
               "GUEST_BASES", "GUEST_TABLES", "GUEST_CONTROL", "GUEST_RIP", "GUEST_RSP"},
   controls |-> AdjustCtrl(Requested)]

\* Mutant of GivenBack: the first region stays allocated when there is no second.
GivenBackNot(page) == held \cup {page}

\* The first region is freed when there is no second.
GivenBack(page) == held

\* The regions of vCPU i are allocated; fewer than n pages were to be had.
VcpuCreateNoPages(i, n) ==
  /\ n < 2 /\ nextPage + n <= MaxPages
  /\ nextPage' = nextPage + n
  /\ held' = IF n = 1 THEN GivenBack(nextPage + 1) ELSE held
  /\ UNCHANGED <<linked, backend, hvCpuCount, vmxe, svme, vmxOn, current, gVcpuState, vmcs,
                 reinits>>

\* VmxVcpuCreate with both regions.  VMXON fails where VMX is on already, and
\* each of the three instructions may fail; the regions stay.
VmxVcpuCreate(i, step) ==
  LET first == nextPage + 1  second == nextPage + 2
      on    == step \in {"VMCLEAR", "VMPTRLD", "done"}
  IN  /\ backend = "Intel" /\ nextPage + 2 <= MaxPages
      /\ on => vmxOn = NULL /\ vmxe
      /\ nextPage' = second /\ held' = held \cup {first, second}
      /\ vmxOn' = IF on THEN first ELSE vmxOn
      /\ current' = IF step = "done" THEN second ELSE current
      /\ vmcs' = IF step = "done" THEN VmxSetupVmcs ELSE vmcs
      /\ gVcpuState' = [gVcpuState EXCEPT ![i] =
           [first |-> first, second |-> second, active |-> step = "done"]]
      /\ UNCHANGED <<linked, backend, hvCpuCount, vmxe, svme, reinits>>

\* SvmCreateVcpu with both regions; nothing can fail after them.
SvmCreateVcpu(i) ==
  /\ backend = "Amd" /\ i < hvCpuCount /\ nextPage + 2 <= MaxPages
  /\ nextPage' = nextPage + 2 /\ held' = held \cup {nextPage + 1, nextPage + 2}
  /\ gVcpuState' = [gVcpuState EXCEPT ![i] =
       [first |-> nextPage + 1, second |-> nextPage + 2, active |-> TRUE]]
  /\ UNCHANGED <<linked, backend, hvCpuCount, vmxe, svme, vmxOn, current, vmcs, reinits>>

\* A vCPU that SvmCreateVcpu refuses for its number.
SvmCreateRefused(i) == backend = "Amd" /\ i >= hvCpuCount /\ UNCHANGED hvVars

VmxFailures == {"VMXON", "VMCLEAR", "VMPTRLD"}

\* gHypervisorBackend.VcpuCreate; ok tells whether it succeeded.
VcpuCreate(i, ok) ==
  \/ ~ok /\ \E n \in 0 .. 1 : VcpuCreateNoPages(i, n)
  \/ ~ok /\ \E step \in VmxFailures : VmxVcpuCreate(i, step)
  \/ ok /\ VmxVcpuCreate(i, "done")
  \/ ok /\ SvmCreateVcpu(i)
  \/ ~ok /\ SvmCreateRefused(i)

\* VmxVcpuRun refuses a vCPU that is not active.  Otherwise it loads the VMCS,
\* which may fail, and launches: it comes back when the processor refuses the
\* guest, and a launch that succeeds does not come back.
VmxVcpuRun(i, back) ==
  /\ backend = "Intel"
  /\ current' \in {current, IF gVcpuState[i].active THEN gVcpuState[i].second ELSE current}
  /\ back \/ (gVcpuState[i].active /\ current' = gVcpuState[i].second)
  /\ UNCHANGED <<linked, backend, hvCpuCount, vmxe, svme, vmxOn, gVcpuState, vmcs, nextPage,
                 held, reinits>>

\* SvmRunVcpu, too, comes back for a vCPU that is not active or that the
\* processor refuses.  The exit handler never fails, so its loop does not end.
SvmRunVcpu(i, back) ==
  /\ backend = "Amd"
  /\ back \/ (i < hvCpuCount /\ gVcpuState[i].active)
  /\ UNCHANGED hvVars

\* gHypervisorBackend.VcpuRun; back tells whether it returns.
VcpuRun(i, back) == VmxVcpuRun(i, back) \/ SvmRunVcpu(i, back)

\* At the first exit of a guest that VMLAUNCH started the processor continues at
\* HOST_RIP, which is none of the fields the set-up writes.
ExitNowhere == backend = "Intel" /\ "HOST_RIP" \notin vmcs.fields /\ UNCHANGED hvVars

-------------------------------------------------------------------------------

\* A vCPU that may be run has its two regions, and its processor is in the mode
\* its core needs: for VMX, VMX operation with that VMCS current and control
\* fields the processor accepts.
ActiveIsReady ==
  \A i \in VcpuIds : gVcpuState[i].active =>
    /\ {gVcpuState[i].first, gVcpuState[i].second} \subseteq held
    /\ backend = "Amd" => svme
    /\ backend = "Intel" =>
         /\ vmxe /\ vmxOn \in held /\ current = gVcpuState[i].second
         /\ MustBeOne \subseteq vmcs.controls /\ vmcs.controls \subseteq MayBeOne

\* Every page that is allocated belongs to some vCPU's state, whichever of the
\* allocations and instructions failed on the way, until a second initialisation
\* zeroes the states.
NoPageLost == reinits = 0 => held = Allocated

===============================================================================
