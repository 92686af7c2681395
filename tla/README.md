# Verification project for BemiBIOS

BemiBIOS (the repository this directory stands beside) is firmware that puts a
hypervisor and a family of software-modelled performance units under a guest
operating system, with a dynamic binary translator for x86 code and Python
simulators of the same units.  This directory holds TLA+ modules of the parts
with real state, TLC configurations that check them on small instances, and
proofs that TLAPS checks for every size.

    tlc -workers 2 -config RobRefinement.cfg RobRefinement        # one run
    tlapm RobProofs.tla                                           # one module's proofs

`PROJECT.json` is the index: the components, the runs with their properties,
the mutants (for each property a plausible bug of the code that breaks it), the
source lines of every definition, the findings, the hazards and the theorems.

## 1. The system

Paths are under `src/`.  "State" is what survives a call.

| Component | State | Operations | Talks to |
|---|---|---|---|
| Reorder-buffer distributor v7.1 (`performance/rob/robdistributor.c:1-261`) | 7 banks of 112 slots, head, tail and count of each, statistics | init, allocate, retire and drain, tick | its callers only |
| Compressed reorder buffer v7.2 (`robdistributor.c:263-507`) | main ring of 2-byte entries, extended rings, metadata table by reorder tag, duplicate counts | init, allocate (main, then spill), retire by tag, tick | its callers only |
| Trace cache (`performance/tcache/tracecache.c`) | bump-allocated entries, bucket chains, use counter, entry count | init, look up, insert with eviction, invalidate, pin, unpin, warm-up, configure | `gTraceLock`; called by the boot driver |
| Shadow local APIC (`hwcompat/apic/ApicShadow.c`) | request and in-service registers, LVT timer | init, register read and write, inject, timer tick, EOI, get pending | VMX and SVM exits |
| VMX exit handler (`hypervisor/vmx/vmxcore.c`, `vmxexitasm.nasm`) | VMCS and vCPU regions, saved guest registers | create vCPU, run, exit dispatch, CR accesses | CPUID, MSR, APIC shadows |
| SVM core (`hypervisor/svm/svmcore.c`) | VMCB, run flag | enable, create, run loop | CPUID, MSR, APIC shadows |
| Backend selection (`hypervisor/common/hypervisorbackend.c`) | chosen vendor | initialise, create, run | VMX or SVM |
| L0 micro-cache (`performance/l0cache/l0microcache.c`) | a direct-mapped cache per execution unit, statistics | init, read, write, invalidate | its callers only |
| Interrupt latency (`performance/interrupt/interruptlatency.c`) | event table, handler table, statistics | init, register, trigger with coalescing, deliver | its callers only |
| Bandwidth governor (`performance/bwgov/bandwidthgovernor.c`) | three-level throttle state, window counters, active threads | init, report, process window | memory compressor |
| Memory compressor (`performance/bwgov/memorycompressor.c`) | ratios and byte counters | init, compress, decompress | governor |
| TAGE predictor (`performance/tage/tagepredictor.c`) | tagged tables, base table, history, branch target buffer | init, predict, update, pre-fill | its callers only |
| Macro-op fusion (`performance/fusion/macroopfusion.c`) | pair table (32), fusion buffer (512), counters | init, try-fuse (two versions), analyse, look up | its callers only |
| MSR shadow (`hwcompat/msr/msrshadow.c`) | table of shadowed registers | init, read, write, pass-through | VM exits |
| SMM handler (`hwcompat/smm/smmhandler.c`) | save area, time stamp, latency statistics | init, save, restore, validate | firmware |
| CPUID spoofing, ACPI and SMBIOS (`hwcompat/cpuid`, `acpi`, `smbios`) | constant tables | look-ups, table layout | VM exits, boot |
| Boot driver and POST (`bemibiospkg/bemibioscore`) | boot mode variable, thread count | entry point, mode switch, POST | everything above |
| Legacy CSM and boot protocol (`legacy`) | E820 map, disk geometry | INT 13h, 15h, 16h | boot driver |
| DBT (`dbt`, Rust) | translation blocks, IR, machine state | decode, translate, optimise, execute, emit | stand-alone |
| 8088 interpreter (`dbt/x8088.rs`) | registers, 1 MB memory | step | stand-alone |
| Simulators (`simulator`, Python) | SRAM budget, performance models | configure, run | stand-alone |

Deployment scripts, tests, benchmarks, archived copies and developer utilities
are read as statements about the program, never as its code.

### How the parts interact, and what is hard

* **Shared memory between processors.** `TODO.md` 2.1 counts 144 threads.  The
  trace cache is the one component with a lock, and it holds it per operation:
  pin and unpin return from a locked look-up with a bare pointer and then test and
  change the entry.  The reorder buffers, the L0 caches and the interrupt table have no
  lock; the code has one caller for each and the models make every call one step.
* **Protocol sequences.** Reorder buffers drain lazily behind an unfinished
  head; entries are retired twice or by tags that have been handed out again;
  the APIC timer's enable bit is derived from two registers at one write and
  both change later; invalidated trace-cache entries still count.
* **Hand-over between components.** A VM exit takes a vector from the shadow
  APIC and passes it on through a VMCS field that the guest's interrupt flag may
  keep it out of.
* **Limits.** Rings at exactly their capacity, a metadata table shorter than the
  entries that index it, a bump allocator that shares its region with the hash
  buckets, a full interrupt table, 32-bit copies of a 64-bit counter.
* **Partial failure.**  Several initialisations allocate in a loop and return in
  the middle, and later calls test only the first allocation.  Every call of the
  boot driver may fail, and the driver mostly goes on.
* **State with two copies.**  The boot mode in memory and in the variable store;
  an MSR in the table and in the processor; the processors as the MADT and SMBIOS
  count them.
* **Guest registers.**  Exit handlers read halves of 64-bit registers that the
  guest loads with anything.

Only UEFI variables outlive a reset, and no messages travel: `BootFlow` resets
the machine between boots, and there is no lossy channel to model.  Except for
the boot, nothing in the code schedules the operations (see "Fairness").

### What correctness means, per component

* Reorder buffers: no allocation overwrites a live entry; program order is kept
  while retirement is in any order; no micro-op is counted twice; a stall only
  when there is no room; a tag leads to its own entry.
* Trace cache: one live translation per key; pins protect and are not lost; the
  capacity test is never too late; eviction is (nearly) least recently used;
  entries stay clear of the bucket array.
* APIC with VM exits: a request is delivered at most once, the highest first,
  and is delivered if the guest can take it; a running timer expires.
* L0 cache: a hit returns what was written; invalidations reach every unit;
  statistics are consistent, also after a failed initialisation.
* Interrupt latency: every trigger is merged, dropped, pending or delivered;
  coalescing is exact; drops only when full; statistics are consistent.
* Governor: threads, level and event counters agree on every path.  Compressor:
  what it reports covers the ratios it worked with.
* Predictor: a steady branch is predicted its way, to its own last target.
  Fusion: what is reported fused is found again and stays.
* MSR shadow: a guest reads its own writes.  SMM: the verdict on the budget is
  the truth while saves and restores are paired.
* Exit handlers: leaf 1 hides VMX and the hypervisor, no exit changes a protected
  register; an exit that is handled as the instruction it is for retires it and
  changes nothing else.
* Boot: the mode stored is the mode used; the hypervisor is started as asked,
  loses no page and is complete before a guest runs; CPUID answers are the
  processor's where they are not meant to differ; MADT and SMBIOS count the same
  processors; a boot comes back from its test guest.  Legacy services: nothing
  allocated is lost, the right sector is handed over, a memory map is whole.
* DBT: an optimised block computes what the block computes; micro-ops are lost
  only when the block is full; the flags of the last arithmetic tell order, carry
  and signed overflow, and moves and stack traffic keep them.

## 2. The modules

`RobDistributor` **(core)** models the v7.1 half of `robdistributor.c`.
`head, tail, count, maxCount` are the fields of `ROB_BANK`; `state, uop,
allocTick, retireTick` those of `ROB_ENTRY`, with the micro-op represented by its
allocation number.  `RobAllocateEntry` takes the first bank with room from
`nextAllocBank` on; `RobAllocateStall` is the same call when the scan finds none;
`RobRetireEntry(b, s)` is the retirement *and* the drain loop that frees the
retired entries from the head; `s` is any slot, because callers pass a pointer
back and may do so twice.

`ReorderQueue` is what such a buffer promises: a queue per bank, entries leave
from the front once they and everything before them is done.  `RobRefinement`
maps the rings to those queues: the queue of a bank is the window of `count`
slots from `head`.

`RobV72` models the v7.2 half: `ring[Main]` and `ring[0..]` are the compressed
rings, `meta` the table that `ReorderTag` indexes, `entryCounts` the second copy
of the counts.  `V72RobDistributorInit` has its failures: any allocation may
fail, and the rings allocated before it stay.

`TraceCache` models `tracecache.c`; `MCTraceCache` gives it a hash function.
Look-up, insertion (with the eviction it makes), invalidation, the three
configurations of the scan depth and the warming with kernel blocks are one step
each; those that take the lock hold it throughout.  Pin and unpin are several:
the locked look-up (`PinLookup`), for unpin the test of `PinCount` (`UnpinCheck`),
its load (`PinLoad`) and its store (`PinStore`), since `PinCount++` on memory is a
load and a store, and nothing is locked after the look-up.  The count is unsigned:
it wraps below zero, with `PinModulus` values for the source's 2^32.  Slots are
handed out in increasing order and linked in front, so a bucket's chain is the
set of its slots in decreasing order and needs no variable.  `pins` is history:
completed pins minus unpins.

`ApicVmx` composes `ApicShadow.c` with the end of `BemiVmxExitHandler`:
`irr`, `isr` and the timer are the APIC's; `VmExit(flag)` is the delivery code of
`vmxcore.c:597-604` with the guest's IF as input.  `owed` is history: vectors
requested and not handed over since.  `AsmMsb32`, which the repository uses and
does not define, is the number of leading zeros, the only meaning under which
`31 - AsmMsb32(r)` is a bit number.

`L0MicroCache` models `l0microcache.c`: lines with tag and data per unit, `NULL`
for a unit whose allocation failed.  `wrote` is history: what each unit last
wrote to each byte.

`InterruptLatency` models `interruptlatency.c`, with the time stamp counter as an
input that advances by any amount.  `dropped`, `delivered` and `idle` are
history.

`BwGovernor`, `MemoryCompressor`, `TagePredictor` and `MacroOpFusion` model the
file of their name.  The governor's floating-point thresholds and the
compressor's ratios become exact comparisons of integers (hundredths, tenths).
The predictor's index and tag functions are the code's, with the table sizes as
parameters; `outcomes` and `lastTarget` are history, as are the compressor's
`least` and the fusion's `reported`.

`PerformanceUnits` puts the six units without shared state side by side: `unit`
says which of them a behaviour drives.  Both compositions take the constants of
their parts as their own; `MCPerformanceUnits` and `MCPlatform` give them values.

`MsrShadow` and `SmmHandler` model their files against a processor that changes
registers on its own (`msr`) and a counter that advances (`tsc`); `began`,
`late` and `unpaired` say what really happened to the interrupts.

`HypervisorStart` is the way from `HypervisorBackendInit` to a running vCPU in
both cores: pages are numbers handed out once, `held` those that some state still
refers to.  `linked` says which of the two definitions of the backend's functions
a build took.  `VcpuRun(i, back)` has both outcomes of a launch: it comes back when
the processor refuses the guest, and otherwise the processor is in the guest.
Whether a processor accepts the VMCS is left open (the set-up writes no host
selectors, so a strict one refuses it).  `GuestExits` has the two exit handlers:
`GuestExit` is the processor, which leaves the guest's registers and one exit
reason; `Handled` is the whole handler.  A half register has W values, so "the
upper half is not zero" is a small number.  The processor numbers its registers in
another order than `GUEST_STATE`: `Numbered` translates, the handler of VMX does
not, and `Outputs` says what the instruction itself would write.

`CpuidSpoof` answers CPUID: an answer is a leaf, a subleaf and where it comes from.
`AsmCpuid` names no subleaf, so for the leaves that have some (`Indexed`) it gets
the answer for whatever ECX held (`Stray`).  `FirmwareTables` is the MADT and the
SMBIOS structure of the processor; `BootFlow` EXTENDS both and `HypervisorStart` and composes them: each step of the
entry point (`pc`) with the calls it makes, the protocol's calls afterwards, and
`Reboot`, which keeps only the variable store.

`LegacyServices` models INT 13h, INT 15h E820 and the boot-sector scan, whose
allocations and reads are steps so that each may fail; `MapChanges` lets the
memory map grow between the two calls that ask for it.

`Platform` puts boot, exits, APIC, MSRs, SMM and legacy services side by side, as
`PerformanceUnits` does, and states the boot's fairness.  A boot that enters its
test guest is over for the driver (`pc = "guest"`); under VMX an exit then leads
nowhere (`TestGuestExits`).

`DbtMachine` is the meaning of a micro-op, `execute_inst`, as a function from
machines to machines on words of `Width` bits (`Raised` and `Tip` are the two
halves of a pop, which `Ret` uses as well); `After(ops, start, n)` is
`execute_block` after n micro-ops.  `DbtPipeline` is one block's way through
`translate_block` (`DecodeOne`, one turn of its loop), `optimize_block` and the
executor.  The optimiser's two loops, which remove in place, are two folds: `Keep`
is one turn of a loop with the micro-ops it has kept so far, `Drops` what it
removes; the unoptimised block is kept and executed as well, as the reference.
A guest instruction is what the decoder library delivers, so `Instructions` are
records; `MCDbtPipeline` gives one of every kind the translator distinguishes.

Left out throughout: messages, statistics nothing reads, and the parts of a
record no branch looks at.  Each module's header says what and names its bounds.

## 3. The runs

| Run | Instance | States | What it shows |
|---|---|---|---|
| `rob_v71` | 2 banks of 3 slots, 8 allocations | 43,571 | windows, program order, drain, accounting, reported occupancy and stalls; each step is a step of `ReorderQueue` or a stutter |
| `rob_v72` | main ring 3, 2 extended rings of 2, 9 allocations, 6 retirements, 2 initialisations | 20,278 | rings, duplicate counts, tags before any spill, failed initialisations |
| `rob_v72_metadata` | main ring 2, 1 extended ring of 2 | | **violated**: metadata per active entry |
| `trace_cache` | 2 processors, 4 keys in 2 buckets, capacity 2, 4 slots, counters modulo 4 | 1,344,609 | unique translations, counting, eviction |
| `trace_cache_pin_race` | the same | | **violated**: pins are counted |
| `trace_cache_overrun` | 1 processor, capacity 4, 2 slots before the buckets | | **violated**: bucket array intact |
| `performance_units` | L0: 2 units, 2 lines of 2 bytes, 2 tags, 2 accesses; interrupts: 2 vectors, 3 slots, window 2, time to 3, 4 triggers; governor: 2 or 3 threads, 30 transactions; compressor: 127 bytes each way; predictor: 2 tables and a target buffer of 2 entries, 3 branches, 4 updates; fusion: 5 pairs, tables of 1 to 3 | 1,286,959 | one property per unit (`InterruptsAccounted`, `GovernorLevels`, ...) and `NothingLost` across three of them |
| `l0_write_through` | 1 unit, 4 accesses | | **violated**: a hit returns the last write |
| `platform` | boot: 5 machines, 2 boots, 2 vCPUs, 3 pages; exits: halves of 8 values, 5 registers; APIC: 2 registers of 2 bits, counts to 2; MSRs: 4 rows; SMM: 7 ticks, budget 1 us of 2 ticks, 2 interrupts; legacy: 3 sets of up to 4 disks, 3 maps | 354,113 | the boot's state, its hypervisor, its CPUID answers and its tables; one property for each other part, delivery order and the transparency of exits |
| `apic_vmx_delivery` | the APIC as above | | **violated**: delivered if IF is set |
| `test_guest` | the boot as above, once | | **violated**: a boot comes back from its test guest |
| `dbt` | 3 registers of 2 bits, blocks of 3 micro-ops, 4 instructions | 2,700,703 | optimiser, capacity, the flags of the last arithmetic, a push with its pop |

**Why the bounds are enough.**  A bank of three slots is the smallest in which a
retired entry can wait behind the head while the tail has wrapped; eight
allocations fill both banks and reuse every slot of one.  In `RobV72` nine
allocations pass the main ring and both extended rings (seven slots) and wrap the
tag counter three times.  Four slots over a capacity of two let the trace cache
evict twice and insert after invalidating; two keys collide in each bucket and
one address lies in both; the use counter passes its modulus.  Four values of a
pin count hold what two processors can pin, and one step below zero is the
largest of them.

Three interrupt slots let two events of one vector end up in slots against their
order of arrival, and four triggers overfill them.  Thirty transactions in windows
of at most five take the governor through its levels in both directions, from
peaks that make every window busy and every window quiet.  Sizes of 63 and 64
bytes lie on both sides of a line.  The predictor's three branches fall into the
same entry of one table and different entries of the other, and of the fusion
pairs two share an address and two share a type, in tables each version can fill.

The five machines are those the driver tells apart: Intel with and without a
locked feature register, AMD, no virtualisation, and neither maker with a topology
leaf that counts nothing; the first has 33 CPUID overrides where 32 fit, with a leaf
(0Fh) whose subleaf the fill does not name.  CPUID is asked past the ends of all
three ranges, on both sides of the last leaf that answers zero (`HvLast`).  Two
boots are one reset, three pages let the second allocation of a vCPU fail after
the first succeeded, and again on a retry.  Eight values of a half register leave
values above every leaf and MSR number the handlers know.  Of the five registers
of the exits RAX and R8 have one number in both orders, and RBX, RCX and RDX
change places.  Two APIC registers of two bits are the smallest in which the order
across registers and the order within one differ.  Two management interrupts let
the second save come before the restore of the first.  A set of disks has every
kind of handle that is passed over before the one that boots.

Blocks of three micro-ops with a fourth instruction let a removal make two moves
adjacent, let a flag cross two micro-ops, and lose the fourth; two bits give every
combination of carry and signed overflow, and two registers start from every
value.

Every bound that cuts a counter is a CONSTANT named in the module's header
(`MaxAllocations`, `MaxLru`, `MaxPins`, `MaxAccesses`, `MaxTotal`, `MaxBoots`, ...);
it stops calls and never changes what a call does.  `CHECK_DEADLOCK FALSE` stands
in the configurations whose instances stop at such a bound.

**Symmetry** is used for the two processors of `trace_cache` only.

**Fairness.**  `BootFlow` and `Platform` assume weak fairness of the boot driver's
own next step: one processor runs it without being interrupted, so it goes on as
long as it can.  Nothing else is fair: the disjuncts for failing calls are chosen
freely, and nobody need ever call the protocol, interrupt the guest or reset.
Only `test_guest` needs it: with it the driver does reach its guest, and a step of
the driver that could go on would be taken, so what the run shows is that there
is none.  No other action gets fairness, since no code of the repository calls the
reorder buffers, the APIC's timer tick or the interrupt table periodically.  What
their liveness would rest on is stated as safety where the code gives it:
`HeadPending` (the drain leaves nothing that could go), `TimerRuns` (an enabled
timer has a next expiry) and `StallsOnlyWhenFull`.

### Findings

1. `rob_v72_metadata` — reorder tags wrap over a table of 1,568 records while the
   extended rings hold entries as well, so an entry in flight loses its metadata
   to a newer one, and retiring the older tag retires the newer entry.  Until the
   first spill every tag is right (`UnspilledMetadata`).
2. `trace_cache_pin_race` — `PinCount` is tested and changed outside the lock
   (`tracecache.c:243,254-255`).  A pin of one processor is lost to another's, and
   two unpins that both find the last pin leave 2^32 - 1: no eviction ever takes
   the entry again.
3. `trace_cache_overrun` — the allocator's limit is the end of the region, whose
   last 512 KB are the bucket array; with the sizes of the source insertions
   reach the bucket heads before the capacity limit or the wrap check.
4. `apic_vmx_delivery` — a VM exit acknowledges the pending vector before it tests
   IF; with IF clear the interrupt is gone.
5. `l0_write_through` — a write that is displaced from its L0 line is nowhere else,
   and a later miss brings in zeros, which the next hit returns.
6. `test_guest` — a boot that starts its test guest does not come back to report
   "Test guest execution complete" (`bemibioscore.c:222`).  `SvmRunVcpu` enters the
   guest again after every exit, its HLT included (`svmcore.c:260`); `VmxVcpuRun`
   returns only when VMLAUNCH fails (`vmxcore.c:400-406`), and where it succeeds
   the first exit continues at HOST_RIP, which `VmxSetupVmcs` does not write
   (`vmxcore.c:340-345`), against `TODO.md:25` "Set host RIP = BemiVmxExitTrampoline".

Met while modelling, and modelled as the code has it; no statement of the
repository is about them, or none a run could refute.

*Translator.*

* `JccRel` takes its condition from `src2` (`executor/mod.rs:532-533`), into which
  the translator puts `RNone` (`translator.rs:160`): no conditional branch is
  taken.  `Setcc` ignores its condition and tests for any flag
  (`executor/mod.rs:597-601`).  The flags are right for both (`FlagsExact`); their
  readers are not, and no property says they are.
* The operand size is 8 wherever the translator asks for one (`translator.rs:72,
  199, 238`): narrow operations work on, and set the flags of, whole registers;
  immediates are taken as they are (`:249`), and of `movzx` and `movsx` only the
  register form exists.  The properties are about words of one width.
* Relative targets are added to RAX (`executor/mod.rs:516`), while the translator
  emits absolute addresses (`near_branch64`).
* Logical and shift instructions with an immediate use the register micro-op with
  `RNone`, so the immediate reads as 0 (`translator.rs:106-121`); an immediate
  store loses its displacement and stores the number of `RNone`
  (`translator.rs:229`, `executor/mod.rs:139`).
* `RNone` reads 0, so `mov r, x; mov x, r` for an unknown register x is not a
  redundant pair, and `OptimizedSame` excludes such blocks: there the optimiser
  changes what the block computes.

*Hypervisor.*

* `hypervisorbackend.c` calls `VmxInit`, `VmxCreateVcpu` and `VmxRunVcpu`, which no
  source defines; it and `vmxcore.c` both define `HypervisorBackendInit` and
  `HypervisorDetectVendor`, and the `.inf` lists both files.  The definition in
  `vmxcore.c` starts VMX without asking for the vendor and sets CR4.VMXE on a
  processor that has no such bit, which traps.
* The assembly stub pushes the registers in an order that is not the C
  structure's and calls `VmxExitDispatch`, which is not defined.
* The register number of a control-register exit indexes `GUEST_STATE`, whose
  comment says "first 16 fields are GPRs" (`vmxcore.c:684`); they are, but in
  another order (RBX is field 1, RCX number 1).  A move between a control register
  and RCX, RDX, RBX, RSP, RBP, RSI or RDI goes to another register.  CLTS and LMSW
  are taken for moves from a control register, since everything but access type 0
  is (`vmxcore.c:695`).  The handler of `hypervisorbackend.c` takes the types the
  other way round, always RAX, and reads them from a field SVM fills differently.
* A comment at the EPT violation says "For now, halt the guest" (`vmxcore.c:548`);
  the code skips the instruction, and so it does for a misconfiguration.
* The interrupt a VMX exit hands over has no valid bit (`vmxcore.c:600`).
* Under SVM, exit code 0x7C is carried out as WRMSR for reads as well
  (`vmxcore.c:653-666`), so a read overwrites the register with EDX:EAX;
  `GuestKeptIn` says of SVM only that protected registers do not change.  Nested
  page faults reach the APIC's register 0 only.
* The exit handler hides VMX and the hypervisor in leaf 1 and nothing else: the SVM
  bit of leaf 0x80000001 is passed on, and so are reads of the protected MSRs.  The
  protocol's CPUID answers force the VMX flag that the exit handler hides.
* The leaves 0Fh, 10h, 12h, 14h, 17h, 18h, 1Bh, 1Dh to 20h, 23h, 24h and a few
  extended ones have subleaves; `PopulateOtherLeaves` and `PopulateExtendedLeaves`
  ask for them with `AsmCpuid` (`cpuidspoof.c:196,218`), which sets no ECX, and
  store what comes as subleaf 0.

*Boot.*

* The thread count from the topology leaf multiplies two counts of logical
  processors (`postroutines.c:55`), and may be zero: for levels of 2 and 4 leaf 0Bh
  tells the guest of 4 logical processors and the MADT lists 8.  `TablesAgree`
  relates the two tables with each other only.
* The thread count is cut to 84 (`postroutines.c:108`).  `TODO.md:42` ("144 virtual
  threads via temporal SMT in v7.2"), `docs/22_v72_zero_footprint_singularity.md` (lines 11, 20 and 101) and the
  initial value (`bemibioscore.c:55`) have 144, and the message at line 248 prints
  what was cut as "BEMI v7.2 threads".
* `docs/09_bemi_bios_ring_minus1.md:31` and `:45` give BEMI_NATIVE=1 as native and 0,
  or no variable, as legacy.  The byte that is stored and read is the enumeration
  of `bemiapi.h:10-14`, in which 0 is native (`bemibioscore.c:254-270`), and a
  missing variable takes the mode of the platform's setting.
* Without the ACPI protocol the table is published and then freed.
* A stored boot mode is not validated; an unknown one boots natively.
* `BemiInitHypervisor` called again leaks the trace cache's earlier buffer.

*Units.*

* The v7.1 thresholds of the governor (`bandwidthgovernor.c:14-18`) are not used;
  one thread gives none when throttled; a failed second initialisation loses the
  governor.
* The compressor's v7.2 bandwidth stays that of its own ratio after the pattern
  has changed; the maximum ratio is not enforced.
* Fusion's look-up returns the oldest entry of an address and never looks into the
  v7.1 buffer; `DboAnalyze` does not count the last entry.
* Two of the predictor's tables can find the tag of another branch.
* `gTraceLock` is never initialised; a v7.2 tag retired twice is counted twice.

## 4. The proofs

Eight modules hold theorems.  All of them are for every value of the constants
that the named assumption of the component's module allows, with the bounds of
TLC's instances arbitrary, so that they limit nothing; TLC evaluates the
assumptions on its instances.  A lemma about a unit is about its own actions and
lives with the composition the run checks: the composition's step is a step of
the unit or leaves its variables alone, so each theorem states the property of
the run, for `PerformanceUnits!Spec` or `Platform!Spec`.

| Module | Theorems | Inductive invariant | Assumed of the constants |
|---|---|---|---|
| `RobProofs` | `TypeOK`, `WindowInv`, `HeadPending`, `ProgramOrder`, `RetireAccounting`, `StallsOnlyWhenFull`, `OccupancyReported`, `ImplementsQueues` | `IInv` | banks and slots are positive |
| `V72Proofs` | `TypeOK`, `RingsConsistent`, `UnspilledMetadata` | `V72Inv` | rings are not empty; NULL is none of the data |
| `TraceProofs` | `TypeOK`, `UniqueTranslation`, `CountCoversValid`, `EvictionByPins`, `RecentSurvives` | `TraceInv`, `StampsDiffer` | hash into the buckets, scan depths above one (the source has 64, 128 and 256) |
| `UnitProofs` | `L0KeepsApart`, `InterruptsAccounted`, `GovernorLevels`, `CompressorReports` | `L0Inv`, `IrqInv`, `GovernorInv`, `CompressorInv` | lines, slots, line sizes and the default peak are positive; the v7.2 bandwidth is the ratio times the physical one |
| `PredictorProofs` | `BranchesLearned`, `FusionFound`, `NothingLost`, `TypeOK` of the units | `TageInv`, `FusionInv` | tables are not empty, the useful counter reaches two; two versions of the fusion tables |
| `PlatformProofs` | `ApicSound`, `HighestFirst`, `SmmBudget`, `BootStateSound`, `HypervisorReady` | `ApicInv`, `SmmInv`, `BootInv` | registers, bits and the frequency are positive; processor 0 exists, the bits the processor demands are among those it allows |
| `GuestProofs` | `ServicesSound`, `GuestKeptIn`, `ExitTransparent`, `ShadowRegisters`, `GuestProcessor`, `TablesAgree`, `TypeOK` of the platform | `ServicesInv`, `ExitsInv`, `ShadowInv`, `TablesInv` | a register is two halves; shadowed registers have one row each; disks and maps are sequences; the ranges of CPUID leaves do not overlap and 29 overrides have room (the source has 128) |
| `DbtProofs` | `TypeOK`, `LostOnlyWhenFull`, `OptimizedSame`, `MachineExact` | `PipeInv` | registers include RAX and RSP; instructions and machines are such; the law of powers of two |

**Reorder buffer.**  `IInv` is the conjunction of the five state invariants (TLC
checks each of them in `rob_v71`).  None but `TypeOK` is inductive alone:

* `WindowInv` (slots in use = the `count` slots from `head`, ending at `tail`) is
  kept by an allocation because the bank's window is not full, so the slot at
  `tail` lies just outside it; it is kept by a retirement because the drain frees
  a prefix of the window, which needs the *old* window and `TypeOK`'s ranges.
* `HeadPending` needs `WindowInv`: after a drain the new head is either outside
  the window or the first entry that is not retired.
* `ProgramOrder` needs `WindowInv` (the new entry gets the largest offset, and
  offsets shift by the drained prefix) and its own bounds (`uop <
  totalAllocations`, `allocTick <= cycleCounter`) that make the new entry the
  largest.
* `RetireAccounting` needs `WindowInv` (the slot an allocation takes was not
  counted) and `HeadPending` (a drain frees retired entries only, so it never
  changes the set in flight).

`OccupancyReported` follows from `WindowInv`: the reported sum of the banks'
counters is taken bank by bank, and each bank adds the cardinality of its own
window, which is disjoint from the others'.

**Refinement.**  The queue of a bank is its window read from the head
(`WindowIsQueue`).  An allocation appends to one queue (`AllocateIssues`); a
retirement marks one position and removes the longest prefix that is done, which
is what `ReorderQueue!Finish` says (`RetireFinishes`, from the drain's length);
everything else leaves the queues alone (`StepIsQueueStep`).  Both need `IInv`.

**Compressed buffer.**  `V72Inv` is `Base` (types, and a metadata record points
into its ring) and `Live` (after a successful initialisation every ring exists and
is one window with a pending head, and both counts agree) and `Own` (until a spill,
tags and slots of the main ring go hand in hand, and each record in flight points
back).  `Own` is what makes `UnspilledMetadata` inductive: the next tag is the tail
of the main ring, so a tag is handed out again only when its slot is.  Failed
initialisations need `Base` only.  The ring arithmetic is in `Wrap`, `Apart` and
`Further`, the rest is one lemma per operation on *a* ring, used for both levels.

**Trace cache.**  `TraceInv` adds to the types that entries fill a prefix of the
slots and that a pin under way points into it.  Uniqueness rests on the insertion
being one locked step: it adds a key only after no valid entry matched
(`MissIsMiss`), and every other step revives nothing (`NothingRevived`).  The count
covers the valid entries because an eviction that runs takes at least one evictable
entry (`EvictsSomething`), whatever the scan's order and depth.  `RecentSurvives`
needs a second invariant, `StampsDiffer`: until the 32-bit copies wrap, no two
entries were last used at the same time; then the entry used last is the victim
only if the scan met nothing else, and it meets two entries where there are two
(`TwoScanned`).  With a scan depth of one that would be false.

**L0 caches.**  `L0Inv` says that every byte of a valid line that is not zero was
written there by the line's own unit (`Sourced`), and that each unit's counters add
up; it is kept through an initialisation that fails in the middle, because the units
after the failure are `NULL` for all operations.

**Interrupts.**  `IrqInv` is the property with the counters' types.  A delivery
removes one waiting slot and counts one delivered (`FS_RemoveElement`), a queued
trigger adds one; coalescing stays exact because a trigger takes a slot only if no
pending event of its vector arrived within the window.

**Governor and compressor.**  `Sound`, of which `GovernorInv` consists, is about one structure: its type and its level
(`ThrottledSound`, `ReenabledSound`, `WindowClosed` move it), so it holds whatever
sequence of windows led there, also across a second initialisation.  The
compressor's reports are products and quotients of its byte counters; what is
proved is that they cover the least ratio that was ever in force.

**Predictor and fusion.**  `TageInv` says of every valid tagged entry that it was
learned from a branch with its index and tag, and that its direction is one that
branch was given (`Learned`); of the target buffer that a hit is the last target.
`FusionInv` ties each table's length to the successes up to its limit, and the
reported addresses to the buffer.

**APIC.**  `TopIsGreatest` shows that the scan of the registers and the scan of the
bits of one find the greatest vector of any set; delivery order follows, and that
an acknowledged vector leaves the request register.  The timer's part is a case
analysis of the register writes and the tick.

**SMM.**  `SmmInv` ties the saved time stamp to when the interrupt began while calls
are paired (`StampIsBegin`) and keeps one unjudged interrupt apart
(`PairedIsJudged`); `WholeMicroseconds` is the rounding: whole microseconds exceed
the budget exactly from the tick on that completes the next one.

**Boot.**  `BootInv` is the two checked properties with what makes them inductive:
`StepHolds`, which says for every step of the entry point what the driver holds
there (pages of the test guest, buffers, the thread count, untouched control bits
before the hypervisor), and `HvInv`, which says of the hypervisor that the backend
is that of the linked core (`BackendByBuild`), that its units stand on a processor
that can run it (`UnitsBehind`), that only the test guest's vCPU was ever created,
and where every page is.  Each step has a lemma of its own, with one case for each
of its calls that may fail.

**Exits and shadow registers.**  `ExitsInv` is the containment with the types; an
exit is dispatched by cases, and for each handler the lemma says which registers
it writes and by how much it moves the guest, where it is handled as meant
(`HandledAsMeant`).  `ShadowInv` carries what the table
promises to the guest row by row; that a filled table has the first rows in order,
although filling is recursive in the model, is proved by induction over how many
rows have been offered.

**What is published.**  `TablesInv` says that the overrides are those of the
processor the boot found (`OverridesMade`) and the tables those of the count it
took (`TablesMade`).  A checksum put where a zero was is added to the sum, modulo a
byte, wherever it stands (`SumOfChecked`, by induction along the bytes), so the
table's bytes sum to zero for every number of processors.  Every override is sound
on its own (`SoundOverrides`): it shows what the processor answers, is one of
the firmware's own leaves, or stands for subleaf 0 of a leaf that was read without
naming it; so whichever matches first is.  The two leaves that show
virtualisation are looked up among the first 29 overrides, because the loops before
them are limited (five caches, four levels, ten states, six leaves of the
hypervisor) whatever the processor reports; the limit of the table never cuts them
off, and a leaf it does cut off is answered like any leaf without an override.

**Legacy services.**  `ServicesInv` says at each step of a call which pools it
holds and which disks it has passed over (`ScanMissesNone`); nothing is kept at
`idle` but what was handed over.

**Translator.**  `PipeInv` says that blocks are sequences of micro-ops within the
limit (`Shapes`), that a block before the optimiser is full or complete
(`FullOrComplete`), that from then on it is what the two passes leave of `plain`
(`Optimized`), and at the end that both blocks ran from one machine (`BothRan`).
TLC has checked it on the instance of `dbt`.

* The optimiser: by induction along the block, what is kept of its first k
  micro-ops runs to the same machine as all k of them (`PassSame`), and when the
  last one kept is a move that was reached, the registers it moved between agree
  afterwards (`MovesAgree`), so a move back does nothing.  An ending micro-op keeps
  its place in the block, so both stop there.
* The flags: a compare is arithmetic on words of `Size` = 2 * `Top` values
  (`DifferenceFlags`, `SumFlags`), so CF, ZF and SF with OF are the order of the
  unsigned and signed numbers.  Silent micro-ops keep the flags
  and increments the carry (`FlagsStay`, `CarryStays`), by induction back along the
  block.
* The stack: raising RSP undoes lowering it, modulo the size (`BackUp`).
* Types: that a word with any given bits exists (`WordOfBits`) is what the
  logical micro-ops need to have a result.

**Induction.**  Definitions that recurse over a number, `After`, the folds of the
passes, the filling of the MSR table, the sum of a table's bytes and the list of the
plain CPUID leaves, are in reach although the library's
induction theorems are not: the set of indices for which a statement holds has
zero and each successor, so it is the whole interval (`IntervalInduction`, from
the well-foundedness of the naturals), and a recursive function is shown to exist
along the same interval before its equations are used.  The provers know no powers
with a variable exponent; the law they need, `2 ^ (i + 1) = 2 * 2 ^ i`, is part of
`MachineAssumption`, and TLC evaluates it.

**Model-checked only:**

* the properties the violation runs refute, of which `TestGuestCompletes` is the one
  about liveness: fairness and `ENABLED` are out of the prover's reach.

None of the modules uses `RECURSIVE`.

## 5. Plan

Done, most important state first: the reorder buffer with its abstract
specification and its proofs; the compressed buffer; the trace cache; the APIC
with VM exits; the L0 cache; the interrupt table; the translation pipeline; then
the remaining performance units, the exit handlers, the hypervisor's start, the
boot with what it publishes, the shadows and the legacy services; and a proof of
every property of the passing runs.

What would come next:

1. The rest of the executor (multiplication, division, bit scans, exchanges) and
   of the guest's instructions as a reference, with their operand widths and
   conditions; the code generator's buffer limits.
2. `X8088`: fetch, segment arithmetic and control transfer; the simulators' SRAM
   budget.

## 6. Not modelled

Listed with reasons in `PROJECT.json`.  In short: messages and printed rates, byte
encodings (the code generator), file copying (deployment), floating-point
performance projections (simulators, benchmarks), and what the processor itself
does (VM entry, SMM, spin locks): external and only seen through the code's use
of it.  Within modelled components:

* functions nothing calls or that only print: `PostExecutePowerOnSelfTest`,
  `TraceCacheDboPrefill`, `TraceCacheConfigureNPP`, `InterruptUseFastPath`, the SMM
  registrations, `DriverCompat`'s fixed list;
* state nothing reads: `AllocTick` of the v7.2 metadata with `V72RobTick`, hints
  and execution counts of the trace cache;
* INT 16h, which passes one key through, and the 8259 masks of the APIC shadow;
* in the executor, what the translator never emits: multiplication, division, bit
  tests and scans, exchanges;
* `VmxHandleExit`, which calls itself through the backend's table: nothing
  installs or reaches it otherwise;
* the 8088 interpreter and the Python simulators, which stand alone.
