---------------------------- MODULE LegacyServices ----------------------------
(***************************************************************************)
(* What a legacy boot uses of the firmware: the BIOS interrupts emulated by *)
(* legacy/csm/CsmModule.c and the search for a boot sector in               *)
(* legacy/boot/BootProtocol.c.                                              *)
(*                                                                         *)
(* Disks are what the handles of the block protocol lead to, in the order  *)
(* the firmware returns them; a boot sector is a block whose signature is  *)
(* right.  The memory map may grow between the two calls that ask for it.  *)
(***************************************************************************)
EXTENDS Integers, Sequences, FiniteSets

CONSTANTS
  Disks,        \* the sequences of disks a machine may have
  MemoryMaps,   \* the sequences of descriptor types it may have
  Capacities,   \* entries the callers of INT 15h make room for
  NULL

\* A disk answers HandleProtocol or not, is a partition or not, can be read, and
\* has a boot signature.
Disk == [found : BOOLEAN, partition : BOOLEAN, readable : BOOLEAN, signed : BOOLEAN]

MemoryTypes == {"conventional", "loader", "boot services", "ACPI reclaim", "ACPI NVS", "other"}

LegacyAssumption ==
  /\ \A d \in Disks : d \in Seq(Disk)
  /\ \A m \in MemoryMaps : m \in Seq(MemoryTypes)
  /\ Capacities \subseteq Nat

VARIABLES
  disks, memory,   \* the machine
  pc,              \* the call in progress: "idle", "int13", "e820", "scan" or "sector"
  pools,           \* what that call has allocated and not yet freed or handed over
  call,            \* its function, its room and what it found out: see Call
  owned,           \* the sector the caller has: its disk, and the disks there were; or NULL
  e820             \* the last map: entries, the room they had and the map they are of

vars == <<disks, memory, pc, pools, call, owned, e820>>

Call == [function : {"read", "write", "reset"}, room : Capacities \cup {0}, size : Nat,
         disk : Nat \ {0}]

NoCall == [function |-> "reset", room |-> 0, size |-> 0, disk |-> 1]
NoMap  == [entries |-> <<>>, room |-> 0, of |-> <<>>]

Init ==
  /\ disks \in Disks /\ memory \in MemoryMaps
  /\ pc = "idle" /\ pools = {} /\ call = NoCall /\ owned = NULL /\ e820 = NoMap

\* Back to the caller, with these pools freed.
Return(freed) == pc' = "idle" /\ pools' = pools \ freed /\ call' = NoCall

-------------------------------------------------------------------------------

\* CsmEmulateInt13: the handles.  With none there is no medium.
Int13Begin(function) ==
  /\ pc = "idle" /\ disks # <<>>
  /\ pc' = "int13" /\ pools' = {"handles"} /\ call' = [NoCall EXCEPT !.function = function]
  /\ UNCHANGED <<disks, memory, owned, e820>>

\* The first handle stands for every drive.  Whether it has the protocol, whether
\* the transfer succeeds and for the functions that are not supported, the
\* handles are given back; a write may leave the disk without its signature.
Int13Transfer ==
  /\ pc = "int13" /\ Return({"handles"})
  /\ \/ UNCHANGED disks
     \/ /\ disks[1].found /\ call.function = "write"
        /\ \E s \in BOOLEAN : disks' = [disks EXCEPT ![1].signed = s]
  /\ UNCHANGED <<memory, owned, e820>>

\* The type of an entry for a descriptor.
E820Type(type) ==
  CASE type \in {"conventional", "loader", "boot services"} -> 1
    [] type = "ACPI reclaim" -> 3
    [] type = "ACPI NVS" -> 4
    [] OTHER -> 2

\* CsmEmulateInt15E820: the size of the map, and memory for it.  Two descriptors
\* more are allocated, but the second call is told the size of the first.
E820Begin(room) ==
  /\ pc = "idle" /\ pc' = "e820" /\ pools' = {"map"}
  /\ call' = [NoCall EXCEPT !.room = room, !.size = Len(memory)]
  /\ UNCHANGED <<disks, memory, owned, e820>>

\* Allocating the memory, like anything else, changes the map.
MapChanges(map) ==
  /\ pc \in {"idle", "e820"} /\ memory' = map
  /\ UNCHANGED <<disks, pc, pools, call, owned, e820>>

\* Mutant of Entries: the room is not looked at.
EntriesAll(map, room) == Len(map)

Entries(map, room) == IF Len(map) > room THEN room ELSE Len(map)

MapFits == Len(memory) <= call.size

\* The second call fails where the map has outgrown what it is told.
E820Fill ==
  /\ pc = "e820" /\ Return({"map"})
  /\ e820' = IF MapFits
             THEN [entries |-> [i \in 1 .. Entries(memory, call.room) |-> E820Type(memory[i])],
                   room |-> call.room, of |-> memory]
             ELSE e820
  /\ UNCHANGED <<disks, memory, owned>>

-------------------------------------------------------------------------------

\* BootProtocolScanAndLoad: the handles, and the first disk.
ScanBegin ==
  /\ pc = "idle" /\ disks # <<>> /\ owned = NULL
  /\ pc' = "scan" /\ pools' = {"handles"} /\ call' = NoCall
  /\ UNCHANGED <<disks, memory, owned, e820>>

NextDisk(freed) == pc' = "scan" /\ pools' = pools \ freed /\ call' = [call EXCEPT !.disk = @ + 1]

\* Mutant of Skips: partitions are looked at as well.
SkipsMissing(d) == ~d.found

\* A handle without the protocol, and a partition.
Skips(d) == ~d.found \/ d.partition

ScanSkips ==
  /\ pc = "scan" /\ call.disk <= Len(disks) /\ Skips(disks[call.disk])
  /\ NextDisk({})
  /\ UNCHANGED <<disks, memory, owned, e820>>

\* A buffer for the sector, or the end of the scan.
ScanAllocates ==
  /\ pc = "scan" /\ call.disk <= Len(disks) /\ ~Skips(disks[call.disk])
  /\ \/ pc' = "sector" /\ pools' = pools \cup {"sector"} /\ UNCHANGED call
     \/ Return({"handles"})
  /\ UNCHANGED <<disks, memory, owned, e820>>

\* Mutant of Unreadable: the buffer of a sector in vain stays.
UnreadableKept == NextDisk({})

\* A sector in vain: its buffer is freed.
Unreadable == NextDisk({"sector"})

ScanReads ==
  /\ pc = "sector"
  /\ LET d == disks[call.disk]
     IN  IF d.readable /\ d.signed THEN /\ owned' = [disk |-> call.disk, of |-> disks]
                                        /\ Return({"handles", "sector"})
                                   ELSE Unreadable /\ UNCHANGED owned
  /\ UNCHANGED <<disks, memory, e820>>

ScanEnds ==
  /\ pc = "scan" /\ call.disk > Len(disks) /\ Return({"handles"})
  /\ UNCHANGED <<disks, memory, owned, e820>>

\* The caller is done with its sector.
SectorFreed ==
  /\ pc = "idle" /\ owned # NULL /\ owned' = NULL
  /\ UNCHANGED <<disks, memory, pc, pools, call, e820>>

Next ==
  \/ \E f \in {"read", "write", "reset"} : Int13Begin(f)
  \/ Int13Transfer
  \/ \E room \in Capacities : E820Begin(room)
  \/ \E map \in MemoryMaps : MapChanges(map)
  \/ E820Fill
  \/ ScanBegin \/ ScanSkips \/ ScanAllocates \/ ScanReads \/ ScanEnds
  \/ SectorFreed

Spec == Init /\ [][Next]_vars

-------------------------------------------------------------------------------

\* The state has its type.
TypeOK ==
  /\ disks \in Seq(Disk) /\ memory \in MemoryMaps
  /\ pools \subseteq {"handles", "map", "sector"} /\ call \in Call
  /\ owned = NULL \/ owned.disk \in DOMAIN owned.of

\* On every path, of failures as well, a call gives back all that it allocated
\* and does not hand over.
PoolsReturned == pc = "idle" => pools = {}

\* The sector handed over is a boot sector of a physical disk, and no such disk
\* comes before it.
FirstBootSector ==
  owned # NULL =>
    LET bootable(d) == d.found /\ ~d.partition /\ d.readable /\ d.signed
    IN  /\ bootable(owned.of[owned.disk])
        /\ \A i \in 1 .. owned.disk - 1 : ~bootable(owned.of[i])

\* The entries fit the room of the caller, and it gets all the entries of one map
\* or as many as there is room for, although the map changed while it was asked.
MapWhole ==
  /\ Len(e820.entries) <= e820.room
  /\ Len(e820.entries) < Len(e820.of) => Len(e820.entries) = e820.room

\* What the three services promise: no pool lost, the right sector, a whole map.
ServicesSound == PoolsReturned /\ FirstBootSector /\ MapWhole

===============================================================================
