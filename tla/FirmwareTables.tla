----------------------------- MODULE FirmwareTables -----------------------------
(***************************************************************************)
(* The tables that describe the processors to the operating system:        *)
(* hwcompat/acpi/AcpiTables.c and hwcompat/smbios/SmbiosTables.c.           *)
(*                                                                         *)
(* The ACPI table is a sequence of bytes: the header's (two of them        *)
(* matter, the length and the checksum), four per processor, four of the   *)
(* I/O APIC; texts and addresses are left out.  A byte has ByteValues       *)
(* values.                                                                 *)
(***************************************************************************)
EXTENDS Integers, Sequences

CONSTANT ByteValues

VARIABLES
  madt,    \* the table, or the empty sequence
  madtAt,  \* how it was published: "nowhere", "protocol", "configuration table"
  madtFreed, \* its memory was given back
  smbios   \* the structures added: their types and the processor count of type 4

tableVars == <<madt, madtAt, madtFreed, smbios>>

-------------------------------------------------------------------------------

TablesReset ==
  /\ madt = <<>> /\ madtAt = "nowhere" /\ madtFreed = FALSE
  /\ smbios = [types |-> {}, cores |-> 0]

\* The sum of the first n bytes.
ByteSum(bytes) ==
  LET sum[n \in 0 .. Len(bytes)] == IF n = 0 THEN 0 ELSE (sum[n - 1] + bytes[n]) % ByteValues
  IN  sum[Len(bytes)]

\* Mutant of AcpiCalcChecksum: one less.
AcpiCalcChecksumLess(bytes) == ByteValues - 1 - ByteSum(bytes)

AcpiCalcChecksum(bytes) == (ByteValues - ByteSum(bytes)) % ByteValues

\* A byte of the table.
UINT8(n) == n % ByteValues

LocalApic == 0
IoApic    == 1

\* Type, length, processor and APIC id of each processor.
ProcessorBytes(cpuCount) ==
  [k \in 1 .. 4 * cpuCount |->
     LET i == (k - 1) \div 4
     IN  <<LocalApic, UINT8(4), UINT8(i), UINT8(i)>>[1 + ((k - 1) % 4)]]

\* The table with checksum c; the I/O APIC gets the next id.
MadtBytes(cpuCount, c) ==
  <<UINT8(2 + 4 * (cpuCount + 1)), c>> \o ProcessorBytes(cpuCount)
    \o <<IoApic, UINT8(4), UINT8(cpuCount), 0>>

\* The allocation may fail.  Without the table protocol the address of the table
\* is published, and its memory is given back all the same; a table the protocol
\* did not take is given back too.
AcpiInitTables(cpuCount) ==
  LET bytes == MadtBytes(cpuCount, AcpiCalcChecksum(MadtBytes(cpuCount, 0)))
  IN  \/ UNCHANGED tableVars    \* EFI_OUT_OF_RESOURCES
      \/ /\ madt' = bytes
         /\ madtAt' \in {"nowhere", "protocol", "configuration table"}
         /\ madtFreed' = TRUE
         /\ UNCHANGED smbios

\* Each structure may be refused; without the protocol there are none.
SmbiosInitTables(cpuCount) ==
  \E added \in SUBSET {0, 1, 4} :
    /\ smbios' = [types |-> added,
                  cores |-> IF 4 \in added THEN UINT8(cpuCount) ELSE 0]
    /\ UNCHANGED <<madt, madtAt, madtFreed>>

-------------------------------------------------------------------------------

\* The bytes of a published table sum to zero whatever was left out of it or
\* truncated; the ids are distinct, and the other table counts the same
\* processors, as long as the count fits the byte it is cut to.
TablesDescribe(cpuCount) ==
  madt # <<>> =>
    /\ ByteSum(madt) = 0
    /\ 4 \in smbios.types /\ cpuCount < ByteValues =>
         smbios.cores = (Len(madt) - 6) \div 4
    /\ cpuCount < ByteValues =>
         \A i, j \in 0 .. cpuCount - 1 : i # j => madt[4 * i + 6] # madt[4 * j + 6]
    /\ cpuCount < ByteValues =>
         \A i \in 0 .. cpuCount - 1 : madt[4 * i + 6] # madt[Len(madt) - 1]

===============================================================================
