------------------------------ MODULE MCPlatform ------------------------------
(* The machines the boot driver tells apart, guests whose registers have     *)
(* upper halves, a table of shadowed registers that overflows, and disks in  *)
(* every state the search for a boot sector passes.                          *)
EXTENDS Platform, Sequences

\* A recent Intel processor, and what may be different: an unlocked feature
\* register, no virtualisation and no topology leaf, AMD's with no cache leaf, and
\* one of neither maker whose topology leaf counts nothing.
Recent ==
  [std |-> 16, ext |-> 4, caches |-> <<1, 2, 3>>, levels |-> <<2, 4>>, states |-> 2,
   flags |-> {"VMX", "PDCM"}, ht |-> 2, l3Mb |-> 8, vendor |-> "Intel", paging |-> TRUE,
   locked |-> TRUE, outside |-> TRUE]

MCMachines ==
  {Recent, [Recent EXCEPT !.locked = FALSE],
   [Recent EXCEPT !.flags = {}, !.levels = <<>>, !.std = 1, !.ht = 0, !.ext = -1,
                  !.caches = <<>>],
   [Recent EXCEPT !.flags = {"SVM"}, !.vendor = "Amd", !.levels = <<1, 3>>, !.l3Mb = 16,
                  !.caches = <<>>, !.std = 15],
   [Recent EXCEPT !.flags = {}, !.vendor = "Unknown", !.std = 11, !.levels = <<3, 0>>,
                  !.caches = <<1, 1, 1, 1, 1, 1>>]}

\* Registers whose upper halves are not zero, with the numbers of an MSR that may
\* be written and one that may not, and of the leaves 0 and 1.
MCFiles ==
  {[r \in Gprs |-> IF r = 0 THEN 16 ELSE 18],
   [r \in Gprs |-> IF r = 2 THEN 11 ELSE IF r = 3 THEN 18 ELSE 9]}

MCLeaves == [l \in 0 .. 7 |-> <<7, l, 7, 1>>]

\* A register that is not read into the table, one that is passed on and a
\* read-only one; a second range does not fit the table.
MCRows ==
  <<[index |-> "TSC", reads |-> FALSE, readOnly |-> FALSE, passthrough |-> FALSE],
    [index |-> "EFER", reads |-> TRUE, readOnly |-> FALSE, passthrough |-> TRUE],
    [index |-> "MCG_CAP", reads |-> TRUE, readOnly |-> TRUE, passthrough |-> FALSE]>>

MCRanges == <<<<"PHYSBASE0", "PHYSMASK0">>>>

ADisk(found, partition, readable, signed) ==
  [found |-> found, partition |-> partition, readable |-> readable, signed |-> signed]

\* No disk; a disk, a partition and a dead handle before the boot disk; a disk
\* that cannot be read before it.
MCDisks ==
  {<<>>,
   <<ADisk(TRUE, FALSE, TRUE, FALSE), ADisk(TRUE, TRUE, TRUE, TRUE),
     ADisk(FALSE, FALSE, TRUE, TRUE), ADisk(TRUE, FALSE, TRUE, TRUE)>>,
   <<ADisk(TRUE, FALSE, FALSE, TRUE), ADisk(TRUE, FALSE, TRUE, TRUE)>>}

MCMemoryMaps ==
  {<<"conventional", "other">>, <<"loader", "other", "ACPI NVS">>,
   <<"conventional", "other", "ACPI reclaim", "boot services">>}

=============================================================================
