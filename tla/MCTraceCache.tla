---------------------------- MODULE MCTraceCache ----------------------------
(* Two addresses in two contexts, hashed to two buckets so that both buckets *)
(* hold keys that collide and one address is found in both.                  *)
EXTENDS TraceCache, TLC

CONSTANTS r1, r2, x1, x2

MCHash == [k \in Key |-> IF k = <<r1, x1>> THEN 0
                         ELSE IF k = <<r2, x2>> THEN 0 ELSE 1]

\* The kernel context is x1; the kernel image holds both addresses.
MCKernelBlocks == <<<<r1, x1>>, <<r2, x1>>>>

CPUSymmetry == Permutations(CPUs)

=============================================================================
