-------------------------- MODULE MCPerformanceUnits --------------------------
(* A branch that shares entries with another in one table only, a kernel of  *)
(* two branches, and opcodes at the ends of their ranges, a compare, a       *)
(* decrement and a move among them, with one pair that cannot be fused.      *)
EXTENDS PerformanceUnits, TLC

CONSTANTS v1, v71

MCKernels == {<<1, <<2, 30>>>>}

MCPairs ==
  {[rip |-> 16, next |-> 20, opcodes |-> <<61, 112, 0>>],
   [rip |-> 16, next |-> 24, opcodes |-> <<131, 15, 143>>],
   [rip |-> 20, next |-> 28, opcodes |-> <<141, 128, 0>>],
   [rip |-> 32, next |-> 36, opcodes |-> <<139, 131, 0>>],
   [rip |-> 32, next |-> 40, opcodes |-> <<62, 127, 0>>]}

MCMaxPairs   == v1 :> 1 @@ v71 :> 2
MCBufferSize == v1 :> 2 @@ v71 :> 3
MCRegions    == {<<0, 1>>}

=============================================================================
