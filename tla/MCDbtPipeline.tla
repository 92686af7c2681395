---------------------------- MODULE MCDbtPipeline ----------------------------
(* Three registers of two bits; every kind of instruction the translator      *)
(* knows, all moves between the registers, and moves from and to one that it   *)
(* does not map.                                                              *)
EXTENDS DbtPipeline

Inst(m, kinds, dst, src, imm) ==
  [m |-> m, kinds |-> kinds, dst |-> dst, src |-> src, imm |-> imm]

MCMoves ==
  {Inst("Mov", "rr", r, s, 0) : r \in Registers, s \in Registers}
    \cup {Inst("Mov", "rr", "RAX", RNone, 0), Inst("Mov", "rr", RNone, "RAX", 0),
          Inst("Mov", "ri", "RAX", RNone, 3), Inst("Mov", "rm", "RAX", "RSP", 1),
          Inst("Mov", "mr", "RSP", "RAX", 1), Inst("Mov", "mi", "RAX", RNone, 1),
          Inst("Movsxd", "rr", "RAX", "RSP", 0), Inst("Movzx", "rr", "RSP", "RAX", 0)}

MCArithmetic ==
  {Inst(m, "rr", "RAX", "RSP", 0) : m \in {"Add", "Sub", "Cmp"}}
    \cup {Inst("Add", "ri", "RSP", RNone, 3), Inst("Cmp", "ri", "RAX", RNone, 2),
          Inst("Add", "rm", "RAX", "RSP", 0),
          Inst("Inc", "r", "RAX", RNone, 0), Inst("Dec", "r", "RSP", RNone, 0)}

MCBitOps ==
  {Inst("Xor", "rr", "RAX", "RSP", 0), Inst("And", "ri", "RAX", RNone, 1),
   Inst("Sar", "rr", "RAX", "RSP", 0), Inst("Rol", "ri", "RAX", RNone, 1)}

MCTransfers ==
  {Inst("Push", "r", RNone, r, 0) : r \in {"RAX", "RSP"}}
    \cup {Inst("Pop", "r", r, RNone, 0) : r \in {"RAX", "RSP"}}
    \cup {Inst("Jmp", "i", RNone, RNone, 1), Inst("Jcc", "i", RNone, RNone, 1),
          Inst("Call", "r", RNone, "RSP", 0), Inst("Retf", "", RNone, RNone, 0),
          Inst("Setcc", "r", "RAX", RNone, 0), Inst("Hlt", "", RNone, RNone, 0),
          Inst("Nop", "", RNone, RNone, 0)}

MCInstructions == MCMoves \cup MCArithmetic \cup MCBitOps \cup MCTransfers

MCLate == {Inst("Inc", "r", "RAX", RNone, 0), Inst("Jmp", "i", RNone, RNone, 1)}

MCStarts ==
  {[Idle EXCEPT !.reg["RAX"] = a, !.reg["RCX"] = 1, !.reg["RSP"] = b] : a \in Word, b \in Word}

=============================================================================
