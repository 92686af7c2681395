------------------------------ MODULE DbtMachine ------------------------------
(***************************************************************************)
(* What a micro-op of the translator does to the machine, dbt/executor/    *)
(* mod.rs, on words of Width bits instead of 64.                           *)
(*                                                                         *)
(* A machine is the registers, the four flags the executor computes, the   *)
(* memory behind the two callbacks (both installed) and the address at     *)
(* which the guest goes on.  The operand size is always 8, the only one    *)
(* the translator asks for, so every access is wide.  The micro-ops here   *)
(* are those the translator emits; multiplications, divisions, bit scans   *)
(* and exchanges are left out.                                             *)
(***************************************************************************)
EXTENDS Integers, Sequences

CONSTANTS
  Width,        \* 64
  SlotBytes,    \* 8: what a push takes off RSP
  Registers,    \* the Register enum without RFlags and RNone
  NoneCode,     \* 255, RNone as a number
  NONE

RNone == "RNone"

ASSUME MachineAssumption ==
  /\ Width \in Nat \ {0} /\ SlotBytes \in Nat \ {0} /\ NoneCode \in Nat
  /\ {"RAX", "RSP"} \subseteq Registers /\ RNone \notin Registers
  /\ \A i \in 0 .. Width - 1 : 2 ^ (i + 1) = 2 * 2 ^ i   \* a law, for the provers

Size == 2 ^ Width
Word == 0 .. Size - 1
Top  == 2 ^ (Width - 1)          \* the sign bit
BitIndex == 0 .. Width - 1

Operand == Registers \cup {RNone}
Flags   == [cf : BOOLEAN, zf : BOOLEAN, sf : BOOLEAN, of : BOOLEAN]
NoFlags == [cf |-> FALSE, zf |-> FALSE, sf |-> FALSE, of |-> FALSE]

Machine == [reg : [Registers -> Word], flag : Flags, mem : [Word -> Word],
            next : Word \cup {NONE}]

MicroOp(code, dst, src1, src2, imm) ==
  [code |-> code, dst |-> dst, src1 |-> src1, src2 |-> src2, imm |-> imm]

-------------------------------------------------------------------------------

Wrap(x)  == x % Size
Neg(x)   == x >= Top             \* the sign bit is set
Signed(x) == IF Neg(x) THEN x - Size ELSE x
Bit(x, i) == (x \div 2 ^ i) % 2

\* The word whose bits satisfy B.
Bits(B(_)) == CHOOSE x \in Word : \A i \in BitIndex : (Bit(x, i) = 1) = B(i)

Borrows(a, b) == a < b
Carries(a, b) == (Size - 1) - a < b

\* The sign bit of (a ^ b) & (a ^ r) for a subtraction, of (a ^ r) & (b ^ r)
\* for an addition.
Overflows(r, a, b, sub) ==
  IF sub THEN Neg(a) # Neg(b) /\ Neg(a) # Neg(r)
         ELSE Neg(a) # Neg(r) /\ Neg(b) # Neg(r)

ArithFlags(r, a, b, sub) ==
  [zf |-> r = 0, sf |-> Neg(r),
   cf |-> IF sub THEN Borrows(a, b) ELSE Carries(a, b),
   of |-> Overflows(r, a, b, sub)]

LogicFlags(r) == [NoFlags EXCEPT !.zf = r = 0, !.sf = Neg(r)]

\* RegisterFile::read and write: RNone reads 0 and swallows writes.
Read(m, r) == IF r = RNone THEN 0 ELSE m.reg[r]

Write(m, r, v) == IF r = RNone THEN m ELSE [m EXCEPT !.reg[r] = v]

-------------------------------------------------------------------------------

AddTo(m, u, b) ==
  LET a == Read(m, u.src1)
      r == Wrap(a + b)
  IN  [Write(m, u.dst, r) EXCEPT !.flag = ArithFlags(r, a, b, FALSE)]

Minus(m, u, b) == Wrap(Read(m, u.src1) - b)

CmpFlags(m, u, b) == ArithFlags(Minus(m, u, b), Read(m, u.src1), b, TRUE)

SubFrom(m, u, b) ==
  [Write(m, u.dst, Minus(m, u, b)) EXCEPT !.flag = CmpFlags(m, u, b)]

Logic(m, u, r) == [Write(m, u.dst, r) EXCEPT !.flag = LogicFlags(r)]

\* Mutant of KeepCarry: the carry of the addition stays.
KeepCarryNot(before, after) == after

\* INC and DEC leave CF as it was.
KeepCarry(before, after) == [after EXCEPT !.flag.cf = before.flag.cf]

Arithmetic(m, u) ==
  CASE u.code = "AddRR" -> AddTo(m, u, Read(m, u.src2))
    [] u.code = "AddRI" -> AddTo(m, u, u.imm)
    [] u.code = "SubRR" -> SubFrom(m, u, Read(m, u.src2))
    [] u.code = "SubRI" -> SubFrom(m, u, u.imm)
    [] u.code = "CmpRR" -> [m EXCEPT !.flag = CmpFlags(m, u, Read(m, u.src2))]
    [] u.code = "CmpRI" -> [m EXCEPT !.flag = CmpFlags(m, u, u.imm)]
    [] u.code = "IncR"  -> KeepCarry(m, AddTo(m, u, 1))
    [] u.code = "DecR"  -> KeepCarry(m, SubFrom(m, u, 1))

\* The shift count is cut to 6 bits, that is modulo the width.
Shift(x) == x % Width

BitOps(m, u) ==
  LET a == Read(m, u.src1)
      b == Read(m, u.src2)
      n == Shift(b)
      k == Shift(u.imm)
  IN  CASE u.code = "AndRR" -> Logic(m, u, Bits(LAMBDA i : Bit(a, i) = 1 /\ Bit(b, i) = 1))
        [] u.code = "OrRR"  -> Logic(m, u, Bits(LAMBDA i : Bit(a, i) = 1 \/ Bit(b, i) = 1))
        [] u.code = "XorRR" -> Logic(m, u, Bits(LAMBDA i : Bit(a, i) # Bit(b, i)))
        [] u.code = "ShlRR" -> Logic(m, u, Wrap(a * 2 ^ n))
        [] u.code = "ShrRR" -> Logic(m, u, a \div 2 ^ n)
        [] u.code = "SarRR" -> Logic(m, u, Wrap(Signed(a) \div 2 ^ n))
        [] u.code = "RolRI" -> Write(m, u.dst, Bits(LAMBDA i : Bit(a, (i + Width - k) % Width) = 1))
        [] u.code = "RorRI" -> Write(m, u.dst, Bits(LAMBDA i : Bit(a, (i + k) % Width) = 1))

\* The low half of a word, sign-extended.
LowHalf(x) ==
  LET h == 2 ^ (Width \div 2)
      l == x % h
  IN  IF 2 * l >= h THEN Wrap(l - h) ELSE l

\* MovMI stores the number of its first source, not its immediate, and adds
\* the immediate to the address.
Moves(m, u) ==
  CASE u.code \in {"MovRR", "MovzxRR", "MovsxRR"} -> Write(m, u.dst, Read(m, u.src1))
    [] u.code = "MovRI"  -> Write(m, u.dst, u.imm)
    [] u.code = "MovRM"  -> Write(m, u.dst, m.mem[Wrap(Read(m, u.src1) + u.imm)])
    [] u.code = "MovMR"  ->
         [m EXCEPT !.mem[Wrap(Read(m, u.dst) + u.imm)] = Read(m, u.src1)]
    [] u.code = "MovMI"  ->
         [m EXCEPT !.mem[Wrap(Read(m, u.dst) + u.imm)] = Wrap(NoneCode)]
    [] u.code = "Movsxd" -> Write(m, u.dst, LowHalf(Read(m, u.src1)))
    [] u.code = "Setcc"  -> Write(m, u.dst, IF m.flag = NoFlags THEN 0 ELSE 1)

Below(m) == Wrap(m.reg["RSP"] - SlotBytes)

Pushed(m, v) == [m EXCEPT !.reg["RSP"] = Below(m), !.mem[Below(m)] = v]

Raised(m) == [m EXCEPT !.reg["RSP"] = Wrap(m.reg["RSP"] + SlotBytes)]

\* The word on top of the stack.
Tip(m) == m.mem[m.reg["RSP"]]

\* A pop into RSP leaves the value there, not the raised pointer.
Popped(m, r) == Write(Raised(m), r, Tip(m))

\* Whether JccRel jumps on a condition.  The translator puts none into src2,
\* which is RNone then and never jumps.
Taken(cc, f) ==
  CASE cc = "O" -> f.of          [] cc = "NO" -> ~f.of
    [] cc = "B" -> f.cf          [] cc = "AE" -> ~f.cf
    [] cc = "E" -> f.zf          [] cc = "NE" -> ~f.zf
    [] cc = "BE" -> f.cf \/ f.zf [] cc = "A" -> ~f.cf /\ ~f.zf
    [] cc = "S" -> f.sf          [] cc = "NS" -> ~f.sf
    [] cc = "L" -> f.sf # f.of   [] cc = "GE" -> f.sf = f.of
    [] cc = "LE" -> f.zf \/ f.sf # f.of
    [] cc = "G" -> ~f.zf /\ f.sf = f.of
    [] OTHER -> FALSE

\* "current IP stored in RAX for tracing": relative targets start there.
Ahead(m, imm) == Wrap(m.reg["RAX"] + imm)

Transfers(m, u) ==
  CASE u.code = "PushR"   -> Pushed(m, Read(m, u.src1))
    [] u.code = "PopR"    -> Popped(m, u.dst)
    [] u.code = "JmpRel"  -> [m EXCEPT !.next = Ahead(m, u.imm)]
    [] u.code = "JmpAbs"  -> [m EXCEPT !.next = Read(m, u.src1)]
    [] u.code = "JccRel"  ->
         IF Taken(u.src2, m.flag) THEN [m EXCEPT !.next = Ahead(m, u.imm)] ELSE m
    [] u.code = "CallRel" ->
         [Pushed(m, m.reg["RAX"]) EXCEPT !.next = Ahead(m, u.imm)]
    [] u.code = "CallAbs" ->
         LET p == Pushed(m, m.reg["RAX"]) IN [p EXCEPT !.next = Read(p, u.src1)]
    [] u.code = "Ret"     -> [Raised(m) EXCEPT !.next = Tip(m)]

ArithmeticCodes == {"AddRR", "AddRI", "SubRR", "SubRI", "CmpRR", "CmpRI",
                    "IncR", "DecR"}
BitCodes  == {"AndRR", "OrRR", "XorRR", "ShlRR", "ShrRR", "SarRR", "RolRI",
              "RorRI"}
MoveCodes == {"MovRR", "MovzxRR", "MovsxRR", "MovRI", "MovRM", "MovMR", "MovMI",
              "Movsxd", "Setcc"}
\* The micro-ops after which execute_block stops.
EndCodes  == {"Ret", "JmpRel", "JmpAbs", "JccRel", "CallRel", "CallAbs", "Hlt"}

\* execute_inst; Nop, Hlt, Cli and Sti do nothing.
Step(m, u) ==
  CASE u.code \in ArithmeticCodes -> Arithmetic(m, u)
    [] u.code \in BitCodes        -> BitOps(m, u)
    [] u.code \in MoveCodes       -> Moves(m, u)
    [] u.code \in (EndCodes \ {"Hlt"}) \cup {"PushR", "PopR"} -> Transfers(m, u)
    [] OTHER -> m

\* The micro-ops of a block that execute_block reaches.
Reached(ops) ==
  {i \in 1 .. Len(ops) : \A j \in 1 .. i - 1 : ops[j].code \notin EndCodes}

\* execute_block on a machine without a next address: the machine after the
\* first n micro-ops.
After(ops, start, n) ==
  LET run[i \in 0 .. n] ==
        IF i = 0 THEN [start EXCEPT !.next = NONE]
        ELSE IF i \in Reached(ops) THEN Step(run[i - 1], ops[i]) ELSE run[i - 1]
  IN  run[n]

Execute(ops, start) == After(ops, start, Len(ops))

===============================================================================
