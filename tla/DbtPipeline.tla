------------------------------ MODULE DbtPipeline -----------------------------
(***************************************************************************)
(* One block through the binary translator: dbt/translator.rs decodes      *)
(* guest instructions up to a branch or the end of the code and pushes     *)
(* their micro-ops into a block of dbt/ir.rs, dbt/optimizer.rs removes     *)
(* micro-ops from it, and dbt/executor/mod.rs runs it.  The block is also   *)
(* run as it was before the optimiser, to compare the two.                 *)
(*                                                                         *)
(* An instruction is what the decoder library makes of the bytes: a        *)
(* mnemonic, the kinds of its operands, its registers as map_register maps *)
(* them (RNone for all it does not know), an immediate or displacement.    *)
(* Jumps carry absolute addresses.  MaxInstructions bounds the guest code. *)
(***************************************************************************)
EXTENDS DbtMachine, SequencesExt

CONSTANTS
  Instructions,      \* the guest instructions that are tried
  LateInstructions,  \* those tried once the block is full
  Starts,            \* the machines the block may start on
  MaxOps,            \* MAX_MICRO_OPS_PER_BLOCK
  MaxInstructions

Instruction ==
  [m : STRING, kinds : STRING, dst : Operand, src : Operand, imm : Word]

ASSUME PipelineAssumption ==
  /\ MaxOps \in Nat /\ MaxInstructions \in Nat
  /\ Instructions \cup LateInstructions \subseteq Instruction
  /\ Starts \subseteq Machine

VARIABLES
  phase,        \* "translate", "optimize", "execute" or "done"
  ops,          \* micro_ops[0 .. micro_op_count)
  instructionCount,
  emitted,      \* micro-ops that translate_instruction returned
  plain,        \* the block before the optimiser saw it
  start, final, plainFinal

vars == <<phase, ops, instructionCount, emitted, plain, start, final, plainFinal>>

Idle == [reg |-> [r \in Registers |-> 0], flag |-> NoFlags,
         mem |-> [a \in Word |-> 0], next |-> NONE]

Init ==
  /\ phase = "translate"
  /\ ops = <<>> /\ plain = <<>>
  /\ instructionCount = 0 /\ emitted = 0
  /\ start = Idle /\ final = Idle /\ plainFinal = Idle

-------------------------------------------------------------------------------

\* translate_mov: by the kinds of the two operands; an immediate store loses
\* its displacement, and other kinds give nothing.
TranslateMov(i) ==
  CASE i.kinds = "rr" -> <<MicroOp("MovRR", i.dst, i.src, RNone, 0)>>
    [] i.kinds = "ri" -> <<MicroOp("MovRI", i.dst, RNone, RNone, i.imm)>>
    [] i.kinds = "rm" -> <<MicroOp("MovRM", i.dst, i.src, RNone, i.imm)>>
    [] i.kinds = "mr" -> <<MicroOp("MovMR", i.dst, i.src, RNone, i.imm)>>
    [] i.kinds = "mi" -> <<MicroOp("MovMI", i.dst, RNone, RNone, i.imm)>>
    [] OTHER -> <<>>

\* translate_binary: memory operands give nothing.
TranslateBinary(i, rr, ri) ==
  CASE i.kinds = "rr" -> <<MicroOp(rr, i.dst, i.dst, i.src, 0)>>
    [] i.kinds = "ri" -> <<MicroOp(ri, i.dst, i.dst, RNone, i.imm)>>
    [] OTHER -> <<>>

RR == [Add |-> "AddRR", Sub |-> "SubRR", Cmp |-> "CmpRR", And |-> "AndRR",
       Or |-> "OrRR", Xor |-> "XorRR", Shl |-> "ShlRR", Shr |-> "ShrRR",
       Sar |-> "SarRR"]
\* The logical and shift instructions have no immediate micro-op: the one for
\* registers is emitted, with RNone as its second source.
RI == [RR EXCEPT !.Add = "AddRI", !.Sub = "SubRI", !.Cmp = "CmpRI"]

Widening == [Movzx |-> "MovzxRR", Movsx |-> "MovsxRR", Movsxd |-> "Movsxd"]
Rotate   == [Rol |-> "RolRI", Ror |-> "RorRI"]
Direct   == [Jmp |-> "JmpRel", Call |-> "CallRel"]
Indirect == [Jmp |-> "JmpAbs", Call |-> "CallAbs"]
Plain    == [Hlt |-> "Hlt", Cli |-> "Cli", Sti |-> "Sti", Ret |-> "Ret",
             Retf |-> "Ret"]

\* translate_instruction.  No condition code is put into a JccRel.
Translate(i) ==
  CASE i.m = "Mov" -> TranslateMov(i)
    [] i.m \in DOMAIN RR -> TranslateBinary(i, RR[i.m], RI[i.m])
    [] i.m \in DOMAIN Widening ->
         <<MicroOp(Widening[i.m], i.dst, i.src, RNone, 0)>>
    [] i.m \in DOMAIN Rotate ->
         <<MicroOp(Rotate[i.m], i.dst, i.dst, RNone, i.imm)>>
    [] i.m = "Push" -> <<MicroOp("PushR", RNone, i.src, RNone, 0)>>
    [] i.m = "Pop"  -> <<MicroOp("PopR", i.dst, RNone, RNone, 0)>>
    [] i.m = "Inc"  -> <<MicroOp("IncR", i.dst, i.dst, RNone, 0)>>
    [] i.m = "Dec"  -> <<MicroOp("DecR", i.dst, i.dst, RNone, 0)>>
    [] i.m \in DOMAIN Indirect /\ i.kinds = "r" ->
         <<MicroOp(Indirect[i.m], RNone, i.src, RNone, 0)>>
    [] i.m \in DOMAIN Direct /\ i.kinds # "r" ->
         <<MicroOp(Direct[i.m], RNone, RNone, RNone, i.imm)>>
    [] i.m = "Jcc"   -> <<MicroOp("JccRel", RNone, RNone, RNone, i.imm)>>
    [] i.m = "Setcc" -> <<MicroOp("Setcc", i.dst, RNone, RNone, i.imm)>>
    [] i.m \in DOMAIN Plain -> <<MicroOp(Plain[i.m], RNone, RNone, RNone, 0)>>
    [] OTHER -> <<MicroOp("Nop", RNone, RNone, RNone, 0)>>

\* is_branch_or_ret: a far return is not one of them.
EndsBlock(i) == i.m \in {"Jmp", "Jcc", "Call", "Ret", "Iret", "Hlt"}

\* Mutant of Room: the last entry of the block is not used.
RoomShort == MaxOps - 1 - Len(ops)

\* Mutant of Room: the limit is passed by one.
RoomOver == MaxOps + 1 - Len(ops)

Room == MaxOps - Len(ops)

\* TranslationBlock::push of each micro-op until one does not fit.
PushAll(us) == ops \o SubSeq(us, 1, IF Room < Len(us) THEN Room ELSE Len(us))

Offered == IF Room > 0 THEN Instructions ELSE LateInstructions

\* One turn of translate_block's loop.
DecodeOne(i) ==
  /\ phase = "translate"
  /\ instructionCount < MaxInstructions
  /\ ops' = PushAll(Translate(i))
  /\ emitted' = emitted + Len(Translate(i))
  /\ instructionCount' = instructionCount + 1
  /\ phase' = IF EndsBlock(i) THEN "optimize" ELSE "translate"
  /\ UNCHANGED <<plain, start, final, plainFinal>>

\* The code ran out.
EndOfCode ==
  /\ phase = "translate"
  /\ phase' = "optimize"
  /\ UNCHANGED <<ops, instructionCount, emitted, plain, start, final, plainFinal>>

\* The first pass removes these wherever they stand.
Removable(u) == u.code = "Nop" \/ (u.code = "MovRR" /\ u.dst = u.src1)

\* Mutant of Undoes: the source of the first move is not compared.
UndoesHalf(u, v) ==
  /\ u.code = "MovRR" /\ v.code = "MovRR"
  /\ u.dst = v.src1

\* The second pass removes v behind u.
Undoes(u, v) ==
  /\ u.code = "MovRR" /\ v.code = "MovRR"
  /\ u.dst = v.src1 /\ u.src1 = v.dst

\* What a pass removes, given what it kept before.
Drops(pass, kept, v) ==
  IF pass = 1 THEN Removable(v) ELSE kept # <<>> /\ Undoes(Last(kept), v)

Keep(pass, kept, v) == IF Drops(pass, kept, v) THEN kept ELSE Append(kept, v)

Pass(pass, block) == FoldLeft(LAMBDA kept, v : Keep(pass, kept, v), <<>>, block)

\* optimize_block.
OptimizeBlock ==
  /\ phase = "optimize"
  /\ ops' = Pass(2, Pass(1, ops))
  /\ plain' = ops
  /\ phase' = "execute"
  /\ UNCHANGED <<instructionCount, emitted, start, final, plainFinal>>

ExecuteBlock(m) ==
  /\ phase = "execute"
  /\ start' = m
  /\ final' = Execute(ops, m)
  /\ plainFinal' = Execute(plain, m)
  /\ phase' = "done"
  /\ UNCHANGED <<ops, instructionCount, emitted, plain>>

Next ==
  \/ \E i \in Offered : DecodeOne(i)
  \/ EndOfCode
  \/ OptimizeBlock
  \/ \E m \in Starts : ExecuteBlock(m)

Spec == Init /\ [][Next]_vars

-------------------------------------------------------------------------------

\* The block is within its limit, and the machines are machines.
TypeOK ==
  /\ phase \in {"translate", "optimize", "execute", "done"}
  /\ Len(ops) <= MaxOps /\ Len(plain) <= MaxOps
  /\ instructionCount \in 0 .. MaxInstructions /\ emitted \in 0 .. MaxInstructions
  /\ start \in Machine /\ final \in Machine /\ plainFinal \in Machine

Done == phase = "done"

\* A move to or from a register that map_register does not know.
Unmapped(u) == u.code = "MovRR" /\ RNone \in {u.dst, u.src1}

\* The optimiser does not change what a block computes, whatever it removes and
\* in whatever order the removals make moves adjacent -- as long as the block
\* moves between registers the translator knows.
OptimizedSame ==
  Done /\ (\A i \in DOMAIN plain : ~Unmapped(plain[i])) => final = plainFinal

\* Micro-ops are lost only at the capacity of the block: when the optimiser gets
\* it, it is full or has every micro-op that was translated.
LostOnlyWhenFull ==
  phase = "optimize" => Len(ops) = MaxOps \/ Len(ops) = emitted

\* The operands of micro-op i of the executed block, and the machine before it.
Prior(i) == After(ops, start, i - 1)
Left(i)  == Read(Prior(i), ops[i].src1)
Right(i) ==
  CASE ops[i].code \in {"AddRI", "SubRI", "CmpRI"} -> ops[i].imm
    [] ops[i].code \in {"IncR", "DecR"} -> 1
    [] OTHER -> Read(Prior(i), ops[i].src2)

\* The micro-ops that leave the flags alone: moves, stack traffic and the branch
\* at the end of the block.
Silent == MoveCodes \cup EndCodes \cup {"PushR", "PopR", "Nop", "Cli", "Sti"}

\* Micro-op i has one of the codes, is reached, and only micro-ops of those
\* others follow it.
LastOf(i, codes, others) ==
  /\ i \in Reached(ops) /\ ops[i].code \in codes
  /\ \A j \in i + 1 .. Len(ops) : ops[j].code \in others

\* A compare or subtraction with nothing but moves, stack traffic and the
\* branch after it leaves the flags that tell how the two words are ordered: CF
\* as unsigned numbers, SF against OF as signed ones, overflow included.
OrderExact ==
  LET f == final.flag
  IN  Done => \A i \in DOMAIN ops :
        LastOf(i, {"CmpRR", "CmpRI", "SubRR", "SubRI"}, Silent) =>
          /\ f.cf = (Left(i) < Right(i))
          /\ f.zf = (Left(i) = Right(i))
          /\ (f.sf # f.of) = (Signed(Left(i)) < Signed(Right(i)))

\* A carry survives loop counting: after an addition, increments, decrements and
\* moves leave CF as the carry out of the addition.
CarrySurvives ==
  Done => \A i \in DOMAIN ops :
    LastOf(i, {"AddRR", "AddRI"}, Silent \cup {"IncR", "DecR"}) =>
      final.flag.cf = (Left(i) + Right(i) \notin Word)

\* OF tells whether the signed result of the last arithmetic is out of range,
\* for increments and decrements too.
OverflowExact ==
  LET range == -Top .. Top - 1
  IN  Done => \A i \in DOMAIN ops :
        /\ LastOf(i, {"AddRR", "AddRI", "IncR"}, Silent) =>
             final.flag.of = (Signed(Left(i)) + Signed(Right(i)) \notin range)
        /\ LastOf(i, {"SubRR", "SubRI", "CmpRR", "CmpRI", "DecR"}, Silent) =>
             final.flag.of = (Signed(Left(i)) - Signed(Right(i)) \notin range)

\* The flags after the last arithmetic of a block are those of words of Width
\* bits: for the order of two words, a carry across a counted loop and signed
\* overflow.
FlagsExact == OrderExact /\ CarrySurvives /\ OverflowExact

\* A push and the pop right after it are a move, with RSP where it was -- also
\* when RSP is what is pushed or popped.
PushPopIsMove ==
  Done => \A i \in 1 .. Len(ops) - 1 :
    i + 1 \in Reached(ops) /\ ops[i].code = "PushR" /\ ops[i + 1].code = "PopR" =>
      After(ops, start, i + 1).reg =
        Write(Prior(i), ops[i + 1].dst, Read(Prior(i), ops[i].src1)).reg

\* What the executor leaves of the last arithmetic in the flags, and of a push
\* and its pop in the registers.  It does not say that a block does what the
\* guest's code does: operands are always wide (op_size is 8 wherever the
\* translator asks for it), no condition code reaches a JccRel, so none is
\* taken, and Setcc writes whether any flag is set.
MachineExact == FlagsExact /\ PushPopIsMove

===============================================================================
