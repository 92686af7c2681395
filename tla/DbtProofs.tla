------------------------------- MODULE DbtProofs -------------------------------
(***************************************************************************)
(* What DbtPipeline promises of a translated block for every word width,   *)
(* every set of instructions and every limit of a block.                   *)
(***************************************************************************)
EXTENDS DbtPipeline, SequenceTheorems, WellFoundedInduction, TLAPS

-------------------------------------------------------------------------------
(* Numbers                                                                 *)

\* A set of naturals has a least one.
LEMMA Least ==
  ASSUME NEW t \in SUBSET Nat, t # {}
  PROVE  \E k \in t : \A l \in t : k <= l
<1>. DEFINE R == OpToRel(<, Nat)
<1>1. IsWellFoundedOn(R, Nat)
  BY NatLessThanWellFounded
<1>. HIDE DEF R
<1>2. PICK k \in t : \A l \in t : <<l, k>> \notin R
  BY <1>1, WFMin
<1>3. \A l \in t : ~(l < k)
  BY <1>2 DEF R, OpToRel
<1>. QED  BY <1>3

\* A set that has zero, and each number whose predecessor it has, has them all.
LEMMA IntervalInduction ==
  ASSUME NEW n \in Nat, NEW p \in SUBSET (0 .. n), 0 \in p, \A k \in 1 .. n : k - 1 \in p => k \in p
  PROVE  p = 0 .. n
<1>. DEFINE missing == (0 .. n) \ p
<1>. SUFFICES ASSUME missing # {}
              PROVE  FALSE
  OBVIOUS
<1>1. missing \in SUBSET Nat
  OBVIOUS
<1>2. PICK k \in missing : \A l \in missing : k <= l
  BY <1>1, Least
<1>3. k \in 1 .. n /\ k - 1 \in 0 .. n
  BY <1>2
<1>4. k - 1 \in p
  BY <1>2, <1>3
<1>. QED  BY <1>2, <1>3, <1>4

\* Quotient and remainder determine each other.
LEMMA Division ==
  ASSUME NEW n \in Nat \ {0}, NEW q \in Nat, NEW r \in 0 .. n - 1
  PROVE  (r + q * n) \div n = q /\ (r + q * n) % n = r
<1>. DEFINE x == r + q * n
            p == x \div n
<1>1. q * n \in Nat /\ x \in Nat
  BY SMT
<1>2. p \in Nat /\ p * n <= x /\ x < (p + 1) * n /\ x % n = x - p * n
  BY <1>1, SMT
<1>. HIDE DEF p
<1>3. p < q => (p + 1) * n <= q * n
  BY <1>2, SMT
<1>4. p > q => (q + 1) * n <= p * n
  BY <1>2, SMT
<1>5. (q + 1) * n = q * n + n /\ (p + 1) * n \in Nat /\ p * n \in Nat
  BY <1>2, SMT
<1>6. p = q
  BY <1>1, <1>2, <1>3, <1>4, <1>5, SMT
<1>7. x % n = r
  BY <1>1, <1>2, <1>6, SMT
<1>. QED  BY <1>6, <1>7 DEF p

\* Powers of two up to the width.
LEMMA Powers ==
  /\ \A i \in 0 .. Width : 2 ^ i \in Nat \ {0}
  /\ \A i \in BitIndex : 2 ^ (i + 1) = 2 * 2 ^ i
<1>. DEFINE p == {i \in 0 .. Width : 2 ^ i \in Nat \ {0}}
<1>1. \A i \in BitIndex : 2 ^ (i + 1) = 2 * 2 ^ i
  BY MachineAssumption DEF BitIndex
<1>2. 0 \in p
  BY MachineAssumption
<1>3. ASSUME NEW k \in 1 .. Width, k - 1 \in p
      PROVE  k \in p
  <2>1. k - 1 \in BitIndex /\ k = (k - 1) + 1
    BY MachineAssumption DEF BitIndex
  <2>. DEFINE e == 2 ^ (k - 1)
  <2>2. e \in Nat \ {0} /\ 2 ^ ((k - 1) + 1) = 2 * e
    BY <1>1, <1>3, <2>1
  <2>. HIDE DEF e
  <2>3. 2 * e \in Nat \ {0}
    BY <2>2
  <2>. QED  BY <2>1, <2>2, <2>3
<1>4. p = 0 .. Width
  <2>1. p \in SUBSET (0 .. Width) /\ Width \in Nat
    BY MachineAssumption
  <2>. HIDE DEF p
  <2>. QED  BY <1>2, <1>3, <2>1, IntervalInduction
<1>. QED  BY <1>1, <1>4

\* A word has a sign bit and as many values with it as without.
LEMMA WordSize ==
  /\ Top \in Nat \ {0} /\ Size = 2 * Top /\ Size \in Nat \ {0}
  /\ \A x \in Word : x \in Nat /\ x < Size
  /\ 0 \in Word /\ 1 \in Word
  /\ \A x \in Int : Wrap(x) \in Word
<1>1. Top \in Nat \ {0} /\ Size = 2 * Top
  <2>1. Width - 1 \in BitIndex /\ Width - 1 \in 0 .. Width /\ (Width - 1) + 1 = Width
    BY MachineAssumption DEF BitIndex
  <2>. QED  BY <2>1, Powers DEF Top, Size
<1>2. ASSUME NEW x \in Int
      PROVE  Wrap(x) \in Word
  BY <1>1 DEF Wrap, Word
<1>. QED  BY <1>1, <1>2 DEF Word

\* There is a word with any bits one likes.
LEMMA WordOfBits ==
  ASSUME NEW f \in [Nat -> BOOLEAN]
  PROVE  \E x \in Word : \A i \in BitIndex : (Bit(x, i) = 1) = f[i]
<1>. DEFINE Fits(x, g, k) == \A i \in 0 .. k - 1 : (x \div 2 ^ i) % 2 = 1 <=> g[i]
            Found(k) == \A g \in [Nat -> BOOLEAN] : \E x \in 0 .. 2 ^ k - 1 : Fits(x, g, k)
            p == {k \in 0 .. Width : Found(k)}
<1>1. 0 \in p
  <2>1. 0 \in 0 .. 2 ^ 0 - 1
    OBVIOUS
  <2>2. \A g \in [Nat -> BOOLEAN] : Fits(0, g, 0)
    OBVIOUS
  <2>. HIDE DEF Fits
  <2>3. Found(0)
    BY <2>1, <2>2
  <2>. QED  BY <2>3, MachineAssumption
<1>. HIDE DEF Fits
<1>2. ASSUME NEW k \in 1 .. Width, k - 1 \in p
      PROVE  k \in p
  <2>. DEFINE e == 2 ^ (k - 1)
  <2>1. k - 1 \in BitIndex /\ k - 1 \in Nat /\ (k - 1) + 1 = k
    BY MachineAssumption DEF BitIndex
  <2>2. e \in Nat \ {0} /\ 2 ^ k = 2 * e
    BY <2>1, Powers DEF BitIndex
  <2>. SUFFICES ASSUME NEW g \in [Nat -> BOOLEAN]
                PROVE  \E x \in 0 .. 2 ^ k - 1 : Fits(x, g, k)
    <3>1. k \in 0 .. Width
      BY MachineAssumption
    <3>. QED  BY <3>1, Zenon
  <2>. DEFINE h == [i \in Nat |-> g[i + 1]]
              b == IF g[0] THEN 1 ELSE 0
  <2>3. h \in [Nat -> BOOLEAN] /\ \A i \in Nat : h[i] = g[i + 1]
    OBVIOUS
  <2>. HIDE DEF h
  <2>4. PICK y \in 0 .. e - 1 : Fits(y, h, k - 1)
    BY <1>2, <2>3
  <2>5. b \in 0 .. 1 /\ (b = 1 <=> g[0])
    OBVIOUS
  <2>. HIDE DEF b
  <2>6. y \in Nat /\ b + 2 * y \in 0 .. 2 ^ k - 1
    BY <2>2, <2>4, <2>5
  <2>7. ASSUME NEW i \in 0 .. k - 1
        PROVE  ((b + 2 * y) \div 2 ^ i) % 2 = 1 <=> g[i]
    <3>1. CASE i = 0
      <4>1. 2 ^ i = 1
        BY <3>1
      <4>2. (b + 2 * y) \div 1 = b + 2 * y
        BY <2>5, <2>6
      <4>3. (b + y * 2) % 2 = b
        BY <2>5, <2>6, Division
      <4>. QED  BY <2>5, <2>6, <3>1, <4>1, <4>2, <4>3
    <3>2. CASE i # 0
      <4>. DEFINE j == i - 1
                  d == 2 ^ j
      <4>1. j \in 0 .. (k - 1) - 1 /\ j \in BitIndex /\ j \in 0 .. Width /\ j \in Nat /\ j + 1 = i
        BY <3>2, MachineAssumption DEF BitIndex
      <4>2. d \in Nat \ {0} /\ 2 ^ i = 2 * d
        BY <4>1, Powers
      <4>3. (y \div d) % 2 = 1 <=> h[j]
        BY <2>4, <4>1 DEF Fits
      <4>4. h[j] = g[i]
        BY <2>3, <4>1
      <4>. HIDE DEF d, j
      <4>. DEFINE q == y \div d
                  r == y % d
      <4>5. q \in Nat /\ r \in 0 .. d - 1 /\ y = r + q * d
        BY <2>6, <4>2, SMT
      <4>. HIDE DEF q, r
      <4>6. q * d \in Nat /\ q * (2 * d) = 2 * (q * d)
        BY <4>2, <4>5, SMT
      <4>7. b + 2 * y = (b + 2 * r) + q * (2 * d)
        BY <2>5, <2>6, <4>2, <4>5, <4>6
      <4>8. b + 2 * r \in 0 .. 2 * d - 1 /\ 2 * d \in Nat \ {0}
        BY <2>5, <4>2, <4>5
      <4>9. ((b + 2 * r) + q * (2 * d)) \div (2 * d) = q
        BY <4>5, <4>8, Division
      <4>. QED  BY <4>2, <4>3, <4>4, <4>7, <4>9 DEF q
    <3>. QED  BY <3>1, <3>2
  <2>. QED  BY <2>6, <2>7 DEF Fits
<1>3. p = 0 .. Width
  <2>1. p \in SUBSET (0 .. Width) /\ Width \in Nat
    BY MachineAssumption
  <2>. HIDE DEF p
  <2>. QED  BY <1>1, <1>2, <2>1, IntervalInduction
<1>4. PICK x \in 0 .. 2 ^ Width - 1 : Fits(x, f, Width)
  <2>1. Width \in p
    <3>1. Width \in 0 .. Width
      BY MachineAssumption
    <3>. HIDE DEF p
    <3>. QED  BY <1>3, <3>1, Zenon
  <2>2. Found(Width)
    BY <2>1, Zenon
  <2>. QED  BY <2>2, Zenon
<1>5. ASSUME NEW i \in BitIndex
      PROVE  (Bit(x, i) = 1) = f[i]
  <2>1. ((x \div 2 ^ i) % 2 = 1) <=> f[i]
    BY <1>4 DEF BitIndex, Fits
  <2>2. f[i] \in BOOLEAN
    BY MachineAssumption DEF BitIndex
  <2>. QED  BY <2>1, <2>2, Zenon DEF Bit
<1>. QED  BY <1>5 DEF Word, Size

\* Shifts and halves of words are words.
LEMMA ShiftsAreWords ==
  ASSUME NEW a \in Word, NEW x \in Word
  PROVE  /\ Wrap(a * 2 ^ Shift(x)) \in Word
         /\ a \div 2 ^ Shift(x) \in Word
         /\ Wrap(Signed(a) \div 2 ^ Shift(x)) \in Word
         /\ LowHalf(a) \in Word
<1>. DEFINE d == 2 ^ Shift(x)
            h == 2 ^ (Width \div 2)
            l == a % h
<1>1. a \in Nat /\ x \in Nat /\ Size \in Nat \ {0} /\ a < Size
  BY WordSize DEF Word
<1>2. Shift(x) \in 0 .. Width /\ Width \div 2 \in 0 .. Width
  BY <1>1, MachineAssumption DEF Shift
<1>3. d \in Nat \ {0} /\ h \in Nat \ {0}
  BY <1>2, Powers
<1>. HIDE DEF d, h
<1>4. a * d \in Int /\ a \div d \in 0 .. a /\ l \in 0 .. a
  BY <1>1, <1>3, SMT
<1>5. Signed(a) \in Int
  BY <1>1 DEF Signed
<1>6. Signed(a) \div d \in Int
  BY <1>3, <1>5, SMT
<1>7. Wrap(a * d) \in Word /\ Wrap(Signed(a) \div d) \in Word
  BY <1>4, <1>6, WordSize
<1>8. LowHalf(a) \in Word
  <2>. HIDE DEF l
  <2>1. l \in Word /\ Wrap(l - h) \in Word
    BY <1>1, <1>3, <1>4, WordSize DEF Word
  <2>2. LowHalf(a) = IF 2 * l >= h THEN Wrap(l - h) ELSE l
    BY Zenon DEF LowHalf, l, h
  <2>. QED  BY <2>1, <2>2
<1>. QED  BY <1>1, <1>4, <1>7, <1>8 DEF d, Word

-------------------------------------------------------------------------------
(* What a micro-op does to the machine                                     *)

Codes == {"AddRR", "AddRI", "SubRR", "SubRI", "CmpRR", "CmpRI", "IncR", "DecR",
          "AndRR", "OrRR", "XorRR", "ShlRR", "ShrRR", "SarRR", "RolRI", "RorRI",
          "MovRR", "MovzxRR", "MovsxRR", "MovRI", "MovRM", "MovMR", "MovMI", "Movsxd",
          "Setcc", "Ret", "JmpRel", "JmpAbs", "JccRel", "CallRel", "CallAbs", "Hlt",
          "PushR", "PopR", "Nop", "Cli", "Sti"}

MicroOps == [code : Codes, dst : Operand, src1 : Operand, src2 : Operand, imm : Word]

\* What is read is a word.
LEMMA ReadsWord ==
  ASSUME NEW m \in Machine, NEW r \in Operand
  PROVE  /\ Read(m, r) \in Word
         /\ m.flag \in Flags /\ m.next \in Word \cup {NONE}
         /\ m.reg \in [Registers -> Word] /\ m.mem \in [Word -> Word]
         /\ m.reg["RAX"] \in Word /\ m.reg["RSP"] \in Word
BY WordSize, MachineAssumption DEF Read, Machine, Operand

\* The parts of a machine make it up.
LEMMA MachineParts ==
  ASSUME NEW m \in Machine
  PROVE  m = [reg |-> m.reg, flag |-> m.flag, mem |-> m.mem, next |-> m.next]
BY DEF Machine

\* A write changes the one register, if it is one.
LEMMA WriteParts ==
  ASSUME NEW m \in Machine, NEW r \in Operand, NEW v \in Word
  PROVE  /\ Write(m, r, v) \in Machine
         /\ Write(m, r, v).reg = IF r = RNone THEN m.reg ELSE [m.reg EXCEPT ![r] = v]
         /\ Write(m, r, v).flag = m.flag /\ Write(m, r, v).mem = m.mem
         /\ Write(m, r, v).next = m.next
<1>1. CASE r = RNone
  BY <1>1, Zenon DEF Write
<1>2. CASE r # RNone
  <2>1. Write(m, r, v) = [m EXCEPT !.reg[r] = v] /\ r \in Registers
    BY <1>2 DEF Write, Operand
  <2>. QED  BY <1>2, <2>1, SMT DEF Machine
<1>. QED  BY <1>1, <1>2

\* The other changes a micro-op makes give machines.
LEMMA ChangesParts ==
  ASSUME NEW m \in Machine
  PROVE  /\ \A f \in Flags :
              /\ [m EXCEPT !.flag = f] = [reg |-> m.reg, flag |-> f, mem |-> m.mem, next |-> m.next]
              /\ [m EXCEPT !.flag = f] \in Machine
         /\ \A a, v \in Word :
              /\ [m EXCEPT !.mem[a] = v] =
                   [reg |-> m.reg, flag |-> m.flag, mem |-> [m.mem EXCEPT ![a] = v], next |-> m.next]
              /\ [m EXCEPT !.mem[a] = v] \in Machine
         /\ \A v \in Word \cup {NONE} :
              /\ [m EXCEPT !.next = v] = [reg |-> m.reg, flag |-> m.flag, mem |-> m.mem, next |-> v]
              /\ [m EXCEPT !.next = v] \in Machine
<1>1. \A f \in Flags :
        /\ [m EXCEPT !.flag = f] = [reg |-> m.reg, flag |-> f, mem |-> m.mem, next |-> m.next]
        /\ [m EXCEPT !.flag = f] \in Machine
  BY SMT DEF Machine
<1>2. \A a, v \in Word :
        /\ [m EXCEPT !.mem[a] = v] =
             [reg |-> m.reg, flag |-> m.flag, mem |-> [m.mem EXCEPT ![a] = v], next |-> m.next]
        /\ [m EXCEPT !.mem[a] = v] \in Machine
  BY SMT DEF Machine
<1>3. \A v \in Word \cup {NONE} :
        /\ [m EXCEPT !.next = v] = [reg |-> m.reg, flag |-> m.flag, mem |-> m.mem, next |-> v]
        /\ [m EXCEPT !.next = v] \in Machine
  BY SMT DEF Machine
<1>. QED  BY <1>1, <1>2, <1>3

\* The flags computed are flags.
LEMMA FlagsTyped ==
  /\ NoFlags \in Flags
  /\ \A r, a, b \in Word, sub \in BOOLEAN : ArithFlags(r, a, b, sub) \in Flags
  /\ \A r \in Word : LogicFlags(r) \in Flags
<1>1. NoFlags \in Flags
  BY DEF NoFlags, Flags
<1>2. ASSUME NEW r \in Word, NEW a \in Word, NEW b \in Word, NEW sub \in BOOLEAN
      PROVE  ArithFlags(r, a, b, sub) \in Flags
  <2>1. (r = 0) \in BOOLEAN
    BY Zenon
  <2>2. Neg(r) \in BOOLEAN /\ Neg(a) \in BOOLEAN /\ Neg(b) \in BOOLEAN
    BY SMT DEF Neg
  <2>3. Borrows(a, b) \in BOOLEAN /\ Carries(a, b) \in BOOLEAN
    BY SMT DEF Borrows, Carries
  <2>4. Overflows(r, a, b, sub) \in BOOLEAN
    BY Zenon DEF Overflows
  <2>5. (IF sub THEN Borrows(a, b) ELSE Carries(a, b)) \in BOOLEAN
    BY <2>3, Zenon
  <2>. QED  BY <2>1, <2>2, <2>4, <2>5, Zenon DEF ArithFlags, Flags
<1>3. ASSUME NEW r \in Word
      PROVE  LogicFlags(r) \in Flags
  <2>1. (r = 0) \in BOOLEAN
    BY Zenon
  <2>2. Neg(r) \in BOOLEAN
    BY SMT DEF Neg
  <2>3. ASSUME NEW z \in BOOLEAN, NEW s \in BOOLEAN
        PROVE  [NoFlags EXCEPT !.zf = z, !.sf = s] \in Flags
    <3>1. [NoFlags EXCEPT !.zf = z] \in Flags
      BY <1>1 DEF Flags
    <3>2. [[NoFlags EXCEPT !.zf = z] EXCEPT !.sf = s] \in Flags
      BY <3>1 DEF Flags
    <3>. QED  BY <3>2
  <2>. QED  BY <2>1, <2>2, <2>3, Zenon DEF LogicFlags
<1>. QED  BY <1>1, <1>2, <1>3

\* Each micro-op is executed by the group it belongs to.
LEMMA StepGroups ==
  ASSUME NEW m, NEW u
  PROVE  /\ u.code \in ArithmeticCodes => Step(m, u) = Arithmetic(m, u)
         /\ u.code \in BitCodes => Step(m, u) = BitOps(m, u)
         /\ u.code \in MoveCodes => Step(m, u) = Moves(m, u)
         /\ u.code \in (EndCodes \ {"Hlt"}) \cup {"PushR", "PopR"} => Step(m, u) = Transfers(m, u)
         /\ u.code \notin ArithmeticCodes \cup BitCodes \cup MoveCodes
                           \cup (EndCodes \ {"Hlt"}) \cup {"PushR", "PopR"} => Step(m, u) = m
<1>1. /\ ArithmeticCodes \cap BitCodes = {} /\ ArithmeticCodes \cap MoveCodes = {}
      /\ ArithmeticCodes \cap ((EndCodes \ {"Hlt"}) \cup {"PushR", "PopR"}) = {}
      /\ BitCodes \cap MoveCodes = {}
      /\ BitCodes \cap ((EndCodes \ {"Hlt"}) \cup {"PushR", "PopR"}) = {}
      /\ MoveCodes \cap ((EndCodes \ {"Hlt"}) \cup {"PushR", "PopR"}) = {}
  BY DEF ArithmeticCodes, BitCodes, MoveCodes, EndCodes
<1>. QED  BY <1>1, Zenon DEF Step

\* Additions and subtractions write a word and the flags it has.
LEMMA SumParts ==
  ASSUME NEW m \in Machine, NEW u \in MicroOps, NEW b \in Word
  PROVE  LET a == Read(m, u.src1)
         IN  /\ AddTo(m, u, b) \in Machine /\ SubFrom(m, u, b) \in Machine
             /\ AddTo(m, u, b).flag = ArithFlags(Wrap(a + b), a, b, FALSE)
             /\ SubFrom(m, u, b).flag = ArithFlags(Wrap(a - b), a, b, TRUE)
             /\ AddTo(m, u, b).flag \in Flags /\ SubFrom(m, u, b).flag \in Flags
             /\ CmpFlags(m, u, b) = ArithFlags(Wrap(a - b), a, b, TRUE)
             /\ CmpFlags(m, u, b) \in Flags
<1>. DEFINE a == Read(m, u.src1)
            s == Wrap(a + b)
            d == Wrap(a - b)
            f == ArithFlags(s, a, b, FALSE)
            g == ArithFlags(d, a, b, TRUE)
<1>1. a \in Word /\ u.dst \in Operand
  BY ReadsWord DEF MicroOps
<1>2. s \in Word /\ d \in Word
  <2>. HIDE DEF a
  <2>1. a \in Int /\ b \in Int
    BY <1>1, WordSize
  <2>2. a + b \in Int /\ a - b \in Int
    BY <2>1
  <2>. QED  BY <2>2, WordSize
<1>3. f \in Flags /\ g \in Flags
  BY <1>1, <1>2, FlagsTyped
<1>4. Write(m, u.dst, s) \in Machine /\ Write(m, u.dst, d) \in Machine
  BY <1>1, <1>2, WriteParts
<1>5. AddTo(m, u, b) = [Write(m, u.dst, s) EXCEPT !.flag = f]
  BY Zenon DEF AddTo
<1>6. CmpFlags(m, u, b) = g /\ SubFrom(m, u, b) = [Write(m, u.dst, d) EXCEPT !.flag = g]
  BY Zenon DEF SubFrom, CmpFlags, Minus
<1>. HIDE DEF f, g, s, d, a
<1>7. ASSUME NEW n \in Machine, NEW h \in Flags
      PROVE  [n EXCEPT !.flag = h] \in Machine /\ [n EXCEPT !.flag = h].flag = h
  BY DEF Machine
<1>8. /\ AddTo(m, u, b) \in Machine /\ AddTo(m, u, b).flag = f
      /\ SubFrom(m, u, b) \in Machine /\ SubFrom(m, u, b).flag = g
  BY <1>3, <1>4, <1>5, <1>6, <1>7, Zenon
<1>. QED  BY <1>3, <1>6, <1>8, Zenon DEF f, g, s, d, a

\* INC and DEC put the carry back.
LEMMA CarryKept ==
  ASSUME NEW m \in Machine, NEW n \in Machine
  PROVE  /\ KeepCarry(m, n) \in Machine
         /\ KeepCarry(m, n).flag.cf = m.flag.cf
         /\ KeepCarry(m, n).flag.of = n.flag.of
<1>1. m.flag.cf \in BOOLEAN /\ n.flag \in Flags
  BY DEF Machine, Flags
<1>2. ASSUME NEW c \in BOOLEAN
      PROVE  /\ [n EXCEPT !.flag.cf = c] \in Machine
             /\ [n EXCEPT !.flag.cf = c].flag = [n.flag EXCEPT !.cf = c]
  <2>1. [n.flag EXCEPT !.cf = c] \in Flags
    BY <1>1 DEF Flags
  <2>. QED  BY <2>1 DEF Machine
<1>3. ASSUME NEW c \in BOOLEAN
      PROVE  [n.flag EXCEPT !.cf = c].cf = c /\ [n.flag EXCEPT !.cf = c].of = n.flag.of
  BY <1>1 DEF Flags
<1>. QED  BY <1>1, <1>2, <1>3, Zenon DEF KeepCarry

\* What each arithmetic micro-op does.
LEMMA ArithmeticIs ==
  ASSUME NEW m, NEW u
  PROVE  /\ u.code = "AddRR" => Step(m, u) = AddTo(m, u, Read(m, u.src2))
         /\ u.code = "AddRI" => Step(m, u) = AddTo(m, u, u.imm)
         /\ u.code = "SubRR" => Step(m, u) = SubFrom(m, u, Read(m, u.src2))
         /\ u.code = "SubRI" => Step(m, u) = SubFrom(m, u, u.imm)
         /\ u.code = "CmpRR" => Step(m, u) = [m EXCEPT !.flag = CmpFlags(m, u, Read(m, u.src2))]
         /\ u.code = "CmpRI" => Step(m, u) = [m EXCEPT !.flag = CmpFlags(m, u, u.imm)]
         /\ u.code = "IncR" => Step(m, u) = KeepCarry(m, AddTo(m, u, 1))
         /\ u.code = "DecR" => Step(m, u) = KeepCarry(m, SubFrom(m, u, 1))
<1>1. u.code \in ArithmeticCodes => Step(m, u) = Arithmetic(m, u)
  BY StepGroups
<1>2. ArithmeticCodes = {"AddRR", "AddRI", "SubRR", "SubRI", "CmpRR", "CmpRI", "IncR", "DecR"}
  BY DEF ArithmeticCodes
<1>3. /\ u.code = "AddRR" => Arithmetic(m, u) = AddTo(m, u, Read(m, u.src2))
      /\ u.code = "AddRI" => Arithmetic(m, u) = AddTo(m, u, u.imm)
      /\ u.code = "SubRR" => Arithmetic(m, u) = SubFrom(m, u, Read(m, u.src2))
      /\ u.code = "SubRI" => Arithmetic(m, u) = SubFrom(m, u, u.imm)
  BY Zenon DEF Arithmetic
<1>4. /\ u.code = "CmpRR" => Arithmetic(m, u) = [m EXCEPT !.flag = CmpFlags(m, u, Read(m, u.src2))]
      /\ u.code = "CmpRI" => Arithmetic(m, u) = [m EXCEPT !.flag = CmpFlags(m, u, u.imm)]
      /\ u.code = "IncR" => Arithmetic(m, u) = KeepCarry(m, AddTo(m, u, 1))
      /\ u.code = "DecR" => Arithmetic(m, u) = KeepCarry(m, SubFrom(m, u, 1))
  BY Zenon DEF Arithmetic
<1>. QED  BY <1>1, <1>2, <1>3, <1>4, Zenon

LEMMA ArithmeticTyped ==
  ASSUME NEW m \in Machine, NEW u \in MicroOps, u.code \in ArithmeticCodes
  PROVE  Step(m, u) \in Machine
<1>1. Read(m, u.src2) \in Word /\ u.imm \in Word /\ 1 \in Word
  BY ReadsWord, WordSize DEF MicroOps
<1>2. ASSUME NEW b \in Word
      PROVE  /\ AddTo(m, u, b) \in Machine /\ SubFrom(m, u, b) \in Machine
             /\ [m EXCEPT !.flag = CmpFlags(m, u, b)] \in Machine
             /\ KeepCarry(m, AddTo(m, u, b)) \in Machine
             /\ KeepCarry(m, SubFrom(m, u, b)) \in Machine
  <2>1. AddTo(m, u, b) \in Machine /\ SubFrom(m, u, b) \in Machine /\ CmpFlags(m, u, b) \in Flags
    BY SumParts
  <2>2. [m EXCEPT !.flag = CmpFlags(m, u, b)] \in Machine
    BY <2>1, ChangesParts
  <2>. QED  BY <2>1, <2>2, CarryKept
<1>3. u.code \in {"AddRR", "AddRI", "SubRR", "SubRI", "CmpRR", "CmpRI", "IncR", "DecR"}
  BY DEF ArithmeticCodes
<1>. QED  BY <1>1, <1>2, <1>3, ArithmeticIs, Zenon

\* The words that the bit operations make.
BitAnd(a, b) == Bits(LAMBDA i : Bit(a, i) = 1 /\ Bit(b, i) = 1)
BitOr(a, b) == Bits(LAMBDA i : Bit(a, i) = 1 \/ Bit(b, i) = 1)
BitXor(a, b) == Bits(LAMBDA i : Bit(a, i) # Bit(b, i))
RotateLeft(a, k) == Bits(LAMBDA i : Bit(a, (i + Width - k) % Width) = 1)
RotateRight(a, k) == Bits(LAMBDA i : Bit(a, (i + k) % Width) = 1)

\* The words of bits that the bit operations make.
LEMMA BitwiseWords ==
  ASSUME NEW a, NEW b, NEW k
  PROVE  /\ BitAnd(a, b) \in Word
         /\ BitOr(a, b) \in Word
         /\ BitXor(a, b) \in Word
         /\ RotateLeft(a, k) \in Word
         /\ RotateRight(a, k) \in Word
<1>. DEFINE and == [i \in Nat |-> Bit(a, i) = 1 /\ Bit(b, i) = 1]
            or == [i \in Nat |-> Bit(a, i) = 1 \/ Bit(b, i) = 1]
            xor == [i \in Nat |-> Bit(a, i) # Bit(b, i)]
            rol == [i \in Nat |-> Bit(a, (i + Width - k) % Width) = 1]
            ror == [i \in Nat |-> Bit(a, (i + k) % Width) = 1]
<1>1. BitIndex \subseteq Nat
  BY MachineAssumption DEF BitIndex
<1>2. /\ and \in [Nat -> BOOLEAN] /\ or \in [Nat -> BOOLEAN] /\ xor \in [Nat -> BOOLEAN]
      /\ rol \in [Nat -> BOOLEAN] /\ ror \in [Nat -> BOOLEAN]
  BY Zenon
<1>3. \E x \in Word : \A i \in BitIndex : (Bit(x, i) = 1) = (Bit(a, i) = 1 /\ Bit(b, i) = 1)
  <2>1. PICK x \in Word : \A i \in BitIndex : (Bit(x, i) = 1) = and[i]
    BY <1>2, WordOfBits, Zenon
  <2>2. \A i \in BitIndex : and[i] = (Bit(a, i) = 1 /\ Bit(b, i) = 1)
    BY <1>1, Zenon
  <2>. HIDE DEF and
  <2>. QED  BY <2>1, <2>2, Zenon
<1>4. \E x \in Word : \A i \in BitIndex : (Bit(x, i) = 1) = (Bit(a, i) = 1 \/ Bit(b, i) = 1)
  <2>1. PICK x \in Word : \A i \in BitIndex : (Bit(x, i) = 1) = or[i]
    BY <1>2, WordOfBits, Zenon
  <2>2. \A i \in BitIndex : or[i] = (Bit(a, i) = 1 \/ Bit(b, i) = 1)
    BY <1>1, Zenon
  <2>. HIDE DEF or
  <2>. QED  BY <2>1, <2>2, Zenon
<1>5. \E x \in Word : \A i \in BitIndex : (Bit(x, i) = 1) = (Bit(a, i) # Bit(b, i))
  <2>1. PICK x \in Word : \A i \in BitIndex : (Bit(x, i) = 1) = xor[i]
    BY <1>2, WordOfBits, Zenon
  <2>2. \A i \in BitIndex : xor[i] = (Bit(a, i) # Bit(b, i))
    BY <1>1, Zenon
  <2>. HIDE DEF xor
  <2>. QED  BY <2>1, <2>2, Zenon
<1>6. \E x \in Word : \A i \in BitIndex :
        (Bit(x, i) = 1) = (Bit(a, (i + Width - k) % Width) = 1)
  <2>1. PICK x \in Word : \A i \in BitIndex : (Bit(x, i) = 1) = rol[i]
    BY <1>2, WordOfBits, Zenon
  <2>2. \A i \in BitIndex : rol[i] = (Bit(a, (i + Width - k) % Width) = 1)
    BY <1>1, Zenon
  <2>. HIDE DEF rol
  <2>. QED  BY <2>1, <2>2, Zenon
<1>7. \E x \in Word : \A i \in BitIndex : (Bit(x, i) = 1) = (Bit(a, (i + k) % Width) = 1)
  <2>1. PICK x \in Word : \A i \in BitIndex : (Bit(x, i) = 1) = ror[i]
    BY <1>2, WordOfBits, Zenon
  <2>2. \A i \in BitIndex : ror[i] = (Bit(a, (i + k) % Width) = 1)
    BY <1>1, Zenon
  <2>. HIDE DEF ror
  <2>. QED  BY <2>1, <2>2, Zenon
<1>8. BitAnd(a, b) \in Word
  BY <1>3, Zenon DEF Bits, BitAnd
<1>9. BitOr(a, b) \in Word
  BY <1>4, Zenon DEF Bits, BitOr
<1>10. BitXor(a, b) \in Word
  BY <1>5, Zenon DEF Bits, BitXor
<1>11. RotateLeft(a, k) \in Word
  BY <1>6, Zenon DEF Bits, RotateLeft
<1>12. RotateRight(a, k) \in Word
  BY <1>7, Zenon DEF Bits, RotateRight
<1>. QED  BY <1>8, <1>9, <1>10, <1>11, <1>12, Zenon

\* What each bit operation does, with its operands' words.
LEMMA BitOpsTyped ==
  ASSUME NEW m \in Machine, NEW u \in MicroOps, u.code \in BitCodes
  PROVE  Step(m, u) \in Machine
<1>. DEFINE a == Read(m, u.src1)
            b == Read(m, u.src2)
            n == Shift(b)
            k == Shift(u.imm)
<1>0. Step(m, u) = BitOps(m, u)
  BY StepGroups
<1>1. a \in Word /\ b \in Word /\ u.imm \in Word /\ u.dst \in Operand
  BY ReadsWord DEF MicroOps
<1>2. ASSUME NEW r \in Word
      PROVE  Logic(m, u, r) \in Machine /\ Write(m, u.dst, r) \in Machine
  <2>1. Write(m, u.dst, r) \in Machine /\ LogicFlags(r) \in Flags
    BY <1>1, WriteParts, FlagsTyped
  <2>. QED  BY <2>1, ChangesParts DEF Logic
<1>3. /\ Wrap(a * 2 ^ n) \in Word /\ a \div 2 ^ n \in Word /\ Wrap(Signed(a) \div 2 ^ n) \in Word
  BY <1>1, ShiftsAreWords
<1>4. CASE u.code = "AndRR"
  <2>1. Step(m, u) = Logic(m, u, BitAnd(a, b))
    BY <1>4, <1>0, Zenon DEF BitOps, BitAnd
  <2>. DEFINE r == BitAnd(a, b)
  <2>3. r \in Word
    BY BitwiseWords, Zenon
  <2>. HIDE DEF r
  <2>4. Step(m, u) = Logic(m, u, r)
    BY <2>1, Zenon DEF r
  <2>. QED  BY <1>2, <2>3, <2>4
<1>5. CASE u.code = "OrRR"
  <2>1. Step(m, u) = Logic(m, u, BitOr(a, b))
    BY <1>5, <1>0, Zenon DEF BitOps, BitOr
  <2>. DEFINE r == BitOr(a, b)
  <2>3. r \in Word
    BY BitwiseWords, Zenon
  <2>. HIDE DEF r
  <2>4. Step(m, u) = Logic(m, u, r)
    BY <2>1, Zenon DEF r
  <2>. QED  BY <1>2, <2>3, <2>4
<1>6. CASE u.code = "XorRR"
  <2>1. Step(m, u) = Logic(m, u, BitXor(a, b))
    BY <1>6, <1>0, Zenon DEF BitOps, BitXor
  <2>. DEFINE r == BitXor(a, b)
  <2>3. r \in Word
    BY BitwiseWords, Zenon
  <2>. HIDE DEF r
  <2>4. Step(m, u) = Logic(m, u, r)
    BY <2>1, Zenon DEF r
  <2>. QED  BY <1>2, <2>3, <2>4
<1>7. CASE u.code = "ShlRR"
  <2>1. Step(m, u) = Logic(m, u, Wrap(a * 2 ^ n))
    BY <1>7, <1>0, Zenon DEF BitOps
  <2>. DEFINE r == Wrap(a * 2 ^ n)
  <2>3. r \in Word
    BY <1>3, Zenon
  <2>. HIDE DEF r
  <2>4. Step(m, u) = Logic(m, u, r)
    BY <2>1, Zenon DEF r
  <2>. QED  BY <1>2, <2>3, <2>4
<1>8. CASE u.code = "ShrRR"
  <2>1. Step(m, u) = Logic(m, u, a \div 2 ^ n)
    BY <1>8, <1>0, Zenon DEF BitOps
  <2>. DEFINE r == a \div 2 ^ n
  <2>3. r \in Word
    BY <1>3, Zenon
  <2>. HIDE DEF r
  <2>4. Step(m, u) = Logic(m, u, r)
    BY <2>1, Zenon DEF r
  <2>. QED  BY <1>2, <2>3, <2>4
<1>9. CASE u.code = "SarRR"
  <2>1. Step(m, u) = Logic(m, u, Wrap(Signed(a) \div 2 ^ n))
    BY <1>9, <1>0, Zenon DEF BitOps
  <2>. DEFINE r == Wrap(Signed(a) \div 2 ^ n)
  <2>3. r \in Word
    BY <1>3, Zenon
  <2>. HIDE DEF r
  <2>4. Step(m, u) = Logic(m, u, r)
    BY <2>1, Zenon DEF r
  <2>. QED  BY <1>2, <2>3, <2>4
<1>10. CASE u.code = "RolRI"
  <2>1. Step(m, u) = Write(m, u.dst, RotateLeft(a, k))
    BY <1>10, <1>0, Zenon DEF BitOps, RotateLeft
  <2>. DEFINE r == RotateLeft(a, k)
  <2>3. r \in Word
    BY BitwiseWords, Zenon
  <2>. HIDE DEF r
  <2>4. Step(m, u) = Write(m, u.dst, r)
    BY <2>1, Zenon DEF r
  <2>. QED  BY <1>2, <2>3, <2>4
<1>11. CASE u.code = "RorRI"
  <2>1. Step(m, u) = Write(m, u.dst, RotateRight(a, k))
    BY <1>11, <1>0, Zenon DEF BitOps, RotateRight
  <2>. DEFINE r == RotateRight(a, k)
  <2>3. r \in Word
    BY BitwiseWords, Zenon
  <2>. HIDE DEF r
  <2>4. Step(m, u) = Write(m, u.dst, r)
    BY <2>1, Zenon DEF r
  <2>. QED  BY <1>2, <2>3, <2>4
<1>. QED  BY <1>4, <1>5, <1>6, <1>7, <1>8, <1>9, <1>10, <1>11 DEF BitCodes

\* What each move does; none touches the flags.
LEMMA MovesTyped ==
  ASSUME NEW m \in Machine, NEW u \in MicroOps, u.code \in MoveCodes
  PROVE  Step(m, u) \in Machine /\ Step(m, u).flag = m.flag
<1>0. Step(m, u) = Moves(m, u)
  BY StepGroups
<1>1. /\ Read(m, u.src1) \in Word /\ Read(m, u.dst) \in Word /\ u.imm \in Word
      /\ u.dst \in Operand /\ m.mem \in [Word -> Word]
  BY ReadsWord DEF MicroOps
<1>2. ASSUME NEW v \in Word
      PROVE  Write(m, u.dst, v) \in Machine /\ Write(m, u.dst, v).flag = m.flag
  BY <1>1, WriteParts
<1>3. ASSUME NEW x \in Word, NEW v \in Word
      PROVE  [m EXCEPT !.mem[x] = v] \in Machine /\ [m EXCEPT !.mem[x] = v].flag = m.flag
  BY DEF Machine
<1>4. /\ Wrap(Read(m, u.src1) + u.imm) \in Word /\ Wrap(Read(m, u.dst) + u.imm) \in Word
      /\ Wrap(NoneCode) \in Word
  <2>. DEFINE a == Read(m, u.src1)
              b == Read(m, u.dst)
              c == u.imm
  <2>. HIDE DEF a, b, c
  <2>1. a \in Int /\ b \in Int /\ c \in Int /\ NoneCode \in Int
    BY <1>1, WordSize, MachineAssumption DEF a, b, c
  <2>2. a + c \in Int /\ b + c \in Int
    BY <2>1
  <2>3. Wrap(a + c) \in Word /\ Wrap(b + c) \in Word /\ Wrap(NoneCode) \in Word
    BY <2>1, <2>2, WordSize
  <2>. QED  BY <2>3 DEF a, b, c
<1>5. m.mem[Wrap(Read(m, u.src1) + u.imm)] \in Word
  BY <1>1, <1>4
<1>6. LowHalf(Read(m, u.src1)) \in Word
  BY <1>1, ShiftsAreWords
<1>8. CASE u.code \in {"MovRR", "MovzxRR", "MovsxRR"}
  <2>1. Step(m, u) = Write(m, u.dst, Read(m, u.src1))
    BY <1>8, <1>0, Zenon DEF Moves
  <2>. DEFINE r == Read(m, u.src1)
  <2>3. r \in Word
    BY <1>1, Zenon
  <2>. HIDE DEF r
  <2>4. Step(m, u) = Write(m, u.dst, r)
    BY <2>1, Zenon DEF r
  <2>. QED  BY <1>2, <2>3, <2>4
<1>9. CASE u.code = "MovRI"
  <2>1. Step(m, u) = Write(m, u.dst, u.imm)
    BY <1>9, <1>0, Zenon DEF Moves
  <2>. DEFINE r == u.imm
  <2>3. r \in Word
    BY <1>1, Zenon
  <2>. HIDE DEF r
  <2>4. Step(m, u) = Write(m, u.dst, r)
    BY <2>1, Zenon DEF r
  <2>. QED  BY <1>2, <2>3, <2>4
<1>10. CASE u.code = "MovRM"
  <2>1. Step(m, u) = Write(m, u.dst, m.mem[Wrap(Read(m, u.src1) + u.imm)])
    BY <1>10, <1>0, Zenon DEF Moves
  <2>. DEFINE r == m.mem[Wrap(Read(m, u.src1) + u.imm)]
  <2>3. r \in Word
    BY <1>5, Zenon
  <2>. HIDE DEF r
  <2>4. Step(m, u) = Write(m, u.dst, r)
    BY <2>1, Zenon DEF r
  <2>. QED  BY <1>2, <2>3, <2>4
<1>11. CASE u.code = "MovMR"
  <2>1. Step(m, u) = [m EXCEPT !.mem[Wrap(Read(m, u.dst) + u.imm)] = Read(m, u.src1)]
    BY <1>11, <1>0, Zenon DEF Moves
  <2>. DEFINE x == Wrap(Read(m, u.dst) + u.imm)
              v == Read(m, u.src1)
  <2>3. x \in Word /\ v \in Word
    BY <1>1, <1>4, Zenon
  <2>. HIDE DEF x, v
  <2>4. Step(m, u) = [m EXCEPT !.mem[x] = v]
    BY <2>1, Zenon DEF x, v
  <2>. QED  BY <1>3, <2>3, <2>4
<1>12. CASE u.code = "MovMI"
  <2>1. Step(m, u) = [m EXCEPT !.mem[Wrap(Read(m, u.dst) + u.imm)] = Wrap(NoneCode)]
    BY <1>12, <1>0, Zenon DEF Moves
  <2>. DEFINE x == Wrap(Read(m, u.dst) + u.imm)
              v == Wrap(NoneCode)
  <2>3. x \in Word /\ v \in Word
    BY <1>4, Zenon
  <2>. HIDE DEF x, v
  <2>4. Step(m, u) = [m EXCEPT !.mem[x] = v]
    BY <2>1, Zenon DEF x, v
  <2>. QED  BY <1>3, <2>3, <2>4
<1>13. CASE u.code = "Movsxd"
  <2>1. Step(m, u) = Write(m, u.dst, LowHalf(Read(m, u.src1)))
    BY <1>13, <1>0, Zenon DEF Moves
  <2>. DEFINE r == LowHalf(Read(m, u.src1))
  <2>3. r \in Word
    BY <1>6, Zenon
  <2>. HIDE DEF r
  <2>4. Step(m, u) = Write(m, u.dst, r)
    BY <2>1, Zenon DEF r
  <2>. QED  BY <1>2, <2>3, <2>4
<1>14. CASE u.code = "Setcc"
  <2>1. Step(m, u) = Write(m, u.dst, IF m.flag = NoFlags THEN 0 ELSE 1)
    BY <1>14, <1>0, Zenon DEF Moves
  <2>2. (IF m.flag = NoFlags THEN 0 ELSE 1) \in Word
    BY WordSize
  <2>. DEFINE r == IF m.flag = NoFlags THEN 0 ELSE 1
  <2>3. r \in Word
    BY <2>2, Zenon
  <2>. HIDE DEF r
  <2>4. Step(m, u) = Write(m, u.dst, r)
    BY <2>1, Zenon DEF r
  <2>. QED  BY <1>2, <2>3, <2>4
<1>. QED  BY <1>8, <1>9, <1>10, <1>11, <1>12, <1>13, <1>14 DEF MoveCodes

\* RSP above the slot and below it are words.
LEMMA SlotsAreWords ==
  ASSUME NEW x \in Word, NEW y \in Word
  PROVE  Wrap(x + SlotBytes) \in Word /\ Wrap(x - SlotBytes) \in Word /\ Wrap(x + y) \in Word
<1>1. x \in Int /\ y \in Int /\ SlotBytes \in Int
  BY WordSize, MachineAssumption
<1>2. x + SlotBytes \in Int /\ x - SlotBytes \in Int /\ x + y \in Int
  BY <1>1
<1>. QED  BY <1>2, WordSize

\* The stack moves RSP and one word of memory.
LEMMA StackParts ==
  ASSUME NEW m \in Machine
  PROVE  /\ Below(m) \in Word /\ Tip(m) \in Word
         /\ Raised(m) \in Machine /\ Raised(m).flag = m.flag /\ Raised(m).mem = m.mem
         /\ Raised(m).reg = [m.reg EXCEPT !["RSP"] = Wrap(m.reg["RSP"] + SlotBytes)]
         /\ \A v \in Word :
              /\ Pushed(m, v) \in Machine /\ Pushed(m, v).flag = m.flag
              /\ Pushed(m, v).reg = [m.reg EXCEPT !["RSP"] = Below(m)]
              /\ Pushed(m, v).mem = [m.mem EXCEPT ![Below(m)] = v]
         /\ \A r \in Operand : Popped(m, r) \in Machine /\ Popped(m, r).flag = m.flag
<1>. DEFINE up == Wrap(m.reg["RSP"] + SlotBytes)
            low == Below(m)
<1>0. "RSP" \in Registers
  BY MachineAssumption
<1>1. m.reg["RSP"] \in Word /\ m.mem \in [Word -> Word]
  BY <1>0, ReadsWord DEF Operand
<1>2. up \in Word /\ low \in Word /\ Tip(m) \in Word
  BY <1>1, SlotsAreWords DEF Below, Tip
<1>. HIDE DEF up, low
<1>4. ASSUME NEW x \in Word
      PROVE  /\ [m EXCEPT !.reg["RSP"] = x] \in Machine
             /\ [m EXCEPT !.reg["RSP"] = x].reg = [m.reg EXCEPT !["RSP"] = x]
             /\ [m EXCEPT !.reg["RSP"] = x].flag = m.flag
             /\ [m EXCEPT !.reg["RSP"] = x].mem = m.mem
  BY <1>0, <1>1, SMT DEF Machine
<1>6. Raised(m) = [m EXCEPT !.reg["RSP"] = up]
  BY Zenon DEF Raised, up
<1>8. Raised(m) \in Machine /\ Raised(m).flag = m.flag
  BY <1>2, <1>4, <1>6, Zenon
<1>9. \A r \in Operand : Popped(m, r) \in Machine /\ Popped(m, r).flag = m.flag
  BY <1>2, <1>8, WriteParts, Zenon DEF Popped
<1>10. Raised(m).mem = m.mem /\ Raised(m).reg = [m.reg EXCEPT !["RSP"] = up]
  BY <1>2, <1>4, <1>6
<1>11. ASSUME NEW v \in Word
       PROVE  /\ Pushed(m, v) \in Machine /\ Pushed(m, v).flag = m.flag
              /\ Pushed(m, v).reg = [m.reg EXCEPT !["RSP"] = low]
              /\ Pushed(m, v).mem = [m.mem EXCEPT ![low] = v]
  <2>. DEFINE k == [m EXCEPT !.reg["RSP"] = low]
              w == [k EXCEPT !.mem[low] = v]
  <2>1. /\ k \in Machine /\ k.reg = [m.reg EXCEPT !["RSP"] = low]
        /\ k.flag = m.flag /\ k.mem = m.mem
    BY <1>2, <1>4
  <2>2. Pushed(m, v) = w
    BY Zenon DEF Pushed, low
  <2>. HIDE DEF k
  <2>3. w \in Machine /\ w.flag = k.flag /\ w.reg = k.reg /\ w.mem = [k.mem EXCEPT ![low] = v]
    BY <1>2, <2>1, SMT DEF Machine
  <2>. HIDE DEF w
  <2>. QED  BY <2>1, <2>2, <2>3
<1>. QED  BY <1>2, <1>8, <1>9, <1>10, <1>11, Zenon DEF low, up

\* What each transfer does; none touches the flags.
LEMMA TransfersTyped ==
  ASSUME NEW m \in Machine, NEW u \in MicroOps,
         u.code \in (EndCodes \ {"Hlt"}) \cup {"PushR", "PopR"}
  PROVE  Step(m, u) \in Machine /\ Step(m, u).flag = m.flag
<1>. DEFINE ax == m.reg["RAX"]
            p == Pushed(m, ax)
            ahead == Ahead(m, u.imm)
<1>0. Step(m, u) = Transfers(m, u)
  BY StepGroups
<1>1. /\ Read(m, u.src1) \in Word /\ u.imm \in Word /\ u.dst \in Operand /\ u.src1 \in Operand
      /\ ax \in Word
  BY ReadsWord DEF MicroOps
<1>2. ahead \in Word
  BY <1>1, SlotsAreWords DEF Ahead
<1>3. /\ Tip(m) \in Word /\ Raised(m) \in Machine /\ Raised(m).flag = m.flag
      /\ p \in Machine /\ p.flag = m.flag
  BY <1>1, StackParts, Zenon
<1>4. ASSUME NEW k \in Machine, NEW x \in Word, k.flag = m.flag
      PROVE  [k EXCEPT !.next = x] \in Machine /\ [k EXCEPT !.next = x].flag = m.flag
  BY <1>4, SMT DEF Machine
<1>. HIDE DEF p, ahead
<1>5. ASSUME NEW v \in Word
      PROVE  Pushed(m, v) \in Machine /\ Pushed(m, v).flag = m.flag
  BY StackParts
<1>6. ASSUME NEW r \in Operand
      PROVE  Popped(m, r) \in Machine /\ Popped(m, r).flag = m.flag
  BY StackParts
<1>7. CASE u.code = "PushR"
  <2>1. Step(m, u) = Pushed(m, Read(m, u.src1))
    BY <1>0, <1>7, Zenon DEF Transfers
  <2>. QED  BY <1>1, <1>5, <1>6, <2>1, Zenon
<1>8. CASE u.code = "PopR"
  <2>1. Step(m, u) = Popped(m, u.dst)
    BY <1>0, <1>8, Zenon DEF Transfers
  <2>. QED  BY <1>1, <1>5, <1>6, <2>1, Zenon
<1>9. CASE u.code = "JmpRel"
  <2>1. Step(m, u) = [m EXCEPT !.next = ahead]
    BY <1>0, <1>9, Zenon DEF Transfers, ahead
  <2>. QED  BY <1>2, <1>4, <2>1, Zenon
<1>10. CASE u.code = "JmpAbs"
  <2>1. Step(m, u) = [m EXCEPT !.next = Read(m, u.src1)]
    BY <1>0, <1>10, Zenon DEF Transfers
  <2>. QED  BY <1>1, <1>4, <2>1, Zenon
<1>11. CASE u.code = "JccRel"
  <2>1. Step(m, u) = [m EXCEPT !.next = ahead] \/ Step(m, u) = m
    BY <1>0, <1>11, Zenon DEF Transfers, ahead
  <2>. QED  BY <1>2, <1>4, <2>1, Zenon
<1>12. CASE u.code = "CallRel"
  <2>1. Step(m, u) = [p EXCEPT !.next = ahead]
    BY <1>0, <1>12, Zenon DEF Transfers, p, ahead
  <2>. QED  BY <1>2, <1>3, <1>4, <2>1, Zenon
<1>13. CASE u.code = "CallAbs"
  <2>1. Step(m, u) = [p EXCEPT !.next = Read(p, u.src1)]
    BY <1>0, <1>13, Zenon DEF Transfers, p
  <2>3. Read(p, u.src1) \in Word
    BY <1>1, <1>3, ReadsWord, Zenon
  <2>. QED  BY <1>3, <1>4, <2>1, <2>3, Zenon
<1>14. CASE u.code = "Ret"
  <2>. DEFINE k == Raised(m)
              x == Tip(m)
  <2>1. Step(m, u) = [k EXCEPT !.next = x]
    BY <1>0, <1>14, Zenon DEF Transfers
  <2>2. k \in Machine /\ k.flag = m.flag /\ x \in Word
    BY <1>3
  <2>. HIDE DEF k, x
  <2>. QED  BY <1>4, <2>1, <2>2
<1>. QED  BY <1>7, <1>8, <1>9, <1>10, <1>11, <1>12, <1>13, <1>14 DEF EndCodes

\* A micro-op makes a machine of a machine, and only arithmetic and bit
\* operations change the flags.
LEMMA StepTyped ==
  ASSUME NEW m \in Machine, NEW u \in MicroOps
  PROVE  /\ Step(m, u) \in Machine
         /\ u.code \notin ArithmeticCodes \cup BitCodes => Step(m, u).flag = m.flag
<1>1. CASE u.code \in ArithmeticCodes
  BY <1>1, ArithmeticTyped
<1>2. CASE u.code \in BitCodes
  BY <1>2, BitOpsTyped
<1>3. CASE u.code \in MoveCodes
  BY <1>3, MovesTyped
<1>4. CASE u.code \in (EndCodes \ {"Hlt"}) \cup {"PushR", "PopR"}
  BY <1>4, TransfersTyped
<1>5. CASE u.code \notin ArithmeticCodes \cup BitCodes \cup MoveCodes
                           \cup (EndCodes \ {"Hlt"}) \cup {"PushR", "PopR"}
  BY <1>5, StepGroups, Zenon
<1>. QED  BY <1>1, <1>2, <1>3, <1>4, <1>5, Zenon

-------------------------------------------------------------------------------
(* Recursion along an interval                                             *)

\* f starts at base and goes on with one step after the other.
Iterates(f, n, S, base, step) ==
  f \in [0 .. n -> S] /\ f[0] = base /\ \A k \in 1 .. n : f[k] = step[k][f[k - 1]]

\* There is such a function.
LEMMA IntervalRecursion ==
  ASSUME NEW n \in Nat, NEW S, NEW base \in S, NEW step \in [1 .. n -> [S -> S]]
  PROVE  \E f : Iterates(f, n, S, base, step)
<1>. DEFINE Upto(k) == \E f \in [0 .. k -> S] :
                         f[0] = base /\ \A i \in 1 .. k : f[i] = step[i][f[i - 1]]
            p == {k \in 0 .. n : Upto(k)}
<1>1. Upto(0)
  <2>. DEFINE g == [i \in 0 .. 0 |-> base]
  <2>1. g \in [0 .. 0 -> S] /\ g[0] = base
    OBVIOUS
  <2>2. \A i \in 1 .. 0 : g[i] = step[i][g[i - 1]]
    OBVIOUS
  <2>. HIDE DEF g
  <2>. QED  BY <2>1, <2>2
<1>2. ASSUME NEW k \in 1 .. n, Upto(k - 1)
      PROVE  Upto(k)
  <2>1. PICK f \in [0 .. k - 1 -> S] :
          f[0] = base /\ \A i \in 1 .. k - 1 : f[i] = step[i][f[i - 1]]
    BY <1>2
  <2>. DEFINE e == step[k][f[k - 1]]
              g == [i \in 0 .. k |-> IF i < k THEN f[i] ELSE e]
  <2>2. e \in S
    OBVIOUS
  <2>. HIDE DEF e
  <2>3. g \in [0 .. k -> S]
    BY <2>2
  <2>4. g[0] = base
    BY <2>1
  <2>5. ASSUME NEW i \in 1 .. k
        PROVE  g[i] = step[i][g[i - 1]]
    <3>1. CASE i < k
      BY <2>1, <3>1
    <3>2. CASE i = k
      <4>1. g[k] = e /\ g[k - 1] = f[k - 1]
        BY <3>2
      <4>. QED  BY <3>2, <4>1 DEF e
    <3>. QED  BY <3>1, <3>2
  <2>. HIDE DEF g
  <2>. QED  BY <2>3, <2>4, <2>5
<1>. HIDE DEF Upto
<1>3. p = 0 .. n
  <2>1. 0 \in p
    BY <1>1
  <2>2. \A k \in 1 .. n : k - 1 \in p => k \in p
    BY <1>2
  <2>3. p \in SUBSET (0 .. n)
    OBVIOUS
  <2>. HIDE DEF p
  <2>. QED  BY <2>1, <2>2, <2>3, IntervalInduction
<1>4. Upto(n)
  BY <1>3
<1>. QED  BY <1>4 DEF Upto, Iterates

-------------------------------------------------------------------------------
(* The run of a block                                                      *)

\* One more micro-op of the block s on machine m: the one that stands at i, if
\* it is reached.
Advance(s, i, m) == IF i \in Reached(s) THEN Step(m, s[i]) ELSE m

Begun(m) == [m EXCEPT !.next = NONE]

Runs(f, s, m, n) ==
  f = [i \in 0 .. n |-> IF i = 0 THEN Begun(m) ELSE Advance(s, i, f[i - 1])]

\* A block has a run from every machine, through machines.
LEMMA RunExists ==
  ASSUME NEW s \in Seq(MicroOps), NEW m \in Machine, NEW n \in 0 .. Len(s)
  PROVE  \E f \in [0 .. n -> Machine] : Runs(f, s, m, n)
<1>. DEFINE step == [i \in 1 .. n |-> [k \in Machine |-> Advance(s, i, k)]]
<1>1. Begun(m) \in Machine /\ n \in Nat
  <2>1. Begun(m) \in Machine
    BY SMT DEF Begun, Machine
  <2>. QED  BY <2>1
<1>2. ASSUME NEW i \in 1 .. n, NEW k \in Machine
      PROVE  Advance(s, i, k) \in Machine
  <2>1. s[i] \in MicroOps
    OBVIOUS
  <2>. QED  BY <2>1, StepTyped DEF Advance
<1>3. step \in [1 .. n -> [Machine -> Machine]]
  BY <1>2
<1>4. \A i \in 1 .. n : \A k \in Machine : step[i][k] = Advance(s, i, k)
  OBVIOUS
<1>. HIDE DEF step
<1>5. PICK f : Iterates(f, n, Machine, Begun(m), step)
  BY <1>1, <1>3, IntervalRecursion
<1>6. f \in [0 .. n -> Machine] /\ f[0] = Begun(m)
  BY <1>5 DEF Iterates
<1>7. ASSUME NEW i \in 1 .. n
      PROVE  f[i] = Advance(s, i, f[i - 1])
  <2>1. f[i] = step[i][f[i - 1]]
    BY <1>5 DEF Iterates
  <2>2. f[i - 1] \in Machine
    BY <1>1, <1>6
  <2>. QED  BY <1>4, <2>1, <2>2
<1>8. ASSUME NEW i \in 0 .. n
      PROVE  f[i] = IF i = 0 THEN Begun(m) ELSE Advance(s, i, f[i - 1])
  <2>1. i # 0 => i \in 1 .. n
    BY <1>1
  <2>. QED  BY <1>6, <1>7, <2>1
<1>. QED  BY <1>6, <1>8 DEF Runs

Agree(f, g, k) == \A i \in 0 .. k : f[i] = g[i]

\* Two runs agree as far as both go.
LEMMA RunsAgree ==
  ASSUME NEW s, NEW m, NEW n \in Nat, NEW g, Runs(g, s, m, n)
  PROVE  \A k \in 0 .. n : \A f : Runs(f, s, m, k) => Agree(f, g, k)
<1>. SUFFICES ASSUME NEW k \in 0 .. n, NEW f, Runs(f, s, m, k)
              PROVE  Agree(f, g, k)
  OBVIOUS
<1>. DEFINE p == {i \in 0 .. k : f[i] = g[i]}
<1>1. f[0] = Begun(m) /\ g[0] = Begun(m)
  BY DEF Runs
<1>2. ASSUME NEW i \in 1 .. k, i - 1 \in p
      PROVE  i \in p
  <2>1. i \in 0 .. k /\ i \in 0 .. n /\ i # 0
    OBVIOUS
  <2>2. f[i] = Advance(s, i, f[i - 1])
    BY <2>1, Zenon DEF Runs
  <2>3. g[i] = Advance(s, i, g[i - 1])
    BY <2>1, Zenon DEF Runs
  <2>. QED  BY <1>2, <2>1, <2>2, <2>3
<1>3. 0 \in p /\ p \in SUBSET (0 .. k) /\ k \in Nat
  BY <1>1
<1>. HIDE DEF p
<1>4. p = 0 .. k
  BY <1>2, <1>3, IntervalInduction
<1>. QED  BY <1>4 DEF p, Agree

\* After is the run: it begins at the machine given and advances.
LEMMA AfterIs ==
  ASSUME NEW s \in Seq(MicroOps), NEW m \in Machine
  PROVE  /\ After(s, m, 0) = Begun(m)
         /\ \A k \in 1 .. Len(s) : After(s, m, k) = Advance(s, k, After(s, m, k - 1))
         /\ \A k \in 0 .. Len(s) : After(s, m, k) \in Machine
<1>1. Len(s) \in Nat
  OBVIOUS
<1>2. PICK g \in [0 .. Len(s) -> Machine] : Runs(g, s, m, Len(s))
  BY <1>1, RunExists
<1>3. ASSUME NEW k \in 0 .. Len(s)
      PROVE  After(s, m, k) = g[k]
  <2>1. \E f : Runs(f, s, m, k)
    BY RunExists
  <2>. DEFINE r == CHOOSE f : Runs(f, s, m, k)
  <2>2. Runs(r, s, m, k)
    BY <2>1
  <2>3. After(s, m, k) = r[k]
    BY Zenon DEF After, Runs, Advance, Begun
  <2>. HIDE DEF r
  <2>. DEFINE n == Len(s)
  <2>4. n \in Nat /\ k \in 0 .. n /\ k \in 0 .. k
    BY <1>1
  <2>5. Runs(g, s, m, n)
    BY <1>2
  <2>. HIDE DEF n
  <2>6. \A j \in 0 .. n : \A f : Runs(f, s, m, j) => Agree(f, g, j)
    BY <2>4, <2>5, RunsAgree, Zenon
  <2>7. r[k] = g[k]
    BY <2>2, <2>4, <2>6, Zenon DEF Agree
  <2>. QED  BY <2>3, <2>4, <2>7
<1>4. g[0] = Begun(m)
  BY <1>1, <1>2 DEF Runs
<1>5. ASSUME NEW k \in 1 .. Len(s)
      PROVE  g[k] = Advance(s, k, g[k - 1])
  <2>1. k \in 0 .. Len(s) /\ k # 0
    BY <1>1
  <2>. QED  BY <1>2, <2>1, Zenon DEF Runs
<1>6. \A k \in 1 .. Len(s) : k - 1 \in 0 .. Len(s) /\ k \in 0 .. Len(s)
  BY <1>1
<1>. QED  BY <1>1, <1>2, <1>3, <1>4, <1>5, <1>6

-------------------------------------------------------------------------------
(* The flags                                                               *)

\* Wrapping takes one word length off a sum, or adds one to a difference.
LEMMA WrapIs ==
  ASSUME NEW a \in Word, NEW b \in Word
  PROVE  /\ Wrap(a + b) = IF a + b < Size THEN a + b ELSE a + b - Size
         /\ Wrap(a - b) = IF b <= a THEN a - b ELSE a - b + Size
<1>1. a \in 0 .. Size - 1 /\ b \in 0 .. Size - 1 /\ Size \in Nat \ {0}
  BY WordSize DEF Word
<1>2. ASSUME NEW r \in 0 .. Size - 1
      PROVE  Wrap(r) = r /\ Wrap(r + Size) = r /\ Wrap(r - Size) = r
  <2>1. (r + 0 * Size) % Size = r /\ (r + 1 * Size) % Size = r
    BY <1>1, Division
  <2>2. r - Size \in Int /\ (r - Size) % Size = r
    BY <1>1, SMT
  <2>. QED  BY <1>1, <2>1, <2>2 DEF Wrap
<1>3. a + b < Size => Wrap(a + b) = a + b
  BY <1>1, <1>2
<1>4. a + b >= Size => Wrap(a + b) = a + b - Size
  <2>. HAVE a + b >= Size
  <2>. DEFINE r == a + b - Size
  <2>1. r \in 0 .. Size - 1 /\ a + b = r + Size
    BY <1>1
  <2>. HIDE DEF r
  <2>2. Wrap(a + b) = r
    BY <1>2, <2>1
  <2>. QED  BY <2>2 DEF r
<1>5. b <= a => Wrap(a - b) = a - b
  BY <1>1, <1>2
<1>6. a < b => Wrap(a - b) = a - b + Size
  <2>. HAVE a < b
  <2>. DEFINE r == a - b + Size
  <2>1. r \in 0 .. Size - 1 /\ a - b = r - Size
    BY <1>1
  <2>. HIDE DEF r
  <2>2. Wrap(a - b) = r
    BY <1>2, <2>1
  <2>. QED  BY <2>2 DEF r
<1>. QED  BY <1>1, <1>3, <1>4, <1>5, <1>6

\* The flags of a difference tell how the two words are ordered, as unsigned and
\* as signed numbers, and whether the signed difference is out of range.
LEMMA DifferenceFlags ==
  ASSUME NEW a \in Word, NEW b \in Word
  PROVE  LET f == ArithFlags(Wrap(a - b), a, b, TRUE)
         IN  /\ f.cf <=> a < b
             /\ f.zf <=> a = b
             /\ f.of <=> Signed(a) - Signed(b) \notin -Top .. Top - 1
             /\ (f.sf <=> f.of) <=> Signed(a) >= Signed(b)
<1>. DEFINE r == Wrap(a - b)
            f == ArithFlags(r, a, b, TRUE)
<1>1. a \in 0 .. Size - 1 /\ b \in 0 .. Size - 1 /\ Top \in Nat \ {0} /\ Size = 2 * Top
  BY WordSize DEF Word
<1>2. r = IF b <= a THEN a - b ELSE a - b + Size
  BY WrapIs
<1>. HIDE DEF r
<1>3. f.cf = Borrows(a, b) /\ f.zf = (r = 0) /\ f.sf = Neg(r) /\ f.of = Overflows(r, a, b, TRUE)
  BY Zenon DEF ArithFlags
<1>. HIDE DEF f
<1>4. /\ Borrows(a, b) <=> a < b
      /\ r = 0 <=> a = b
  BY <1>1, <1>2 DEF Borrows
<1>5. Overflows(r, a, b, TRUE) <=> Signed(a) - Signed(b) \notin -Top .. Top - 1
  BY <1>1, <1>2 DEF Overflows, Neg, Signed
<1>6. (Neg(r) <=> Overflows(r, a, b, TRUE)) <=> Signed(a) >= Signed(b)
  BY <1>1, <1>2 DEF Overflows, Neg, Signed
<1>. QED  BY <1>3, <1>4, <1>5, <1>6, Zenon DEF f, r

\* The flags of a sum tell whether it is a word and whether the signed sum is
\* out of range.
LEMMA SumFlags ==
  ASSUME NEW a \in Word, NEW b \in Word
  PROVE  LET f == ArithFlags(Wrap(a + b), a, b, FALSE)
         IN  /\ f.cf <=> a + b \notin Word
             /\ f.of <=> Signed(a) + Signed(b) \notin -Top .. Top - 1
<1>. DEFINE r == Wrap(a + b)
            f == ArithFlags(r, a, b, FALSE)
<1>1. a \in 0 .. Size - 1 /\ b \in 0 .. Size - 1 /\ Top \in Nat \ {0} /\ Size = 2 * Top
  BY WordSize DEF Word
<1>2. r = IF a + b < Size THEN a + b ELSE a + b - Size
  BY WrapIs
<1>. HIDE DEF r
<1>3. f.cf = Carries(a, b) /\ f.of = Overflows(r, a, b, FALSE)
  BY Zenon DEF ArithFlags
<1>. HIDE DEF f
<1>4. Carries(a, b) <=> a + b \notin Word
  BY <1>1 DEF Carries, Word
<1>5. Overflows(r, a, b, FALSE) <=> Signed(a) + Signed(b) \notin -Top .. Top - 1
  BY <1>1, <1>2 DEF Overflows, Neg, Signed
<1>. QED  BY <1>3, <1>4, <1>5, Zenon DEF f, r

\* Truth values that follow from each other are equal.
LEMMA SameTruth ==
  ASSUME NEW x \in BOOLEAN, NEW y \in BOOLEAN, x <=> y
  PROVE  x = y
OBVIOUS

\* The flags of a difference as truth values.
LEMMA OrderRead ==
  ASSUME NEW a \in Word, NEW b \in Word
  PROVE  LET f == ArithFlags(Wrap(a - b), a, b, TRUE)
         IN  /\ f.cf = (a < b) /\ f.zf = (a = b)
             /\ (f.sf # f.of) = (Signed(a) < Signed(b))
<1>. DEFINE f == ArithFlags(Wrap(a - b), a, b, TRUE)
<1>1. /\ f.cf <=> a < b
      /\ f.zf <=> a = b
      /\ (f.sf <=> f.of) <=> Signed(a) >= Signed(b)
  BY DifferenceFlags, Zenon
<1>2. Wrap(a - b) \in Word
  <2>1. a - b \in Int
    BY WordSize
  <2>. QED  BY <2>1, WordSize
<1>3. f \in Flags
  BY <1>2, FlagsTyped
<1>4. f.cf \in BOOLEAN /\ f.zf \in BOOLEAN /\ f.sf \in BOOLEAN /\ f.of \in BOOLEAN
  BY <1>3 DEF Flags
<1>. HIDE DEF f
<1>5. Signed(a) \in Int /\ Signed(b) \in Int
  BY WordSize DEF Signed
<1>6. Signed(a) < Signed(b) <=> ~(Signed(a) >= Signed(b))
  BY <1>5
<1>7. /\ (a < b) \in BOOLEAN /\ (a = b) \in BOOLEAN
      /\ (Signed(a) < Signed(b)) \in BOOLEAN /\ (f.sf # f.of) \in BOOLEAN
  OBVIOUS
<1>8. (f.sf # f.of) <=> Signed(a) < Signed(b)
  BY <1>1, <1>4, <1>6, Zenon
<1>. QED  BY <1>1, <1>4, <1>7, <1>8, SameTruth DEF f

\* Micro-ops that are neither arithmetic nor bit operations leave the flags.
LEMMA FlagsStay ==
  ASSUME NEW s \in Seq(MicroOps), NEW m \in Machine, NEW i \in 1 .. Len(s),
         \A j \in i + 1 .. Len(s) : s[j].code \notin ArithmeticCodes \cup BitCodes
  PROVE  After(s, m, Len(s)).flag = After(s, m, i).flag
<1>. DEFINE n == Len(s) - i
            p == {k \in 0 .. n : After(s, m, i + k).flag = After(s, m, i).flag}
<1>1. n \in Nat /\ i + n = Len(s) /\ i + 0 = i
  OBVIOUS
<1>2. 0 \in p
  BY <1>1
<1>3. ASSUME NEW k \in 1 .. n, k - 1 \in p
      PROVE  k \in p
  <2>. DEFINE j == i + k
  <2>1. /\ j \in i + 1 .. Len(s) /\ j \in 1 .. Len(s) /\ j - 1 \in 0 .. Len(s)
        /\ j - 1 = i + (k - 1) /\ k \in 0 .. n
    OBVIOUS
  <2>. HIDE DEF j
  <2>2. After(s, m, j - 1) \in Machine /\ After(s, m, j) = Advance(s, j, After(s, m, j - 1))
    BY <2>1, AfterIs
  <2>3. s[j] \in MicroOps
    BY <2>1
  <2>4. Advance(s, j, After(s, m, j - 1)).flag = After(s, m, j - 1).flag
    BY <2>1, <2>2, <2>3, StepTyped DEF Advance
  <2>. QED  BY <1>3, <2>1, <2>2, <2>4 DEF j
<1>4. p \in SUBSET (0 .. n)
  OBVIOUS
<1>. HIDE DEF p
<1>5. p = 0 .. n
  BY <1>1, <1>2, <1>3, <1>4, IntervalInduction
<1>6. n \in p
  BY <1>1, <1>5
<1>. QED  BY <1>1, <1>6 DEF p

\* Nor do they, or increments and decrements, change the carry.
LEMMA CarryStays ==
  ASSUME NEW s \in Seq(MicroOps), NEW m \in Machine, NEW i \in 1 .. Len(s),
         \A j \in i + 1 .. Len(s) : s[j].code \in Silent \cup {"IncR", "DecR"}
  PROVE  After(s, m, Len(s)).flag.cf = After(s, m, i).flag.cf
<1>. DEFINE n == Len(s) - i
            p == {k \in 0 .. n : After(s, m, i + k).flag.cf = After(s, m, i).flag.cf}
<1>1. n \in Nat /\ i + n = Len(s) /\ i + 0 = i
  OBVIOUS
<1>2. 0 \in p
  BY <1>1
<1>3. ASSUME NEW k \in 1 .. n, k - 1 \in p
      PROVE  k \in p
  <2>. DEFINE j == i + k
              x == After(s, m, j - 1)
              u == s[j]
  <2>1. /\ j \in i + 1 .. Len(s) /\ j \in 1 .. Len(s) /\ j - 1 \in 0 .. Len(s)
        /\ j - 1 = i + (k - 1) /\ k \in 0 .. n
    OBVIOUS
  <2>. HIDE DEF j
  <2>2. x \in Machine /\ After(s, m, j) = Advance(s, j, x)
    BY <2>1, AfterIs
  <2>3. u \in MicroOps /\ u.code \in Silent \cup {"IncR", "DecR"}
    BY <2>1
  <2>. HIDE DEF x, u
  <2>4. Step(x, u).flag.cf = x.flag.cf
    <3>1. CASE u.code = "IncR"
      <4>1. AddTo(x, u, 1) \in Machine
        BY <2>2, <2>3, SumParts, WordSize
      <4>. QED  BY <2>2, <3>1, <4>1, ArithmeticIs, CarryKept
    <3>2. CASE u.code = "DecR"
      <4>1. SubFrom(x, u, 1) \in Machine
        BY <2>2, <2>3, SumParts, WordSize
      <4>. QED  BY <2>2, <3>2, <4>1, ArithmeticIs, CarryKept
    <3>3. CASE u.code \in Silent
      <4>1. Silent \cap (ArithmeticCodes \cup BitCodes) = {}
        BY DEF Silent, MoveCodes, EndCodes, ArithmeticCodes, BitCodes
      <4>2. Step(x, u).flag = x.flag
        BY <2>2, <2>3, <3>3, <4>1, StepTyped
      <4>. QED  BY <4>2
    <3>. QED  BY <2>3, <3>1, <3>2, <3>3
  <2>5. Advance(s, j, x).flag.cf = x.flag.cf
    BY <2>4 DEF Advance, u
  <2>. QED  BY <1>3, <2>1, <2>2, <2>5 DEF j, x
<1>4. p \in SUBSET (0 .. n)
  OBVIOUS
<1>. HIDE DEF p
<1>5. p = 0 .. n
  BY <1>1, <1>2, <1>3, <1>4, IntervalInduction
<1>6. n \in p
  BY <1>1, <1>5
<1>. QED  BY <1>1, <1>6 DEF p

\* The second operand of an arithmetic micro-op.
Second(m, u) ==
  CASE u.code \in {"AddRI", "SubRI", "CmpRI"} -> u.imm
    [] u.code \in {"IncR", "DecR"} -> 1
    [] OTHER -> Read(m, u.src2)

\* What is added or subtracted, and the flags that gives.
LEMMA ArithmeticFlags ==
  ASSUME NEW m \in Machine, NEW u \in MicroOps
  PROVE  LET a == Read(m, u.src1)
             b == Second(m, u)
             f == Step(m, u).flag
         IN  /\ a \in Word /\ b \in Word
             /\ u.code \in {"CmpRR", "CmpRI", "SubRR", "SubRI"} =>
                  f = ArithFlags(Wrap(a - b), a, b, TRUE)
             /\ u.code \in {"AddRR", "AddRI"} => f = ArithFlags(Wrap(a + b), a, b, FALSE)
             /\ u.code = "IncR" => f.of = ArithFlags(Wrap(a + b), a, b, FALSE).of
             /\ u.code = "DecR" => f.of = ArithFlags(Wrap(a - b), a, b, TRUE).of
<1>. DEFINE a == Read(m, u.src1)
            b == Second(m, u)
<1>1. a \in Word /\ Read(m, u.src2) \in Word /\ u.imm \in Word /\ 1 \in Word
  BY ReadsWord, WordSize DEF MicroOps
<1>2. b \in Word
  BY <1>1, Zenon DEF Second
<1>3. /\ u.code \in {"AddRR", "SubRR", "CmpRR"} => b = Read(m, u.src2)
      /\ u.code \in {"AddRI", "SubRI", "CmpRI"} => b = u.imm
      /\ u.code \in {"IncR", "DecR"} => b = 1
  BY Zenon DEF Second
<1>. HIDE DEF b
<1>4. /\ AddTo(m, u, b) \in Machine /\ SubFrom(m, u, b) \in Machine
      /\ AddTo(m, u, b).flag = ArithFlags(Wrap(a + b), a, b, FALSE)
      /\ SubFrom(m, u, b).flag = ArithFlags(Wrap(a - b), a, b, TRUE)
      /\ CmpFlags(m, u, b) = ArithFlags(Wrap(a - b), a, b, TRUE)
      /\ CmpFlags(m, u, b) \in Flags
  BY <1>2, SumParts, Zenon
<1>5. [m EXCEPT !.flag = CmpFlags(m, u, b)].flag = CmpFlags(m, u, b)
  BY DEF Machine
<1>6. u.code \in {"CmpRR", "CmpRI"} => Step(m, u) = [m EXCEPT !.flag = CmpFlags(m, u, b)]
  BY <1>3, ArithmeticIs
<1>7. u.code \in {"SubRR", "SubRI"} => Step(m, u) = SubFrom(m, u, b)
  BY <1>3, ArithmeticIs
<1>8. u.code \in {"AddRR", "AddRI"} => Step(m, u) = AddTo(m, u, b)
  BY <1>3, ArithmeticIs
<1>9. /\ u.code = "IncR" => Step(m, u).flag.of = AddTo(m, u, b).flag.of
      /\ u.code = "DecR" => Step(m, u).flag.of = SubFrom(m, u, b).flag.of
  <2>1. /\ KeepCarry(m, AddTo(m, u, b)).flag.of = AddTo(m, u, b).flag.of
        /\ KeepCarry(m, SubFrom(m, u, b)).flag.of = SubFrom(m, u, b).flag.of
    BY <1>4, CarryKept
  <2>2. /\ u.code = "IncR" => Step(m, u) = KeepCarry(m, AddTo(m, u, b))
        /\ u.code = "DecR" => Step(m, u) = KeepCarry(m, SubFrom(m, u, b))
    BY <1>3, ArithmeticIs
  <2>. QED  BY <2>1, <2>2
<1>. QED  BY <1>1, <1>2, <1>4, <1>5, <1>6, <1>7, <1>8, <1>9, Zenon DEF b

\* The block ran on the machine it was given.
Ran == ops \in Seq(MicroOps) /\ start \in Machine /\ final = Execute(ops, start)

\* What the last arithmetic of a block does, before the moves that follow it.
LEMMA LastArithmetic ==
  ASSUME Ran, NEW i \in DOMAIN ops, i \in Reached(ops)
  PROVE  /\ i \in 1 .. Len(ops) /\ ops[i] \in MicroOps /\ Prior(i) \in Machine
         /\ Right(i) = Second(Prior(i), ops[i])
         /\ After(ops, start, i) = Step(Prior(i), ops[i])
         /\ (\A j \in i + 1 .. Len(ops) : ops[j].code \in Silent) =>
              final.flag = Step(Prior(i), ops[i]).flag
         /\ (\A j \in i + 1 .. Len(ops) : ops[j].code \in Silent \cup {"IncR", "DecR"}) =>
              final.flag.cf = Step(Prior(i), ops[i]).flag.cf
<1>1. ops \in Seq(MicroOps) /\ start \in Machine /\ final = After(ops, start, Len(ops))
  BY DEF Ran, Execute
<1>2. i \in 1 .. Len(ops) /\ ops[i] \in MicroOps /\ i - 1 \in 0 .. Len(ops)
  BY <1>1
<1>3. Prior(i) \in Machine /\ After(ops, start, i) = Step(Prior(i), ops[i])
  BY <1>1, <1>2, AfterIs DEF Prior, Advance
<1>4. Right(i) = Second(Prior(i), ops[i])
  BY Zenon DEF Right, Second
<1>5. Silent \cap (ArithmeticCodes \cup BitCodes) = {}
  BY DEF Silent, MoveCodes, EndCodes, ArithmeticCodes, BitCodes
<1>6. (\A j \in i + 1 .. Len(ops) : ops[j].code \in Silent) =>
        After(ops, start, Len(ops)).flag = After(ops, start, i).flag
  BY <1>1, <1>2, <1>5, FlagsStay
<1>7. (\A j \in i + 1 .. Len(ops) : ops[j].code \in Silent \cup {"IncR", "DecR"}) =>
        After(ops, start, Len(ops)).flag.cf = After(ops, start, i).flag.cf
  BY <1>1, <1>2, CarryStays
<1>. QED  BY <1>1, <1>2, <1>3, <1>4, <1>6, <1>7, Zenon

\* A block that ran has exact flags.
LEMMA RanFlags ==
  ASSUME Ran
  PROVE  FlagsExact
<1>. DEFINE cmps == {"CmpRR", "CmpRI", "SubRR", "SubRI"}
            subs == {"SubRR", "SubRI", "CmpRR", "CmpRI", "DecR"}
            adds == {"AddRR", "AddRI", "IncR"}
            range == -Top .. Top - 1
<1>0. final.flag \in Flags
  <2>1. final \in Machine
    BY AfterIs DEF Ran, Execute
  <2>. QED  BY <2>1 DEF Machine
<1>1. final.flag.cf \in BOOLEAN /\ final.flag.of \in BOOLEAN
  BY <1>0 DEF Flags
<1>2. ASSUME NEW i \in DOMAIN ops, LastOf(i, cmps, Silent)
      PROVE  /\ final.flag.cf = (Left(i) < Right(i))
             /\ final.flag.zf = (Left(i) = Right(i))
             /\ (final.flag.sf # final.flag.of) = (Signed(Left(i)) < Signed(Right(i)))
  <2>1. i \in Reached(ops) /\ ops[i].code \in cmps /\ \A j \in i + 1 .. Len(ops) : ops[j].code \in Silent
    BY <1>2 DEF LastOf
  <2>2. /\ final.flag = ArithFlags(Wrap(Left(i) - Right(i)), Left(i), Right(i), TRUE)
        /\ Left(i) \in Word /\ Right(i) \in Word
    <3>. DEFINE m == Prior(i)
                u == ops[i]
    <3>1. /\ m \in Machine /\ u \in MicroOps /\ u.code \in cmps
          /\ Right(i) = Second(m, u) /\ final.flag = Step(m, u).flag
      BY <2>1, LastArithmetic, Zenon
    <3>2. Left(i) = Read(m, u.src1)
      BY Zenon DEF Left
    <3>. HIDE DEF m, u
    <3>. QED  BY <3>1, <3>2, ArithmeticFlags, Zenon
  <2>. DEFINE l == Left(i)
              r == Right(i)
  <2>3. LET f == ArithFlags(Wrap(l - r), l, r, TRUE)
        IN  /\ f.cf = (l < r) /\ f.zf = (l = r)
            /\ (f.sf # f.of) = (Signed(l) < Signed(r))
    <3>1. l \in Word /\ r \in Word
      BY <2>2
    <3>. HIDE DEF l, r
    <3>. QED  BY <3>1, OrderRead
  <2>4. final.flag = ArithFlags(Wrap(l - r), l, r, TRUE)
    BY <2>2, Zenon
  <2>. HIDE DEF l, r
  <2>5. /\ final.flag.cf = (l < r) /\ final.flag.zf = (l = r)
        /\ (final.flag.sf # final.flag.of) = (Signed(l) < Signed(r))
    BY <2>3, <2>4, Zenon
  <2>. QED  BY <2>5, Zenon DEF l, r
<1>3. ASSUME NEW i \in DOMAIN ops, LastOf(i, {"AddRR", "AddRI"}, Silent \cup {"IncR", "DecR"})
      PROVE  final.flag.cf = (Left(i) + Right(i) \notin Word)
  <2>. DEFINE a == Left(i)
              b == Right(i)
              f == ArithFlags(Wrap(a + b), a, b, FALSE)
  <2>2. /\ i \in Reached(ops) /\ ops[i].code \in {"AddRR", "AddRI"}
        /\ \A j \in i + 1 .. Len(ops) : ops[j].code \in Silent \cup {"IncR", "DecR"}
    BY <1>3 DEF LastOf
  <2>3. a \in Word /\ b \in Word /\ final.flag.cf = f.cf
    BY <2>2, LastArithmetic, ArithmeticFlags, ZenonT(60) DEF Left
  <2>4. f.cf <=> a + b \notin Word
    BY <2>3, SumFlags, Zenon
  <2>5. (a + b \notin Word) \in BOOLEAN
    BY Zenon
  <2>. HIDE DEF a, b, f
  <2>. QED  BY <1>1, <2>3, <2>4, <2>5, SameTruth DEF a, b
<1>4. ASSUME NEW i \in DOMAIN ops, LastOf(i, adds, Silent)
      PROVE  final.flag.of = (Signed(Left(i)) + Signed(Right(i)) \notin range)
  <2>. DEFINE a == Left(i)
              b == Right(i)
              f == ArithFlags(Wrap(a + b), a, b, FALSE)
  <2>2. /\ i \in Reached(ops) /\ ops[i].code \in adds
        /\ \A j \in i + 1 .. Len(ops) : ops[j].code \in Silent
    BY <1>4 DEF LastOf
  <2>3. a \in Word /\ b \in Word /\ final.flag.of = f.of
    BY <2>2, LastArithmetic, ArithmeticFlags, ZenonT(60) DEF Left
  <2>4. f.of <=> Signed(a) + Signed(b) \notin range
    BY <2>3, SumFlags, Zenon
  <2>5. (Signed(a) + Signed(b) \notin range) \in BOOLEAN
    BY Zenon
  <2>. HIDE DEF a, b, f, range
  <2>. QED  BY <1>1, <2>3, <2>4, <2>5, SameTruth DEF a, b
<1>5. ASSUME NEW i \in DOMAIN ops, LastOf(i, subs, Silent)
      PROVE  final.flag.of = (Signed(Left(i)) - Signed(Right(i)) \notin range)
  <2>. DEFINE a == Left(i)
              b == Right(i)
              f == ArithFlags(Wrap(a - b), a, b, TRUE)
  <2>2. /\ i \in Reached(ops) /\ ops[i].code \in subs
        /\ \A j \in i + 1 .. Len(ops) : ops[j].code \in Silent
    BY <1>5 DEF LastOf
  <2>3. a \in Word /\ b \in Word /\ final.flag.of = f.of
    BY <2>2, LastArithmetic, ArithmeticFlags, ZenonT(60) DEF Left
  <2>4. f.of <=> Signed(a) - Signed(b) \notin range
    BY <2>3, DifferenceFlags, Zenon
  <2>5. (Signed(a) - Signed(b) \notin range) \in BOOLEAN
    BY Zenon
  <2>. HIDE DEF a, b, f, range
  <2>. QED  BY <1>1, <2>3, <2>4, <2>5, SameTruth DEF a, b
<1>. HIDE DEF range
<1>6. OrderExact
  BY <1>2, Zenon DEF OrderExact
<1>7. CarrySurvives
  BY <1>3, Zenon DEF CarrySurvives
<1>8. OverflowExact
  BY <1>4, <1>5, Zenon DEF OverflowExact, range
<1>. QED  BY <1>6, <1>7, <1>8 DEF FlagsExact

\* RSP is where it was once a push is popped.
LEMMA BackUp ==
  ASSUME NEW x \in Word
  PROVE  Wrap(Wrap(x - SlotBytes) + SlotBytes) = x
<1>1. x \in Int /\ SlotBytes \in Nat /\ Size \in Nat \ {0} /\ 0 <= x /\ x < Size
  BY WordSize, MachineAssumption
<1>. HIDE DEF Size
<1>. DEFINE y == x - SlotBytes
            q == y \div Size
            r == y % Size
<1>2. y \in Int /\ x = y + SlotBytes
  BY <1>1
<1>. HIDE DEF y
<1>3. q \in Int /\ r \in 0 .. Size - 1 /\ y = Size * q + r
  BY <1>1, <1>2, SMT
<1>. HIDE DEF q, r
<1>4. Size * q \in Int /\ r + SlotBytes = x + Size * (-q)
  BY <1>1, <1>2, <1>3, SMT
<1>5. (x + Size * (-q)) % Size = x
  BY <1>1, <1>3, SMT
<1>. QED  BY <1>4, <1>5 DEF Wrap, y, r

\* A push and the pop after it are a move.
LEMMA RanPushPop ==
  ASSUME Ran
  PROVE  PushPopIsMove
<1>. SUFFICES ASSUME NEW i \in 1 .. Len(ops) - 1, i + 1 \in Reached(ops),
                     ops[i].code = "PushR", ops[i + 1].code = "PopR"
              PROVE  After(ops, start, i + 1).reg = Write(Prior(i), ops[i + 1].dst, Read(Prior(i), ops[i].src1)).reg
  BY Zenon DEF PushPopIsMove
<1>. DEFINE m == Prior(i)
            v == Read(m, ops[i].src1)
            r == ops[i + 1].dst
            p == Pushed(m, v)
            sp == m.reg["RSP"]
            end == After(ops, start, i + 1)
<1>0. "RSP" \in Registers
  BY MachineAssumption
<1>1. ops \in Seq(MicroOps) /\ start \in Machine
  BY DEF Ran
<1>2. /\ i \in 1 .. Len(ops) /\ i + 1 \in 1 .. Len(ops) /\ i - 1 \in 0 .. Len(ops) /\ i + 1 - 1 = i
      /\ ops[i] \in MicroOps /\ ops[i + 1] \in MicroOps
  BY <1>1
<1>4. i \in Reached(ops)
  <2>1. \A j \in 1 .. i - 1 : j \in 1 .. (i + 1) - 1
    OBVIOUS
  <2>. QED  BY <1>2, <2>1 DEF Reached
<1>5. m \in Machine /\ After(ops, start, i) = Step(m, ops[i])
  BY <1>1, <1>2, <1>4, AfterIs DEF Advance, Prior
<1>6. end = Step(After(ops, start, i), ops[i + 1])
  BY <1>1, <1>2, AfterIs DEF Advance
<1>7. \A k : Step(k, ops[i]) = Pushed(k, Read(k, ops[i].src1))
  <2>1. \A k : Step(k, ops[i]) = Transfers(k, ops[i])
    BY StepGroups DEF EndCodes
  <2>. QED  BY <2>1, Zenon DEF Transfers
<1>8. \A k : Step(k, ops[i + 1]) = Popped(k, r)
  <2>1. \A k : Step(k, ops[i + 1]) = Transfers(k, ops[i + 1])
    BY StepGroups DEF EndCodes
  <2>. QED  BY <2>1, Zenon DEF Transfers
<1>9. end = Popped(p, r)
  BY <1>5, <1>6, <1>7, <1>8, Zenon
<1>10. v \in Word /\ r \in Operand /\ sp \in Word /\ m.reg \in [Registers -> Word] /\ m.mem \in [Word -> Word]
  BY <1>2, <1>5, ReadsWord DEF MicroOps
<1>. HIDE DEF m, v, r, end
<1>11. /\ p \in Machine /\ Below(m) \in Word /\ p.reg = [m.reg EXCEPT !["RSP"] = Below(m)]
       /\ p.mem = [m.mem EXCEPT ![Below(m)] = v]
  BY <1>5, <1>10, StackParts
<1>. HIDE DEF p
<1>12. Tip(p) = v
  BY <1>0, <1>10, <1>11 DEF Tip
<1>13. Wrap(p.reg["RSP"] + SlotBytes) = sp
  <2>1. p.reg["RSP"] = Wrap(sp - SlotBytes)
    BY <1>0, <1>10, <1>11 DEF Below
  <2>. HIDE DEF sp
  <2>. QED  BY <1>10, <2>1, BackUp
<1>14. Raised(p) \in Machine /\ Raised(p).reg = [p.reg EXCEPT !["RSP"] = sp]
  BY <1>11, <1>13, StackParts
<1>15. Raised(p).reg = m.reg
  BY <1>0, <1>10, <1>11, <1>14
<1>16. end = Write(Raised(p), r, v)
  BY <1>9, <1>12 DEF Popped
<1>17. /\ Write(Raised(p), r, v).reg = IF r = RNone THEN Raised(p).reg ELSE [Raised(p).reg EXCEPT ![r] = v]
       /\ Write(m, r, v).reg = IF r = RNone THEN m.reg ELSE [m.reg EXCEPT ![r] = v]
  BY <1>5, <1>10, <1>14, WriteParts
<1>. QED  BY <1>15, <1>16, <1>17, Zenon DEF m, v, r, end

-------------------------------------------------------------------------------
(* Translation                                                             *)

\* The tables name micro-ops.
LEMMA Tables ==
  /\ \A x \in DOMAIN RR : RR[x] \in Codes /\ RI[x] \in Codes
  /\ \A x \in DOMAIN Widening : Widening[x] \in Codes
  /\ \A x \in DOMAIN Rotate : Rotate[x] \in Codes
  /\ \A x \in DOMAIN Direct : Direct[x] \in Codes
  /\ \A x \in DOMAIN Indirect : Indirect[x] \in Codes
  /\ \A x \in DOMAIN Plain : Plain[x] \in Codes
<1>1. \A x \in DOMAIN RR : RR[x] \in Codes /\ RI[x] \in Codes
  <2>1. DOMAIN RR = {"Add", "Sub", "Cmp", "And", "Or", "Xor", "Shl", "Shr", "Sar"}
    BY Zenon DEF RR
  <2>2. /\ RR["Add"] \in Codes /\ RR["Sub"] \in Codes /\ RR["Cmp"] \in Codes
        /\ RR["And"] \in Codes /\ RR["Or"] \in Codes /\ RR["Xor"] \in Codes
        /\ RR["Shl"] \in Codes /\ RR["Shr"] \in Codes /\ RR["Sar"] \in Codes
    BY SMT DEF RR, Codes
  <2>3. /\ RI["Add"] \in Codes /\ RI["Sub"] \in Codes /\ RI["Cmp"] \in Codes
        /\ RI["And"] \in Codes /\ RI["Or"] \in Codes /\ RI["Xor"] \in Codes
        /\ RI["Shl"] \in Codes /\ RI["Shr"] \in Codes /\ RI["Sar"] \in Codes
    BY SMT DEF RR, RI, Codes
  <2>. QED  BY <2>1, <2>2, <2>3, Zenon
<1>2. \A x \in DOMAIN Widening : Widening[x] \in Codes
  <2>1. DOMAIN Widening = {"Movzx", "Movsx", "Movsxd"}
    BY Zenon DEF Widening
  <2>2. /\ Widening["Movzx"] \in Codes /\ Widening["Movsx"] \in Codes /\ Widening["Movsxd"] \in Codes
    BY SMT DEF Widening, Codes
  <2>. QED  BY <2>1, <2>2, Zenon
<1>3. \A x \in DOMAIN Rotate : Rotate[x] \in Codes
  <2>1. DOMAIN Rotate = {"Rol", "Ror"}
    BY Zenon DEF Rotate
  <2>2. /\ Rotate["Rol"] \in Codes /\ Rotate["Ror"] \in Codes
    BY SMT DEF Rotate, Codes
  <2>. QED  BY <2>1, <2>2, Zenon
<1>4. \A x \in DOMAIN Direct : Direct[x] \in Codes
  <2>1. DOMAIN Direct = {"Jmp", "Call"}
    BY Zenon DEF Direct
  <2>2. /\ Direct["Jmp"] \in Codes /\ Direct["Call"] \in Codes
    BY SMT DEF Direct, Codes
  <2>. QED  BY <2>1, <2>2, Zenon
<1>5. \A x \in DOMAIN Indirect : Indirect[x] \in Codes
  <2>1. DOMAIN Indirect = {"Jmp", "Call"}
    BY Zenon DEF Indirect
  <2>2. /\ Indirect["Jmp"] \in Codes /\ Indirect["Call"] \in Codes
    BY SMT DEF Indirect, Codes
  <2>. QED  BY <2>1, <2>2, Zenon
<1>6. \A x \in DOMAIN Plain : Plain[x] \in Codes
  <2>1. DOMAIN Plain = {"Hlt", "Cli", "Sti", "Ret", "Retf"}
    BY Zenon DEF Plain
  <2>2. /\ Plain["Hlt"] \in Codes /\ Plain["Cli"] \in Codes /\ Plain["Sti"] \in Codes
        /\ Plain["Ret"] \in Codes /\ Plain["Retf"] \in Codes
    BY SMT DEF Plain, Codes
  <2>. QED  BY <2>1, <2>2, Zenon
<1>. QED  BY <1>1, <1>2, <1>3, <1>4, <1>5, <1>6

\* What an instruction can be translated to: at most one micro-op.
Pieces == {<<>>} \cup {<<u>> : u \in MicroOps}

LEMMA Translated ==
  ASSUME NEW i \in Instruction
  PROVE  Translate(i) \in Pieces
<1>1. i.dst \in Operand /\ i.src \in Operand /\ i.imm \in Word /\ i.m \in STRING
      /\ RNone \in Operand /\ 0 \in Word
  BY WordSize DEF Instruction, Operand
<1>0. {"MovRR", "MovRI", "MovRM", "MovMR", "MovMI", "PushR", "PopR", "IncR", "DecR", "JccRel",
       "Setcc", "Nop"} \subseteq Codes
  BY DEF Codes
<1>2. ASSUME NEW c \in Codes, NEW d \in Operand, NEW s \in Operand, NEW t \in Operand, NEW x \in Word
      PROVE  <<MicroOp(c, d, s, t, x)>> \in Pieces
  BY DEF MicroOp, MicroOps, Pieces
<1>3. <<>> \in Pieces
  BY DEF Pieces
<1>4. TranslateMov(i) \in Pieces
  <2>1. /\ <<MicroOp("MovRR", i.dst, i.src, RNone, 0)>> \in Pieces
        /\ <<MicroOp("MovRI", i.dst, RNone, RNone, i.imm)>> \in Pieces
        /\ <<MicroOp("MovRM", i.dst, i.src, RNone, i.imm)>> \in Pieces
        /\ <<MicroOp("MovMR", i.dst, i.src, RNone, i.imm)>> \in Pieces
        /\ <<MicroOp("MovMI", i.dst, RNone, RNone, i.imm)>> \in Pieces
    BY <1>0, <1>1, <1>2, Zenon
  <2>. QED  BY <1>3, <2>1, Zenon DEF TranslateMov
<1>5. ASSUME NEW rr \in Codes, NEW ri \in Codes
      PROVE  TranslateBinary(i, rr, ri) \in Pieces
  <2>1. /\ <<MicroOp(rr, i.dst, i.dst, i.src, 0)>> \in Pieces
        /\ <<MicroOp(ri, i.dst, i.dst, RNone, i.imm)>> \in Pieces
    BY <1>1, <1>2
  <2>. QED  BY <1>3, <2>1, Zenon DEF TranslateBinary
<1>6. i.m \in DOMAIN RR => TranslateBinary(i, RR[i.m], RI[i.m]) \in Pieces
  BY <1>5, Tables, Zenon
<1>7. i.m \in DOMAIN Widening => <<MicroOp(Widening[i.m], i.dst, i.src, RNone, 0)>> \in Pieces
  BY <1>1, <1>2, Tables, Zenon
<1>8. i.m \in DOMAIN Rotate => <<MicroOp(Rotate[i.m], i.dst, i.dst, RNone, i.imm)>> \in Pieces
  BY <1>1, <1>2, Tables, Zenon
<1>9. i.m \in DOMAIN Indirect => <<MicroOp(Indirect[i.m], RNone, i.src, RNone, 0)>> \in Pieces
  BY <1>1, <1>2, Tables, Zenon
<1>10. i.m \in DOMAIN Direct => <<MicroOp(Direct[i.m], RNone, RNone, RNone, i.imm)>> \in Pieces
  BY <1>1, <1>2, Tables, Zenon
<1>11. i.m \in DOMAIN Plain => <<MicroOp(Plain[i.m], RNone, RNone, RNone, 0)>> \in Pieces
  BY <1>1, <1>2, Tables, Zenon
<1>12. /\ <<MicroOp("PushR", RNone, i.src, RNone, 0)>> \in Pieces
       /\ <<MicroOp("PopR", i.dst, RNone, RNone, 0)>> \in Pieces
       /\ <<MicroOp("IncR", i.dst, i.dst, RNone, 0)>> \in Pieces
       /\ <<MicroOp("DecR", i.dst, i.dst, RNone, 0)>> \in Pieces
       /\ <<MicroOp("JccRel", RNone, RNone, RNone, i.imm)>> \in Pieces
       /\ <<MicroOp("Setcc", i.dst, RNone, RNone, i.imm)>> \in Pieces
       /\ <<MicroOp("Nop", RNone, RNone, RNone, 0)>> \in Pieces
  BY <1>0, <1>1, <1>2, Zenon
<1>. QED
  BY <1>4, <1>6, <1>7, <1>8, <1>9, <1>10, <1>11, <1>12, Zenon DEF Translate

\* Pushing what an instruction gives keeps the block within its limit, and leaves
\* something out only when the block is full.
LEMMA PushedWithin ==
  ASSUME NEW us, us \in Pieces, ops \in Seq(MicroOps), Len(ops) <= MaxOps
  PROVE  /\ PushAll(us) \in Seq(MicroOps) /\ Len(us) \in 0 .. 1
         /\ Len(PushAll(us)) = IF MaxOps < Len(ops) + Len(us) THEN MaxOps ELSE Len(ops) + Len(us)
<1>. DEFINE n == IF Room < Len(us) THEN Room ELSE Len(us)
<1>1. us \in Seq(MicroOps) /\ Len(us) \in 0 .. 1
  <2>1. CASE us = <<>>
    BY <2>1
  <2>2. CASE \E u \in MicroOps : us = <<u>>
    BY <2>2
  <2>. QED  BY <2>1, <2>2 DEF Pieces
<1>2. Len(ops) \in Nat /\ MaxOps \in Nat /\ Room \in Nat /\ Room = MaxOps - Len(ops)
  BY PipelineAssumption DEF Room
<1>3. n \in 0 .. Len(us)
  BY <1>1, <1>2
<1>. HIDE DEF n
<1>4. SubSeq(us, 1, n) \in Seq(MicroOps) /\ Len(SubSeq(us, 1, n)) = n
  BY <1>1, <1>3
<1>5. PushAll(us) = ops \o SubSeq(us, 1, n)
  BY Zenon DEF PushAll, n
<1>6. PushAll(us) \in Seq(MicroOps) /\ Len(PushAll(us)) = Len(ops) + n
  BY <1>4, <1>5, ConcatProperties
<1>. QED  BY <1>1, <1>2, <1>6 DEF n

-------------------------------------------------------------------------------
(* The passes of the optimiser                                             *)

\* A set of numbers up to a bound has a greatest one.
LEMMA Greatest ==
  ASSUME NEW n \in Nat, NEW t \in SUBSET (1 .. n), t # {}
  PROVE  /\ Max(t) \in t /\ \A y \in t : Max(t) >= y
         /\ n \in t => Max(t) = n
<1>. DEFINE gaps == {d \in 0 .. n : n - d \in t}
            m == Max(t)
<1>1. gaps \in SUBSET Nat
  OBVIOUS
<1>2. \A y \in t : y \in Int /\ y <= n /\ n - y \in gaps
  OBVIOUS
<1>3. PICK d \in gaps : \A l \in gaps : d <= l
  <2>1. gaps # {}
    BY <1>2
  <2>. HIDE DEF gaps
  <2>. QED  BY <1>1, <2>1, Least
<1>4. n - d \in t /\ \A y \in t : n - d >= y
  <2>1. n - d \in t /\ d \in Int
    OBVIOUS
  <2>2. ASSUME NEW y \in t
        PROVE  n - d >= y
    <3>1. n - y \in gaps /\ y \in Int
      BY <1>2
    <3>2. d <= n - y
      BY <1>3, <3>1
    <3>. QED  BY <2>1, <3>1, <3>2
  <2>. QED  BY <2>1, <2>2
<1>5. m \in t /\ \A y \in t : m >= y
  BY <1>4, Zenon DEF Max
<1>6. n \in t => m = n
  <2>. HIDE DEF m
  <2>. QED  BY <1>2, <1>5
<1>. QED  BY <1>5, <1>6

\* One unfolding of the fold of a pass over the positions in a set.
FoldStep(pass, s, n, f) ==
  [t \in SUBSET (1 .. n) |-> IF t = {} THEN <<>> ELSE Keep(pass, f[t \ {Max(t)}], s[Max(t)])]

\* There is a fold.
LEMMA FoldExists ==
  ASSUME NEW pass, NEW s, NEW n \in Nat
  PROVE  \E f : f = FoldStep(pass, s, n, f)
<1>. DEFINE p == {k \in 0 .. n : \E f : f = FoldStep(pass, s, k, f)}
<1>1. 0 \in p
  <2>. DEFINE f == [t \in SUBSET (1 .. 0) |-> <<>>]
  <2>1. \A t \in SUBSET (1 .. 0) : t = {}
    OBVIOUS
  <2>2. f = FoldStep(pass, s, 0, f)
    BY <2>1, Zenon DEF FoldStep
  <2>. HIDE DEF f
  <2>. QED  BY <2>2
<1>2. ASSUME NEW k \in 1 .. n, k - 1 \in p
      PROVE  k \in p
  <2>1. PICK f : f = FoldStep(pass, s, k - 1, f)
    BY <1>2
  <2>. DEFINE g == [t \in SUBSET (1 .. k) |-> IF k \in t THEN Keep(pass, f[t \ {k}], s[k]) ELSE f[t]]
  <2>2. ASSUME NEW t \in SUBSET (1 .. k)
        PROVE  g[t] = IF t = {} THEN <<>> ELSE Keep(pass, g[t \ {Max(t)}], s[Max(t)])
    <3>1. t \ {k} \in SUBSET (1 .. k) /\ t \ {k} \in SUBSET (1 .. k - 1) /\ k \notin t \ {k} /\ k \in Nat
      OBVIOUS
    <3>2. CASE k \in t
      <4>1. Max(t) = k /\ t # {}
        BY <3>1, <3>2, Greatest
      <4>2. g[t] = Keep(pass, f[t \ {k}], s[k]) /\ g[t \ {k}] = f[t \ {k}]
        BY <3>1, <3>2, Zenon
      <4>. QED  BY <4>1, <4>2, Zenon
    <3>3. CASE k \notin t
      <4>1. t \in SUBSET (1 .. k - 1)
        BY <3>1, <3>3
      <4>2. f[t] = IF t = {} THEN <<>> ELSE Keep(pass, f[t \ {Max(t)}], s[Max(t)])
        BY <2>1, <4>1, Zenon DEF FoldStep
      <4>3. t \ {Max(t)} \in SUBSET (1 .. k) /\ k \notin t \ {Max(t)}
        BY <3>3
      <4>4. g[t] = f[t] /\ g[t \ {Max(t)}] = f[t \ {Max(t)}]
        BY <3>3, <4>3, Zenon
      <4>. QED  BY <4>2, <4>4, Zenon
    <3>. QED  BY <3>2, <3>3
  <2>3. g = FoldStep(pass, s, k, g)
    BY <2>2, Zenon DEF FoldStep
  <2>. HIDE DEF g
  <2>. QED  BY <2>3
<1>3. p \in SUBSET (0 .. n)
  OBVIOUS
<1>4. p = 0 .. n
  <2>. HIDE DEF p
  <2>. QED  BY <1>1, <1>2, <1>3, IntervalInduction
<1>5. n \in p
  <2>. HIDE DEF p
  <2>. QED  BY <1>4
<1>. QED  BY <1>5

\* g lists what a pass has kept after each micro-op of the block.
Keeps(g, pass, s) ==
  /\ g[0] = <<>>
  /\ \A k \in 1 .. Len(s) : g[k] = Keep(pass, g[k - 1], s[k])
  /\ \A k \in 0 .. Len(s) : g[k] \in Seq(MicroOps) /\ Len(g[k]) <= k
  /\ Pass(pass, s) = g[Len(s)]

\* A pass goes through the block from left to right.
LEMMA PassKeeps ==
  ASSUME NEW pass, NEW s, s \in Seq(MicroOps)
  PROVE  \E g : Keeps(g, pass, s)
<1>. DEFINE n == Len(s)
            f == CHOOSE h : h = FoldStep(pass, s, n, h)
            g == [k \in 0 .. n |-> f[1 .. k]]
            p == {k \in 0 .. n : g[k] \in Seq(MicroOps) /\ Len(g[k]) <= k}
<1>1. n \in Nat /\ DOMAIN s = 1 .. n
  OBVIOUS
<1>2. f = FoldStep(pass, s, n, f)
  <2>1. \E h : h = FoldStep(pass, s, n, h)
    BY <1>1, FoldExists
  <2>. QED  BY <2>1, Zenon
<1>3. Pass(pass, s) = f[1 .. n]
  BY <1>1, Zenon DEF Pass, FoldLeft, MapThenFoldSet, FoldStep
<1>. HIDE DEF n, f
<1>4. g[0] = <<>>
  <2>1. 1 .. 0 = {} /\ {} \in SUBSET (1 .. n) /\ 0 \in 0 .. n
    BY <1>1
  <2>2. f[{}] = <<>>
    BY <1>2, <2>1, Zenon DEF FoldStep
  <2>. QED  BY <2>1, <2>2, Zenon
<1>5. ASSUME NEW k \in 1 .. n
      PROVE  g[k] = Keep(pass, g[k - 1], s[k])
  <2>1. /\ k \in Nat /\ k \in 0 .. n /\ k - 1 \in 0 .. n /\ k \in 1 .. k
        /\ 1 .. k \in SUBSET (1 .. n) /\ 1 .. k # {} /\ 1 .. k \in SUBSET (1 .. k)
        /\ (1 .. k) \ {k} = 1 .. (k - 1)
    <3>1. n \in Nat /\ k \in Nat /\ 1 <= k /\ k <= n
      BY <1>1
    <3>2. k \in 0 .. n /\ k - 1 \in 0 .. n /\ k \in 1 .. k
      BY <3>1
    <3>3. 1 .. k \in SUBSET (1 .. n) /\ 1 .. k # {} /\ 1 .. k \in SUBSET (1 .. k)
      BY <3>1
    <3>4. (1 .. k) \ {k} = 1 .. (k - 1)
      BY <3>1
    <3>. QED  BY <3>1, <3>2, <3>3, <3>4
  <2>2. Max(1 .. k) = k
    BY <2>1, Greatest
  <2>3. f[1 .. k] = Keep(pass, f[1 .. k - 1], s[k])
    BY <1>2, <2>1, <2>2, Zenon DEF FoldStep
  <2>. QED  BY <2>1, <2>3, Zenon
<1>6. g[n] = f[1 .. n]
  BY <1>1
<1>. HIDE DEF g
<1>7. 0 \in p
  <2>1. 0 \in 0 .. n /\ <<>> \in Seq(MicroOps) /\ Len(<<>>) <= 0
    BY <1>1
  <2>. QED  BY <1>4, <2>1, Zenon
<1>8. ASSUME NEW k \in 1 .. n, k - 1 \in p
      PROVE  k \in p
  <2>1. s[k] \in MicroOps /\ k \in 0 .. n
    BY <1>1 DEF n
  <2>2. g[k] = g[k - 1] \/ g[k] = Append(g[k - 1], s[k])
    BY <1>5 DEF Keep
  <2>. DEFINE x == g[k - 1]
              y == g[k]
  <2>3. x \in Seq(MicroOps) /\ Len(x) <= k - 1 /\ k \in Int
    BY <1>8
  <2>4. y = x \/ y = Append(x, s[k])
    BY <2>2
  <2>. HIDE DEF x, y
  <2>5. y \in Seq(MicroOps) /\ Len(y) <= k
    BY <2>1, <2>3, <2>4, AppendProperties
  <2>. QED  BY <2>1, <2>5 DEF y
<1>9. p \in SUBSET (0 .. n)
  OBVIOUS
<1>10. p = 0 .. n
  <2>. HIDE DEF p
  <2>. QED  BY <1>1, <1>7, <1>8, <1>9, IntervalInduction
<1>11. \A k \in 0 .. n : g[k] \in Seq(MicroOps) /\ Len(g[k]) <= k
  BY <1>10
<1>. QED  BY <1>3, <1>4, <1>5, <1>6, <1>11 DEF Keeps, n

-------------------------------------------------------------------------------
(* What the passes leave of the run                                        *)

Stops(s) == \E j \in 1 .. Len(s) : s[j].code \in EndCodes

\* A longer block runs as the shorter one does, up to its end.
LEMMA RunsAlike ==
  ASSUME NEW s, s \in Seq(MicroOps), NEW v \in MicroOps, NEW m \in Machine
  PROVE  After(Append(s, v), m, Len(s)) = After(s, m, Len(s))
<1>. DEFINE t == Append(s, v)
            n == Len(s)
            p == {k \in 0 .. n : After(t, m, k) = After(s, m, k)}
<1>1. /\ t \in Seq(MicroOps) /\ Len(t) = n + 1 /\ n \in Nat
      /\ \A k \in 1 .. n : t[k] = s[k]
  BY AppendProperties
<1>. HIDE DEF t
<1>2. 0 \in p
  <2>1. 0 \in 0 .. n
    BY <1>1
  <2>2. After(t, m, 0) = Begun(m) /\ After(s, m, 0) = Begun(m)
    BY <1>1, AfterIs, Zenon
  <2>. QED  BY <2>1, <2>2
<1>3. ASSUME NEW k \in 1 .. n, k - 1 \in p
      PROVE  k \in p
  <2>1. k \in 1 .. Len(t) /\ k \in 1 .. Len(s) /\ k \in 0 .. n
    BY <1>1
  <2>2. After(t, m, k) = Advance(t, k, After(t, m, k - 1))
    BY <1>1, <2>1, AfterIs
  <2>3. After(s, m, k) = Advance(s, k, After(s, m, k - 1))
    BY <2>1, AfterIs
  <2>4. k \in Reached(t) <=> k \in Reached(s)
    <3>1. \A j \in 1 .. k - 1 : j \in 1 .. n /\ t[j] = s[j]
      BY <1>1
    <3>. QED  BY <2>1, <3>1 DEF Reached
  <2>5. t[k] = s[k]
    BY <1>1
  <2>. QED  BY <1>3, <2>1, <2>2, <2>3, <2>4, <2>5 DEF Advance
<1>4. p \in SUBSET (0 .. n)
  OBVIOUS
<1>5. p = 0 .. n
  <2>. HIDE DEF p
  <2>. QED  BY <1>1, <1>2, <1>3, <1>4, IntervalInduction
<1>6. n \in p
  BY <1>1, <1>5
<1>. QED  BY <1>6 DEF t

\* A micro-op at the end of a block runs last, unless the block has stopped.
LEMMA RunAppended ==
  ASSUME NEW s, s \in Seq(MicroOps), NEW v \in MicroOps, NEW m \in Machine
  PROVE  /\ Execute(Append(s, v), m) = IF Stops(s) THEN Execute(s, m) ELSE Step(Execute(s, m), v)
         /\ Stops(Append(s, v)) <=> Stops(s) \/ v.code \in EndCodes
         /\ Execute(s, m) \in Machine
<1>. DEFINE t == Append(s, v)
            n == Len(s)
<1>1. /\ t \in Seq(MicroOps) /\ Len(t) = n + 1 /\ n \in Nat /\ t[n + 1] = v
      /\ \A k \in 1 .. n : t[k] = s[k]
  BY AppendProperties
<1>2. After(t, m, n) = After(s, m, n)
  BY RunsAlike
<1>. HIDE DEF t
<1>3. n + 1 \in 1 .. Len(t) /\ (n + 1) - 1 = n
  BY <1>1
<1>4. After(t, m, n + 1) = Advance(t, n + 1, After(t, m, n))
  BY <1>1, <1>3, AfterIs
<1>5. n + 1 \in Reached(t) <=> ~Stops(s)
  BY <1>1, <1>3 DEF Reached, Stops
<1>6. Stops(t) <=> Stops(s) \/ v.code \in EndCodes
  <2>1. \A j \in 1 .. Len(t) : j \in 1 .. n \/ j = n + 1
    BY <1>1
  <2>2. \A j \in 1 .. n : j \in 1 .. Len(t)
    BY <1>1
  <2>. QED  BY <1>1, <1>3, <2>1, <2>2, Zenon DEF Stops
<1>7. Execute(s, m) \in Machine
  BY AfterIs DEF Execute
<1>. QED  BY <1>1, <1>2, <1>4, <1>5, <1>6, <1>7, Zenon DEF Execute, Advance, t

\* A move between two registers that agree changes nothing, and after a move its
\* two registers agree.
LEMMA MovesAgree ==
  ASSUME NEW m \in Machine, NEW u \in MicroOps, u.code = "MovRR"
  PROVE  /\ u.dst = u.src1 => Step(m, u) = m
         /\ ~Unmapped(u) =>
              /\ u.dst \in Registers /\ u.src1 \in Registers
              /\ Step(m, u).reg[u.dst] = Step(m, u).reg[u.src1]
              /\ m.reg[u.dst] = m.reg[u.src1] => Step(m, u) = m
<1>1. Step(m, u) = Write(m, u.dst, Read(m, u.src1))
  <2>1. Step(m, u) = Moves(m, u)
    BY StepGroups DEF MoveCodes
  <2>. QED  BY <2>1, Zenon DEF Moves
<1>2. u.dst \in Operand /\ u.src1 \in Operand /\ Read(m, u.src1) \in Word
  BY ReadsWord DEF MicroOps
<1>3. m.reg \in [Registers -> Word]
  BY ReadsWord DEF Operand
<1>4. ASSUME NEW r \in Registers
      PROVE  [m EXCEPT !.reg[r] = m.reg[r]] = m
  BY <1>3 DEF Machine
<1>5. u.dst = u.src1 => Step(m, u) = m
  BY <1>1, <1>2, <1>4 DEF Write, Read, Operand
<1>6. ASSUME ~Unmapped(u)
      PROVE  /\ u.dst \in Registers /\ u.src1 \in Registers
             /\ Step(m, u).reg[u.dst] = Step(m, u).reg[u.src1]
             /\ m.reg[u.dst] = m.reg[u.src1] => Step(m, u) = m
  <2>1. u.dst # RNone /\ u.src1 # RNone /\ u.dst \in Registers /\ u.src1 \in Registers
    BY <1>2, <1>6 DEF Unmapped, Operand
  <2>2. Step(m, u) = [m EXCEPT !.reg[u.dst] = m.reg[u.src1]]
    BY <1>1, <2>1, Zenon DEF Write, Read
  <2>3. Step(m, u).reg = [m.reg EXCEPT ![u.dst] = m.reg[u.src1]]
    BY <2>2 DEF Machine
  <2>. QED  BY <1>3, <1>4, <2>1, <2>2, <2>3
<1>. QED  BY <1>5, <1>6

Tidy(s) == \A i \in DOMAIN s : ~Unmapped(s[i])

\* What is kept of the first k micro-ops of a block runs like them, and a move
\* at its end has made its registers agree.
Alike(g, s, m, k) ==
  /\ Execute(g[k], m) = After(s, m, k)
  /\ Stops(g[k]) <=> \E j \in 1 .. k : s[j].code \in EndCodes
  /\ Tidy(g[k])
  /\ g[k] # <<>> /\ ~Stops(g[k]) /\ Last(g[k]).code = "MovRR" =>
       After(s, m, k).reg[Last(g[k]).dst] = After(s, m, k).reg[Last(g[k]).src1]

LEMMA KeepAlike ==
  ASSUME NEW pass, NEW s, s \in Seq(MicroOps), Tidy(s), NEW m \in Machine,
         NEW g, Keeps(g, pass, s), NEW k \in 1 .. Len(s), Alike(g, s, m, k - 1)
  PROVE  Alike(g, s, m, k)
<1>. DEFINE q == g[k - 1]
            r == g[k]
            v == s[k]
            x == After(s, m, k - 1)
            y == After(s, m, k)
            ended == \E j \in 1 .. k - 1 : s[j].code \in EndCodes
<1>1. Len(s) \in Nat /\ k - 1 \in 0 .. Len(s) /\ k \in DOMAIN s
  OBVIOUS
<1>2. v \in MicroOps /\ ~Unmapped(v)
  BY <1>1 DEF Tidy
<1>3. q \in Seq(MicroOps) /\ r = Keep(pass, q, v)
  BY <1>1, Zenon DEF Keeps
<1>4. x \in Machine /\ y = IF ended THEN x ELSE Step(x, v)
  <2>1. k \in Reached(s) <=> ~ended
    BY <1>1 DEF Reached
  <2>. QED  BY <1>1, <2>1, AfterIs DEF Advance
<1>5. (\E j \in 1 .. k : s[j].code \in EndCodes) <=> ended \/ v.code \in EndCodes
  <2>1. \A j \in 1 .. k : j \in 1 .. k - 1 \/ j = k
    BY <1>1
  <2>2. k \in 1 .. k /\ \A j \in 1 .. k - 1 : j \in 1 .. k
    BY <1>1
  <2>. QED  BY <2>1, <2>2, Zenon
<1>6. Execute(q, m) = x /\ (Stops(q) <=> ended) /\ Tidy(q)
  BY Zenon DEF Alike
<1>7. q # <<>> /\ ~Stops(q) /\ Last(q).code = "MovRR" => x.reg[Last(q).dst] = x.reg[Last(q).src1]
  BY Zenon DEF Alike
<1>8. Alike(g, s, m, k) <=>
        /\ Execute(r, m) = y
        /\ Stops(r) <=> ended \/ v.code \in EndCodes
        /\ Tidy(r)
        /\ r # <<>> /\ ~Stops(r) /\ Last(r).code = "MovRR" =>
             y.reg[Last(r).dst] = y.reg[Last(r).src1]
  BY <1>5, Zenon DEF Alike
<1>. HIDE DEF q, r, v, x, y, ended
<1>9. CASE Drops(pass, q, v)
  <2>1. r = q
    BY <1>3, <1>9 DEF Keep
  <2>2. v.code \notin EndCodes
    BY <1>9 DEF Drops, Removable, Undoes, EndCodes
  <2>3. CASE ended
    BY <1>4, <1>6, <1>7, <1>8, <2>1, <2>2, <2>3, Zenon
  <2>4. CASE ~ended
    <3>1. Step(x, v) = x
      <4>1. CASE v.code = "Nop"
        BY <4>1, StepGroups DEF ArithmeticCodes, BitCodes, MoveCodes, EndCodes
      <4>2. CASE v.code = "MovRR" /\ v.dst = v.src1
        BY <1>2, <1>4, <4>2, MovesAgree
      <4>3. CASE q # <<>> /\ Undoes(Last(q), v)
        <5>1. /\ v.code = "MovRR" /\ Last(q).code = "MovRR"
              /\ Last(q).dst = v.src1 /\ Last(q).src1 = v.dst
          BY <4>3 DEF Undoes
        <5>2. x.reg[v.dst] = x.reg[v.src1]
          BY <1>6, <1>7, <2>4, <4>3, <5>1
        <5>. QED  BY <1>2, <1>4, <5>1, <5>2, MovesAgree
      <4>. QED  BY <1>9, <4>1, <4>2, <4>3, Zenon DEF Drops, Removable
    <3>. QED  BY <1>4, <1>6, <1>7, <1>8, <2>1, <2>2, <2>4, <3>1, Zenon
  <2>. QED  BY <2>3, <2>4
<1>10. CASE ~Drops(pass, q, v)
  <2>1. r = Append(q, v)
    BY <1>3, <1>10 DEF Keep
  <2>2. /\ Execute(r, m) = IF Stops(q) THEN Execute(q, m) ELSE Step(Execute(q, m), v)
        /\ Stops(r) <=> Stops(q) \/ v.code \in EndCodes
    BY <1>2, <1>3, <2>1, RunAppended, Zenon
  <2>3. Execute(r, m) = y
    BY <1>4, <1>6, <2>2, Zenon
  <2>4. r # <<>> /\ Last(r) = v
    BY <1>2, <1>3, <2>1, AppendProperties DEF Last
  <2>5. Tidy(r)
    <3>1. /\ Len(q) \in Nat /\ Len(r) = Len(q) + 1 /\ r[Len(q) + 1] = v
          /\ \A i \in 1 .. Len(q) : r[i] = q[i]
          /\ DOMAIN r = 1 .. Len(r) /\ DOMAIN q = 1 .. Len(q)
      BY <1>2, <1>3, <2>1, AppendProperties
    <3>2. \A i \in 1 .. Len(r) : i \in 1 .. Len(q) \/ i = Len(q) + 1
      BY <3>1
    <3>. QED  BY <1>2, <1>6, <3>1, <3>2, Zenon DEF Tidy
  <2>6. ~Stops(r) /\ v.code = "MovRR" => y.reg[v.dst] = y.reg[v.src1]
    BY <1>2, <1>4, <1>6, <2>2, MovesAgree
  <2>. QED  BY <1>6, <1>8, <2>2, <2>3, <2>4, <2>5, <2>6, Zenon
<1>. QED  BY <1>9, <1>10

\* A pass leaves what a tidy block computes, and the block tidy.
LEMMA PassSame ==
  ASSUME NEW pass, NEW s, s \in Seq(MicroOps)
  PROVE  /\ Pass(pass, s) \in Seq(MicroOps) /\ Len(Pass(pass, s)) <= Len(s)
         /\ Tidy(s) => /\ Tidy(Pass(pass, s))
                       /\ \A m \in Machine : Execute(Pass(pass, s), m) = Execute(s, m)
<1>1. PICK g : Keeps(g, pass, s)
  BY PassKeeps
<1>. DEFINE n == Len(s)
<1>2. n \in Nat /\ 0 \in 0 .. n /\ n \in 0 .. n
  OBVIOUS
<1>3. Pass(pass, s) = g[n] /\ g[n] \in Seq(MicroOps) /\ Len(g[n]) <= n /\ g[0] = <<>>
  BY <1>1, <1>2, Zenon DEF Keeps
<1>4. ASSUME Tidy(s), NEW m \in Machine
      PROVE  Alike(g, s, m, n)
  <2>. DEFINE p == {k \in 0 .. n : Alike(g, s, m, k)}
  <2>1. Alike(g, s, m, 0)
    <3>1. After(s, m, 0) = Begun(m) /\ Execute(<<>>, m) = Begun(m)
      <4>1. <<>> \in Seq(MicroOps) /\ Len(<<>>) = 0
        OBVIOUS
      <4>. QED  BY <4>1, AfterIs, Zenon DEF Execute
    <3>2. ~Stops(<<>>) /\ Tidy(<<>>)
      BY DEF Stops, Tidy
    <3>3. 1 .. 0 = {}
      OBVIOUS
    <3>. QED  BY <1>3, <3>1, <3>2, <3>3, Zenon DEF Alike
  <2>2. ASSUME NEW k \in 1 .. n, k - 1 \in p
        PROVE  k \in p
    <3>1. k \in 0 .. n
      BY <1>2
    <3>2. Alike(g, s, m, k)
      BY <1>1, <1>4, <2>2, KeepAlike, Zenon
    <3>. QED  BY <3>1, <3>2, Zenon
  <2>3. 0 \in p /\ p \in SUBSET (0 .. n)
    BY <1>2, <2>1, Zenon
  <2>. HIDE DEF p
  <2>4. p = 0 .. n
    BY <1>2, <2>2, <2>3, IntervalInduction
  <2>. QED  BY <1>2, <2>4, Zenon DEF p
<1>5. ASSUME Tidy(s), NEW m \in Machine
      PROVE  Tidy(g[n]) /\ Execute(g[n], m) = Execute(s, m)
  BY <1>4, <1>5, Zenon DEF Alike, Execute
<1>6. \E m : m \in Machine
  <2>1. Begun([reg |-> [r \in Registers |-> 0], flag |-> NoFlags, mem |-> [a \in Word |-> 0], next |-> NONE]) \in Machine
    BY WordSize, FlagsTyped DEF Begun, Machine
  <2>. QED  BY <2>1, Zenon
<1>. QED  BY <1>3, <1>5, <1>6, Zenon

-------------------------------------------------------------------------------
(* The pipeline                                                            *)

\* The parts of the state have their types and limits.
Shapes ==
  /\ phase \in {"translate", "optimize", "execute", "done"}
  /\ ops \in Seq(MicroOps) /\ Len(ops) <= MaxOps
  /\ plain \in Seq(MicroOps) /\ Len(plain) <= MaxOps
  /\ instructionCount \in 0 .. MaxInstructions /\ emitted \in 0 .. instructionCount
  /\ start \in Machine /\ final \in Machine /\ plainFinal \in Machine

\* Until the optimiser has it, the block is full or complete.
FullOrComplete ==
  phase \in {"translate", "optimize"} => Len(ops) = MaxOps \/ Len(ops) = emitted

\* From then on the block is what the two passes leave.
Optimized ==
  phase \in {"execute", "done"} => ops = Pass(2, Pass(1, plain))

\* At the end both blocks ran on the same machine.
BothRan ==
  Done => final = Execute(ops, start) /\ plainFinal = Execute(plain, start)

\* The inductive invariant of the pipeline.
PipeInv == Shapes /\ FullOrComplete /\ Optimized /\ BothRan

LEMMA PipeInit == Init => PipeInv
<1>. SUFFICES ASSUME Init
              PROVE  PipeInv
  OBVIOUS
<1>1. Idle \in Machine
  <2>1. 0 \in Word /\ NoFlags \in Flags
    BY WordSize, FlagsTyped
  <2>. QED  BY <2>1 DEF Idle, Machine
<1>2. MaxOps \in Nat /\ MaxInstructions \in Nat
  BY PipelineAssumption
<1>3. ops = <<>> /\ plain = <<>> /\ <<>> \in Seq(MicroOps) /\ Len(<<>>) = 0
  BY DEF Init
<1>4. Shapes
  BY <1>1, <1>2, <1>3 DEF Init, Shapes
<1>5. FullOrComplete /\ Optimized /\ BothRan
  BY <1>3 DEF Init, FullOrComplete, Optimized, BothRan, Done
<1>. QED  BY <1>4, <1>5 DEF PipeInv

LEMMA DecodeOneKeeps ==
  ASSUME PipeInv, NEW i \in Offered, DecodeOne(i)
  PROVE  PipeInv'
<1>. DEFINE us == Translate(i)
<1>1. us \in Pieces
  <2>1. i \in Instruction
    BY PipelineAssumption DEF Offered
  <2>. QED  BY <2>1, Translated
<1>2. /\ phase = "translate" /\ instructionCount < MaxInstructions
      /\ ops' = PushAll(us) /\ emitted' = emitted + Len(us)
      /\ instructionCount' = instructionCount + 1
      /\ phase' \in {"optimize", "translate"}
      /\ plain' = plain /\ start' = start /\ final' = final /\ plainFinal' = plainFinal
  BY Zenon DEF DecodeOne
<1>. HIDE DEF us
<1>3. /\ ops \in Seq(MicroOps) /\ Len(ops) <= MaxOps /\ MaxOps \in Nat /\ MaxInstructions \in Nat
      /\ instructionCount \in 0 .. MaxInstructions /\ emitted \in 0 .. instructionCount
  BY PipelineAssumption DEF PipeInv, Shapes
<1>4. /\ PushAll(us) \in Seq(MicroOps) /\ Len(us) \in 0 .. 1
      /\ Len(PushAll(us)) = IF MaxOps < Len(ops) + Len(us) THEN MaxOps ELSE Len(ops) + Len(us)
  BY <1>1, <1>3, PushedWithin, Zenon
<1>5. Len(ops) \in Nat /\ (Len(ops) = MaxOps \/ Len(ops) = emitted)
  BY <1>2, <1>3 DEF PipeInv, FullOrComplete
<1>6. Shapes'
  <2>1. ops' \in Seq(MicroOps) /\ Len(ops') <= MaxOps
    BY <1>2, <1>3, <1>4, <1>5
  <2>2. instructionCount + 1 \in 0 .. MaxInstructions
        /\ emitted + Len(us) \in 0 .. instructionCount + 1
    <3>. DEFINE l == Len(us)
    <3>1. l \in 0 .. 1 /\ instructionCount < MaxInstructions
      BY <1>2, <1>4, Zenon
    <3>. HIDE DEF l
    <3>2. instructionCount + 1 \in 0 .. MaxInstructions /\ emitted + l \in 0 .. instructionCount + 1
      BY <1>3, <3>1
    <3>. QED  BY <3>2 DEF l
  <2>3. instructionCount' \in 0 .. MaxInstructions /\ emitted' \in 0 .. instructionCount'
    BY <1>2, <2>2, Zenon
  <2>. QED  BY <1>2, <2>1, <2>3 DEF PipeInv, Shapes
<1>7. FullOrComplete'
  BY <1>2, <1>3, <1>4, <1>5 DEF FullOrComplete
<1>8. Optimized' /\ BothRan'
  BY <1>2 DEF Optimized, BothRan, Done
<1>. QED  BY <1>6, <1>7, <1>8 DEF PipeInv

LEMMA EndOfCodeKeeps ==
  ASSUME PipeInv, EndOfCode
  PROVE  PipeInv'
<1>1. Shapes'
  BY DEF PipeInv, Shapes, EndOfCode
<1>2. FullOrComplete'
  BY DEF PipeInv, FullOrComplete, EndOfCode
<1>3. Optimized' /\ BothRan'
  BY DEF EndOfCode, Optimized, BothRan, Done
<1>. QED  BY <1>1, <1>2, <1>3 DEF PipeInv

LEMMA OptimizeBlockKeeps ==
  ASSUME PipeInv, OptimizeBlock
  PROVE  PipeInv'
<1>. DEFINE one == Pass(1, ops)
            two == Pass(2, one)
<1>1. ops \in Seq(MicroOps) /\ Len(ops) <= MaxOps /\ MaxOps \in Nat
  BY PipelineAssumption DEF PipeInv, Shapes
<1>2. one \in Seq(MicroOps) /\ Len(one) <= Len(ops)
  BY <1>1, PassSame
<1>3. two \in Seq(MicroOps) /\ Len(two) <= Len(one)
  BY <1>2, PassSame
<1>4. /\ ops' = two /\ plain' = ops /\ phase' = "execute"
      /\ instructionCount' = instructionCount /\ emitted' = emitted
      /\ start' = start /\ final' = final /\ plainFinal' = plainFinal
  BY DEF OptimizeBlock
<1>5. Optimized' /\ BothRan' /\ FullOrComplete'
  BY <1>4 DEF Optimized, BothRan, FullOrComplete, Done
<1>. HIDE DEF one, two
<1>6. Len(two) <= MaxOps
  BY <1>1, <1>2, <1>3
<1>7. Shapes'
  BY <1>1, <1>3, <1>4, <1>6 DEF PipeInv, Shapes
<1>. QED  BY <1>5, <1>7 DEF PipeInv

LEMMA ExecuteBlockKeeps ==
  ASSUME PipeInv, NEW m \in Starts, ExecuteBlock(m)
  PROVE  PipeInv'
<1>1. m \in Machine /\ ops \in Seq(MicroOps) /\ plain \in Seq(MicroOps)
  BY PipelineAssumption DEF PipeInv, Shapes
<1>2. Execute(ops, m) \in Machine /\ Execute(plain, m) \in Machine
  BY <1>1, AfterIs DEF Execute
<1>3. /\ phase = "execute" /\ phase' = "done" /\ start' = m
      /\ final' = Execute(ops, m) /\ plainFinal' = Execute(plain, m)
      /\ ops' = ops /\ plain' = plain
      /\ instructionCount' = instructionCount /\ emitted' = emitted
  BY DEF ExecuteBlock
<1>4. Shapes'
  BY <1>1, <1>2, <1>3 DEF PipeInv, Shapes
<1>5. BothRan'
  BY <1>3 DEF BothRan
<1>6. Optimized' /\ FullOrComplete'
  BY <1>3 DEF PipeInv, Optimized, FullOrComplete
<1>. QED  BY <1>4, <1>5, <1>6 DEF PipeInv

LEMMA PipeStep == PipeInv /\ [Next]_vars => PipeInv'
<1>. SUFFICES ASSUME PipeInv, [Next]_vars
              PROVE  PipeInv'
  OBVIOUS
<1>1. CASE \E i \in Offered : DecodeOne(i)
  BY <1>1, DecodeOneKeeps
<1>2. CASE EndOfCode
  BY <1>2, EndOfCodeKeeps
<1>3. CASE OptimizeBlock
  BY <1>3, OptimizeBlockKeeps
<1>4. CASE \E m \in Starts : ExecuteBlock(m)
  BY <1>4, ExecuteBlockKeeps
<1>5. CASE UNCHANGED vars
  BY <1>5 DEF vars, PipeInv, Shapes, FullOrComplete, Optimized, BothRan, Done
<1>. QED  BY <1>1, <1>2, <1>3, <1>4, <1>5 DEF Next

\* The invariant holds in every state of every behaviour.
LEMMA PipeAlways == Spec => []PipeInv
BY PipeInit, PipeStep, PTL DEF Spec

\* The block keeps to its limit, counts stay within theirs and every machine that
\* translate_block, optimize_block and execute_block leave behind is one.
THEOREM DbtTypes == Spec => []TypeOK
<1>1. PipeInv => TypeOK
  <2>. SUFFICES ASSUME PipeInv
                PROVE  TypeOK
    OBVIOUS
  <2>1. /\ MaxInstructions \in Nat /\ instructionCount \in 0 .. MaxInstructions
        /\ emitted \in 0 .. instructionCount
    BY PipelineAssumption DEF PipeInv, Shapes
  <2>2. emitted \in 0 .. MaxInstructions
    BY <2>1
  <2>. QED  BY <2>2 DEF PipeInv, Shapes, TypeOK
<1>. QED  BY <1>1, PipeAlways, PTL

\* TranslationBlock::push drops a micro-op only when the block is full: whatever
\* the optimiser gets is full, or has every micro-op that was translated.
THEOREM LossAtTheLimit == Spec => []LostOnlyWhenFull
<1>1. PipeInv => LostOnlyWhenFull
  BY DEF PipeInv, FullOrComplete, LostOnlyWhenFull
<1>. QED  BY <1>1, PipeAlways, PTL

\* optimize_block changes nothing of what execute_block computes, for a block of
\* any length on any machine, as long as its moves are between known registers.
THEOREM OptimizerSound == Spec => []OptimizedSame
<1>1. PipeInv => OptimizedSame
  <2>. SUFFICES ASSUME PipeInv, Done, \A i \in DOMAIN plain : ~Unmapped(plain[i])
                PROVE  final = plainFinal
    BY DEF OptimizedSame
  <2>1. plain \in Seq(MicroOps) /\ start \in Machine
    BY DEF PipeInv, Shapes
  <2>2. Tidy(plain)
    BY DEF Tidy
  <2>3. /\ Pass(1, plain) \in Seq(MicroOps) /\ Tidy(Pass(1, plain))
        /\ Execute(Pass(1, plain), start) = Execute(plain, start)
    BY <2>1, <2>2, PassSame, Zenon
  <2>4. Execute(Pass(2, Pass(1, plain)), start) = Execute(Pass(1, plain), start)
    BY <2>1, <2>3, PassSame, Zenon
  <2>5. ops = Pass(2, Pass(1, plain))
    BY DEF PipeInv, Optimized, Done
  <2>6. final = Execute(ops, start) /\ plainFinal = Execute(plain, start)
    BY DEF PipeInv, BothRan
  <2>. QED  BY <2>3, <2>4, <2>5, <2>6, Zenon
<1>. QED  BY <1>1, PipeAlways, PTL

\* What execute_inst leaves of the last arithmetic of a block, for every word
\* width: CF, ZF and SF against OF order the compared words, OF is exact, CF
\* survives INC and DEC, moves, stack traffic and the block's branch leave all of
\* them alone, and a push with the pop right after it is a move.
THEOREM ExecutorExact == Spec => []MachineExact
<1>1. PipeInv => MachineExact
  <2>. SUFFICES ASSUME PipeInv
                PROVE  MachineExact
    OBVIOUS
  <2>1. CASE Done
    <3>1. Ran
      BY <2>1 DEF PipeInv, Shapes, BothRan, Ran
    <3>. QED  BY <3>1, RanFlags, RanPushPop DEF MachineExact
  <2>2. CASE ~Done
    BY <2>2 DEF MachineExact, FlagsExact, OrderExact, CarrySurvives, OverflowExact, PushPopIsMove
  <2>. QED  BY <2>1, <2>2
<1>. QED  BY <1>1, PipeAlways, PTL

===============================================================================
