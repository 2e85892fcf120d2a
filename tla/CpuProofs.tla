------------------------------- MODULE CpuProofs -------------------------------
(* Theorems about Cpu, for every word width, memory and program. *)
EXTENDS Cpu, AluLemmas

--------------------------------------------------------------------------------
(* Arithmetic. *)

LEMMA Sizes ==
    /\ Modulus \in Nat /\ Modulus >= 32 /\ Modulus % 32 = 0 /\ Modulus % 4 = 0
    /\ Pow2[ByteBits] \in Nat \ {0}
    /\ \A k \in {1, 2, 4} : k * ByteBits \in 1 .. WordBits
    /\ ByteBits * 0 \in 0 .. WordBits /\ ByteBits * 1 \in 0 .. WordBits
    /\ ByteBits * 2 \in 0 .. WordBits /\ ByteBits * 3 \in 0 .. WordBits
  <1>1. Modulus \in Nat \ {0}
    BY ModulusIsTwoSigns
  <1>0. ByteBits \in Nat \ {0} /\ 4 * ByteBits = WordBits /\ WordBits \in Nat
    BY CpuAssumption, WordAssumption
  <1>2. ByteBits \in 0 .. WordBits
    BY <1>0
  <1>3. Pow2[ByteBits] \in Nat \ {0}
    BY <1>2, WordAssumption
  <1>4. \A k \in {1, 2, 4} : k * ByteBits \in 1 .. WordBits
    BY <1>0
  <1>5. /\ ByteBits * 0 \in 0 .. WordBits /\ ByteBits * 1 \in 0 .. WordBits
        /\ ByteBits * 2 \in 0 .. WordBits /\ ByteBits * 3 \in 0 .. WordBits
    BY <1>0
  <1>6. Modulus >= 32 /\ Modulus % 4 = 0 /\ Modulus % 32 = 0
    BY <1>1, CpuAssumption
  <1> QED
    BY <1>1, <1>3, <1>4, <1>5, <1>6

LEMMA Wraps == ASSUME NEW x \in Int PROVE x % Modulus \in Word
  BY ModulusIsTwoSigns, ModOnce DEF Word

LEMMA WordInt == ASSUME NEW x \in Word PROVE x \in Int /\ x >= 0 /\ x <= Modulus - 1
  BY ModulusIsTwoSigns DEF Word

(* A remainder, as the difference to a multiple. *)
LEMMA ProductHigh ==
    ASSUME NEW m \in Nat \ {0}, NEW a \in 0 .. (m - 1), NEW b \in 0 .. (m - 1)
    PROVE  (a * b) \div m \in 0 .. (m - 1) /\ a * b \in Nat
  <1>1. a * b \in Nat
    OBVIOUS
  <1>2. a * b < m * m
    <2>1. a * b <= a * m
      OBVIOUS
    <2>2. a * m < m * m
      OBVIOUS
    <2> QED
      BY <1>1, <2>1, <2>2
  <1> SUFFICES ASSUME NEW p \in Nat, p < m * m, NEW q \in Int, NEW e \in 0 .. (m - 1),
                      p = m * q + e
               PROVE  q \in 0 .. (m - 1)
    <2>1. a * b = m * ((a * b) \div m) + ((a * b) % m)
      BY <1>1
    <2>2. (a * b) \div m \in Int /\ (a * b) % m \in 0 .. (m - 1)
      BY <1>1
    <2> QED
      BY <1>1, <1>2, <2>1, <2>2
  <1>3. q < m
    <2>1. CASE q >= m
      <3>1. m * q >= m * m
        BY <2>1
      <3> QED
        BY <3>1
    <2> QED
      BY <2>1
  <1>4. q >= 0
    <2>1. CASE q <= 0 - 1
      <3>1. m * q <= m * (0 - 1)
        BY <2>1
      <3> QED
        BY <3>1
    <2> QED
      BY <2>1
  <1> QED
    BY <1>3, <1>4
--------------------------------------------------------------------------------
(* Data memory. *)

LEMMA BytesMakeWords ==
    ASSUME NEW x \in ByteNumber, NEW y \in ByteNumber, NEW z \in ByteNumber, NEW t \in ByteNumber
    PROVE  LET b == Pow2[ByteBits]
           IN  /\ x \in Word
               /\ x + b * y \in Word
               /\ x + b * 0 \in Word
               /\ x + b * (y + b * (z + b * t)) \in Word
  <1> DEFINE b == Pow2[ByteBits]
             c == b * b
  <1>1. b \in Nat \ {0} /\ x \in 0 .. (b - 1) /\ y \in 0 .. (b - 1)
        /\ z \in 0 .. (b - 1) /\ t \in 0 .. (b - 1)
    BY Sizes DEF ByteNumber
  <1>2. Modulus = c * c
    BY CpuAssumption
  <1> HIDE DEF b
  <1>3. \A u, v \in 0 .. (b - 1) : u + b * v \in 0 .. (c - 1)
    <2>1. \A u, v \in 0 .. (b - 1) : b * v <= b * (b - 1) /\ b * v >= 0
      BY <1>1
    <2>2. b * (b - 1) = c - b
      BY <1>1
    <2> QED
      BY <1>1, <2>1, <2>2
  <1>4. c \in Nat \ {0} /\ c >= b
    BY <1>1
  <1>5. b * (y + b * (z + b * t)) = b * y + c * (z + b * t)
    BY <1>1
  <1>6. x + b * (y + b * (z + b * t)) = (x + b * y) + c * (z + b * t)
    BY <1>1, <1>5
  <1> HIDE DEF c
  <1>7. \A u, v \in 0 .. (c - 1) : u + c * v \in 0 .. (c * c - 1)
    <2>1. \A u, v \in 0 .. (c - 1) : c * v <= c * (c - 1) /\ c * v >= 0
      BY <1>4
    <2>2. c * (c - 1) = c * c - c
      BY <1>4
    <2> QED
      BY <1>4, <2>1, <2>2
  <1>8. c * c \in Nat /\ c <= c * c
    BY <1>4
  <1>9. x + b * (y + b * (z + b * t)) \in 0 .. (c * c - 1)
    BY <1>3, <1>6, <1>7, <1>1
  <1>10. x + b * y \in 0 .. (c * c - 1) /\ x + b * 0 \in 0 .. (c * c - 1)
         /\ x \in 0 .. (c * c - 1)
    BY <1>1, <1>3, <1>4, <1>8
  <1> QED
    BY <1>2, <1>9, <1>10 DEF Word, b

LEMMA LoadedWord ==
    ASSUME ram \in [Ram -> ByteNumber], NEW a
    PROVE  ReadU32(a) \in Word
  <1>1. \A x : ByteAt(x) \in ByteNumber
    BY Sizes DEF ByteAt, ByteNumber
  <1>2. Modulus - 1 \in Word
    BY Sizes, WordInt DEF Word
  <1> QED
    BY <1>1, <1>2, BytesMakeWords, Zenon DEF ReadU32

LEMMA ReadType ==
    ASSUME ram \in [Ram -> ByteNumber], NEW size \in {1, 2, 4}, NEW a \in Word
    PROVE  Read(size, a) \in Word
  <1>1. \A x : ByteAt(x) \in ByteNumber
    BY Sizes DEF ByteAt, ByteNumber
  <1>2. ReadU8(a) \in Word
    BY <1>1, BytesMakeWords DEF ReadU8
  <1>3. ReadU16(a) \in Word
    BY <1>1, BytesMakeWords DEF ReadU16
  <1>4. ReadU32(a) \in Word
    BY LoadedWord
  <1> QED
    BY <1>2, <1>3, <1>4 DEF Read

LEMMA StoredType ==
    ASSUME ram \in [Ram -> ByteNumber], NEW size \in {1, 2, 4}, NEW a \in Word, NEW v \in Word
    PROVE  Stored(size, a, v) \in [Ram -> ByteNumber]
  <1>1. \A i \in 0 .. 3 : (v \div Pow2[ByteBits * i]) % Pow2[ByteBits] \in ByteNumber
    <2> SUFFICES ASSUME NEW i \in 0 .. 3
                 PROVE  (v \div Pow2[ByteBits * i]) % Pow2[ByteBits] \in ByteNumber
      OBVIOUS
    <2>1. ByteBits * i \in 0 .. WordBits
      BY Sizes
    <2>2. Pow2[ByteBits * i] \in Nat \ {0}
      BY <2>1, WordAssumption
    <2>3. v \div Pow2[ByteBits * i] \in Int
      BY <2>2, WordInt
    <2> HIDE DEF ByteNumber
    <2> QED
      BY <2>3, Sizes, ModOnce DEF ByteNumber
  <1>2. \A x \in Ram : (x - a) % Modulus \in Nat
    BY CpuAssumption, WordInt, Wraps
  <1> QED
    BY <1>1, <1>2 DEF Stored

--------------------------------------------------------------------------------
(* Instructions. *)

LEMMA InstructionFields ==
    ASSUME NEW i \in Instruction
    PROVE  /\ i.op = "alu" => /\ i.fn \in AluNames /\ i.d \in RegNum \cup {Discard}
                             /\ i.a \in Operand /\ i.b \in Operand /\ i.cu \in BOOLEAN
           /\ i.op = "cmp" => /\ i.a \in Operand /\ i.b \in Operand
                             /\ i.tcs \in 0 .. 3 /\ i.cu \in BOOLEAN
           /\ i.op \in {"mul", "mulu", "div", "divu"} => i.a \in RegNum /\ i.b \in RegNum
           /\ i.op \in {"mfce", "mtce"} => /\ i.sel \in {"lo", "hi", "both", "none"}
                                         /\ i.d \in RegNum /\ i.a \in RegNum
           /\ i.op \in {"mfsr", "mtsr", "mfcr", "mtcr"} => i.d \in RegNum /\ i.s \in RegNum
           /\ i.op = "mv" => i.d \in RegNum /\ i.v \in Operand
           /\ i.op = "load" => /\ i.size \in {1, 2, 4} /\ i.d \in RegNum
                              /\ i.base \in RegNum /\ i.disp \in Word
           /\ i.op = "store" => /\ i.size \in {1, 2, 4} /\ i.d \in RegNum
                               /\ i.base \in RegNum /\ i.disp \in Word
           /\ i.op \in {"push", "pop"} => i.d \in RegNum /\ i.base \in RegNum
           /\ i.op = "branch" => i.to \in Target
  BY DEF Instruction, InstructionOn, Operand, Target

LEMMA SlotType ==
    ASSUME name \in DOMAIN Programs, ram \in [Ram -> ByteNumber], NEW a
    PROVE  SlotAt(a) \in Slot
  <1>1. \A x \in DOMAIN Programs[name].code : Programs[name].code[x] \in Slot
    BY CpuAssumption
  <1>2. ReadU32(a) \in Word /\ Decoding \in [Word -> Slot]
    BY LoadedWord, CpuAssumption
  <1> QED
    BY <1>1, <1>2 DEF SlotAt

LEMMA SlotFields ==
    ASSUME NEW s \in Slot
    PROVE  /\ s.high \in Instruction
           /\ s.kind = "long" => s.insn \in Instruction
           /\ s.kind # "long" => s.low \in Instruction
           /\ s.kind \in {"long", "short", "pair"}
  BY DEF Slot, SlotOn, Instruction

(* Whatever pc is, there is an instruction of two or four bytes. *)
LEMMA FetchedType ==
    ASSUME name \in DOMAIN Programs, ram \in [Ram -> ByteNumber], pc \in Word, NEW f \in Fetched
    PROVE  f[1] \in Instruction /\ f[2] \in {2, 4}
  <1> DEFINE s == SlotAt(pc - (pc % 4))
  <1>1. s \in Slot
    BY SlotType
  <1>2. /\ s.high \in Instruction
        /\ s.kind = "long" => s.insn \in Instruction
        /\ s.kind # "long" => s.low \in Instruction
        /\ s.kind \in {"long", "short", "pair"}
    BY <1>1, SlotFields
  <1>5. \/ pc % 4 = 2
        \/ pc % 4 = 0
        \/ pc % 2 = 1
    BY WordInt
  <1>6. pc % 4 = 0 => pc % 4 # 2 /\ pc % 2 # 1
    BY WordInt
  <1>7. pc % 4 = 2 => pc % 2 # 1
    BY WordInt
  <1> HIDE DEF s
  <1>8. CASE pc % 4 = 2
    <2>1. f = <<s.high, 2>>
      BY <1>7, <1>8 DEF Fetched, s
    <2> QED
      BY <2>1, <1>2
  <1>9. CASE pc % 4 = 0
    <2>1. CASE s.kind = "long"
      <3>1. f = <<s.insn, 4>>
        BY <1>6, <1>9, <2>1 DEF Fetched, s
      <3> QED
        BY <3>1, <2>1, <1>2
    <2>2. CASE s.kind = "pair"
      <3>1. f = <<IF flags.T THEN s.low ELSE s.high, 4>>
        BY <1>6, <1>9, <2>2 DEF Fetched, s
      <3> QED
        BY <3>1, <2>2, <1>2
    <2>3. CASE s.kind = "short"
      <3>1. f = <<s.low, 2>>
        BY <1>6, <1>9, <2>3 DEF Fetched, s
      <3> QED
        BY <3>1, <2>3, <1>2
    <2> QED
      BY <2>1, <2>2, <2>3, <1>2
  <1>10. CASE pc % 2 = 1
    <2>1. f \in Instruction \X {2, 4}
      BY <1>6, <1>7, <1>10 DEF Fetched, s
    <2> QED
      BY <2>1
  <1> QED
    BY <1>5, <1>8, <1>9, <1>10

--------------------------------------------------------------------------------
(* What the operands, targets and control registers yield. *)

LEMMA ValueType ==
    ASSUME r \in [RegNum -> Word], NEW o \in Operand
    PROVE  Value(o) \in Word
  BY DEF Value, Operand, OperandOn

LEMMA AdvanceType ==
    ASSUME pc \in Word, NEW n \in {2, 4}, Advance(n)
    PROVE  pc' \in Word
  BY Wraps, WordInt DEF Advance

LEMMA OutcomesType ==
    ASSUME flags \in Flags, NEW fn \in AluNames, NEW a \in Word, NEW b \in Word,
           NEW cu \in BOOLEAN, NEW o \in Outcomes(fn, a, b, cu)
    PROVE  o \in Outcome
  <1>1. /\ BitAnd(a, b) \in Word /\ BitOr(a, b) \in Word /\ BitXor(a, b) \in Word
    BY BitwiseAssumption
  <1>2. /\ SignExtend(a, ByteBits) \in Word /\ SignExtend(a, 2 * ByteBits) \in Word
    <2>1. 1 * ByteBits \in 1 .. WordBits /\ 2 * ByteBits \in 1 .. WordBits
      BY Sizes
    <2>2. 1 * ByteBits = ByteBits
      BY CpuAssumption
    <2> QED
      BY <2>1, <2>2, SignExtendType
  <1>3. b % 256 \in Nat
    BY WordInt
  <1>4. /\ Sll(flags, a, b % 256, cu) \subseteq Outcome
        /\ Srl(flags, a, b % 256, cu) \subseteq Outcome
        /\ Sra(flags, a, b % 256, cu) \subseteq Outcome
    BY <1>3, ShiftTypes
  <1>5. /\ Add(flags, a, b, cu) \in Outcome /\ Sub(flags, a, b, cu) \in Outcome
        /\ Addc(flags, a, b, cu) \in Outcome /\ Subc(flags, a, b, cu) \in Outcome
    BY AddSubType, AddcType
  <1>6. \A x \in Word : BitOp(flags, x, cu) \in Outcome
    BY BitOpType
  <1> QED
    BY <1>1, <1>2, <1>4, <1>5, <1>6 DEF Outcomes, AluNames

LEMMA FlagBitsType ==
    ASSUME NEW f \in Flags
    PROVE  FlagBits(f) \in 0 .. 31
  BY DEF FlagBits, Num

LEMMA ControlValueType ==
    ASSUME flags \in Flags, cr \in [RegNum -> Word], cr[1] % 32 = 0, NEW k \in RegNum
    PROVE  ControlValue(k) \in Word
  <1>1. cr[1] + FlagBits(flags) \in Word
    <2>1. FlagBits(flags) \in 0 .. 31 /\ cr[1] \in Word /\ cr[1] % 32 = 0
      BY FlagBitsType DEF RegNum
    <2> QED
      BY <2>1, Sizes DEF Word
  <1> QED
    BY <1>1 DEF ControlValue

LEMMA ConditionalType ==
    ASSUME NEW p, NEW f \in Flags, NEW cnt, NEW dec
    PROVE  Conditional(p, f, cnt, dec) \in BOOLEAN
  BY DEF Conditional, CntHolds, FlagsHold, Flags

LEMMA TargetType ==
    ASSUME CpuTypeOK, NEW to \in Target
    PROVE  TargetOf(to) \in Word
  <1>1. pc \in Int /\ r \in [RegNum -> Word] /\ cr[5] \in Word
    BY WordInt DEF CpuTypeOK, RegNum
  <1>2. NearSpan \in Nat \ {0} /\ FarSpan \in Nat \ {0}
    BY CpuAssumption
  <1>3. CASE to \in ({"rel", "near", "far"} \X Word)
    <2>1. to[2] \in Int /\ to[1] \in {"rel", "near", "far"}
      BY <1>3, WordInt
    <2>2. /\ pc + to[2] \in Int
          /\ pc - (pc % NearSpan) + to[2] \in Int
          /\ pc - (pc % FarSpan) + to[2] \in Int
      BY <1>1, <1>2, <2>1
    <2> QED
      BY <2>1, <2>2, Wraps DEF TargetOf
  <1>4. CASE to \in {"reg"} \X RegNum
    BY <1>1, <1>4 DEF TargetOf
  <1>5. CASE to = <<"epc", 0>>
    BY <1>1, <1>5 DEF TargetOf
  <1> QED
    BY <1>3, <1>4, <1>5 DEF Target, TargetOn

--------------------------------------------------------------------------------
(* Every instruction keeps the types. *)

LEMMA MovedType ==
    ASSUME NEW i, i.base \in RegNum, i.disp \in Word, NEW regs \in [RegNum -> Word]
    PROVE  Moved(i, regs) \in [RegNum -> Word]
  <1>1. (regs[i.base] + i.disp) % Modulus \in Word
    BY Wraps, WordInt
  <1> QED
    BY <1>1 DEF Moved

LEMMA AccessType ==
    ASSUME r \in [RegNum -> Word], NEW i, i.base \in RegNum, i.disp \in Word
    PROVE  AccessAddress(i) \in Word /\ Before(i) \in [RegNum -> Word]
  <1>1. Before(i) \in [RegNum -> Word]
    BY MovedType DEF Before
  <1>2. (r[i.base] + i.disp) % Modulus \in Word
    BY Wraps, WordInt
  <1> QED
    BY <1>1, <1>2 DEF AccessAddress

LEMMA ExecType ==
    ASSUME CpuTypeOK, NEW i \in Instruction, NEW n \in {2, 4},
           status = "running", UNCHANGED name, Exec(i, n)
    PROVE  CpuTypeOK'
  <1> USE DEF CpuTypeOK
  <1>0. /\ r \in [RegNum -> Word] /\ sr \in [RegNum -> Word] /\ cr \in [RegNum -> Word]
        /\ pc \in Word /\ ram \in [Ram -> ByteNumber] /\ flags \in Flags
        /\ Advance(n) => pc' \in Word
    BY AdvanceType
  <1>1. CASE Nop(i, n)
    BY <1>0, <1>1 DEF Nop
  <1>2. CASE Dump(i)
    BY <1>2 DEF Dump
  <1>3. CASE AluStep(i, n)
    <2>1. /\ i.fn \in AluNames /\ i.d \in RegNum \cup {Discard}
          /\ i.a \in Operand /\ i.b \in Operand /\ i.cu \in BOOLEAN
      BY <1>3, InstructionFields DEF AluStep
    <2>2. PICK o \in Outcomes(i.fn, Value(i.a), Value(i.b), i.cu) :
             r' = Keep(i.d, o.res) /\ flags' = o.flags
      BY <1>3 DEF AluStep
    <2>3. o \in Outcome
      BY <2>1, <2>2, ValueType, OutcomesType
    <2>4. r' \in [RegNum -> Word] /\ flags' \in Flags
      BY <2>1, <2>2, <2>3 DEF Keep, Outcome
    <2> QED
      BY <1>0, <1>3, <2>4 DEF AluStep
  <1>4. CASE Compare(i, n)
    <2>1. flags' \in Flags
      BY <1>4, InstructionFields, ValueType, CmpType DEF Compare
    <2> QED
      BY <1>0, <1>4, <2>1 DEF Compare
  <1>5. CASE Multiply(i, n)
    <2>1. i.a \in RegNum /\ i.b \in RegNum
      BY <1>5, InstructionFields DEF Multiply
    <2>2. r[i.a] \in 0 .. (Modulus - 1) /\ r[i.b] \in 0 .. (Modulus - 1) /\ Modulus \in Nat \ {0}
      BY <2>1, Sizes DEF Word
    <2> DEFINE p == r[i.a] * r[i.b]
    <2>3. p \div Modulus \in Word /\ p \in Nat
      BY <2>2, ProductHigh DEF Word
    <2> HIDE DEF p
    <2>4. p % Modulus \in Word
      BY <2>3, Wraps
    <2>5. ce' \in [H : Word, L : Word]
      BY <1>5, <2>3, <2>4 DEF Multiply, Products, p
    <2> QED
      BY <1>0, <1>5, <2>5 DEF Multiply
  <1>6. CASE Divide(i, n)
    <2>1. i.a \in RegNum /\ i.b \in RegNum
      BY <1>6, InstructionFields DEF Divide
    <2>2. CASE r[i.b] = 0
      BY <1>6, <2>2 DEF Divide
    <2>3. CASE r[i.b] # 0
      <3> DEFINE a == r[i.a]
                 b == r[i.b]
      <3>1. a \in 0 .. (Modulus - 1) /\ b \in 1 .. (Modulus - 1) /\ Modulus \in Nat \ {0}
        BY <2>1, <2>3, Sizes DEF Word
      <3>2. ce' = [H |-> a % b, L |-> a \div b]
        BY <1>6, <2>3 DEF Divide
      <3> HIDE DEF a, b
      <3>3. a \div b \in Word
        <4>1. b \in Nat \ {0}
          BY <3>1
        <4>2. a \div b \in 0 .. (Modulus - 1)
          BY <3>1, <4>1, DivSmaller
        <4> QED
          BY <4>2 DEF Word
      <3>4. a % b \in Word
        <4>1. a % b \in 0 .. (b - 1)
          BY <3>1
        <4> QED
          BY <3>1, <4>1 DEF Word
      <3> QED
        BY <1>0, <1>6, <2>3, <3>2, <3>3, <3>4 DEF Divide
    <2> QED
      BY <2>2, <2>3
  <1>7. CASE FromEngine(i, n)
    <2>1. r' \in [RegNum -> Word]
      BY <1>7, InstructionFields DEF FromEngine
    <2> QED
      BY <1>0, <1>7, <2>1 DEF FromEngine
  <1>8. CASE ToEngine(i, n)
    <2>1. ce' \in [H : Word, L : Word]
      BY <1>8, InstructionFields DEF ToEngine
    <2> QED
      BY <1>0, <1>8, <2>1 DEF ToEngine
  <1>9. CASE MoveSpecial(i, n)
    <2>1. r' \in [RegNum -> Word] /\ sr' \in [RegNum -> Word]
      BY <1>9, InstructionFields DEF MoveSpecial
    <2> QED
      BY <1>0, <1>9, <2>1 DEF MoveSpecial
  <1>10. CASE FromControl(i, n)
    <2>1. r' \in [RegNum -> Word]
      BY <1>10, InstructionFields, ControlValueType DEF FromControl
    <2> QED
      BY <1>0, <1>10, <2>1 DEF FromControl
  <1>11. CASE ToControl(i, n)
    <2>1. i.d \in RegNum /\ i.s \in RegNum /\ r[i.d] \in Word
      BY <1>11, InstructionFields DEF ToControl
    <2>2. FlagsIn(r[i.d]) \in Flags
      BY DEF FlagsIn, Flags
    <2>3. r[i.d] - (r[i.d] % 32) \in Word /\ (r[i.d] - (r[i.d] % 32)) % 32 = 0
      BY <2>1, Sizes DEF Word
    <2>4. cr' \in [RegNum -> Word] /\ cr'[1] % 32 = 0 /\ flags' \in Flags
      BY <1>0, <1>11, <2>1, <2>2, <2>3 DEF ToControl, RegNum
    <2> QED
      BY <1>0, <1>11, <2>4 DEF ToControl
  <1>12. CASE SetT(i, n)
    <2>1. flags' \in Flags
      BY <1>0, <1>12, ConditionalType, Zenon DEF SetT, Flags
    <2> QED
      BY <1>0, <1>12, <2>1 DEF SetT
  <1>13. CASE Move(i, n)
    <2>1. r' \in [RegNum -> Word]
      BY <1>0, <1>13, InstructionFields, ValueType DEF Move
    <2> QED
      BY <1>0, <1>13, <2>1 DEF Move
  <1>14. CASE Load(i, n)
    <2>1. /\ i.size \in {1, 2, 4} /\ i.d \in RegNum /\ i.base \in RegNum /\ i.disp \in Word
      BY <1>14, InstructionFields DEF Load
    <2> DEFINE x == Read(i.size, AccessAddress(i))
               v == IF i.signed THEN SignExtend(x, i.size * ByteBits) ELSE x
               loaded == [Before(i) EXCEPT ![i.d] = v]
    <2>2. x \in Word
      BY <1>0, <2>1, AccessType, ReadType
    <2>3. v \in Word
      BY <2>1, <2>2, Sizes, SignExtendType
    <2>4. loaded \in [RegNum -> Word]
      BY <1>0, <2>1, <2>3, AccessType
    <2>5. r' = IF i.mode = "post" THEN Moved(i, loaded) ELSE loaded
      BY <1>14 DEF Load
    <2> HIDE DEF loaded
    <2>6. r' \in [RegNum -> Word]
      BY <2>1, <2>4, <2>5, MovedType
    <2> QED
      BY <1>0, <1>14, <2>6 DEF Load
  <1>15. CASE Store(i, n)
    <2>1. /\ i.size \in {1, 2, 4} /\ i.d \in RegNum /\ i.base \in RegNum /\ i.disp \in Word
      BY <1>15, InstructionFields DEF Store
    <2>2. AccessAddress(i) \in Word /\ Before(i) \in [RegNum -> Word]
      BY <1>0, <2>1, AccessType
    <2>3. ram' \in [Ram -> ByteNumber]
      BY <1>0, <1>15, <2>1, <2>2, StoredType DEF Store
    <2>4. r' \in [RegNum -> Word]
      BY <1>0, <1>15, <2>1, <2>2, MovedType DEF Store
    <2> QED
      BY <1>0, <1>15, <2>3, <2>4 DEF Store
  <1>16. CASE Push(i, n)
    <2>1. i.d \in RegNum /\ i.base \in RegNum
      BY <1>16, InstructionFields DEF Push
    <2>2. (r[i.base] - 4) % Modulus \in Word
      BY <1>0, <2>1, Wraps, WordInt
    <2>3. r' \in [RegNum -> Word]
      BY <1>0, <1>16, <2>2 DEF Push
    <2>4. ram' \in [Ram -> ByteNumber]
      BY <1>0, <1>16, <2>1, <2>3, StoredType DEF Push
    <2> QED
      BY <1>0, <1>16, <2>3, <2>4 DEF Push
  <1>17. CASE Pop(i, n)
    <2>1. i.d \in RegNum /\ i.base \in RegNum
      BY <1>17, InstructionFields DEF Pop
    <2> DEFINE popped == [r EXCEPT ![i.d] = ReadU32(r[i.base])]
    <2>2. ReadU32(r[i.base]) = Read(4, r[i.base])
      BY DEF Read
    <2>3. popped \in [RegNum -> Word]
      BY <1>0, <2>1, <2>2, ReadType
    <2>4. r' = [popped EXCEPT ![i.base] = (@ + 4) % Modulus]
      BY <1>17 DEF Pop
    <2> HIDE DEF popped
    <2>5. (popped[i.base] + 4) % Modulus \in Word
      BY <2>1, <2>3, Wraps, WordInt
    <2>6. r' \in [RegNum -> Word]
      BY <2>3, <2>4, <2>5
    <2> QED
      BY <1>0, <1>17, <2>6 DEF Pop
  <1>18. CASE Branch(i, n)
    <2>1. i.to \in Target
      BY <1>18, InstructionFields DEF Branch
    <2>2. CNT \in Word
      BY <1>0 DEF CNT, RegNum
    <2>3. CntAfter(i.cond, CNT, 1) \in Word
      BY <2>2, Sizes DEF CntAfter, Word
    <2>4. sr' \in [RegNum -> Word]
      BY <1>0, <1>18, <2>3 DEF Branch
    <2>5. (pc + n) % Modulus \in Word
      BY <1>0, Wraps, WordInt
    <2>6. pc' \in Word /\ r' \in [RegNum -> Word]
      BY <1>0, <1>18, <2>1, <2>5, TargetType DEF Branch
    <2> QED
      BY <1>0, <1>18, <2>4, <2>6 DEF Branch
  <1> QED
    BY <1>1, <1>2, <1>3, <1>4, <1>5, <1>6, <1>7, <1>8, <1>9, <1>10, <1>11, <1>12,
       <1>13, <1>14, <1>15, <1>16, <1>17, <1>18 DEF Exec

LEMMA InterruptType ==
    ASSUME CpuTypeOK, NEW cause \in Causes, Interrupt(cause)
    PROVE  CpuTypeOK'
  <1> DEFINE c == (63 - cause + 128) % 256
             field == (cr[2] \div CauseUnit) % 64
             new == cr[2] + ((c % 64) - field) * CauseUnit
  <1>1. /\ cause \in 0 .. 255 /\ CauseUnit \in Nat \ {0}
    BY CpuAssumption
  <1>2. cr[2] \in Word /\ cr[3] \in Word /\ pc \in Word /\ cr \in [RegNum -> Word]
    BY DEF CpuTypeOK, RegNum
  <1>3. c \in Int /\ cr[3] + c * 4 \in Int
    BY <1>1, <1>2, WordInt
  <1>4. new \in Int
    <2>1. field \in Int
      BY <1>1, <1>2, WordInt
    <2> QED
      BY <1>1, <1>2, <1>3, <2>1, WordInt
  <1>5. Exception(c) /\ status = "running" /\ UNCHANGED name
    BY DEF Interrupt
  <1>6. /\ cr' = [cr EXCEPT ![2] = new % Modulus, ![5] = pc]
        /\ pc' = (cr[3] + c * 4) % Modulus
    BY <1>5 DEF Exception
  <1> HIDE DEF c, new
  <1>7. pc' \in Word /\ new % Modulus \in Word
    BY <1>3, <1>4, <1>6, Wraps
  <1>8. cr' \in [RegNum -> Word] /\ cr'[1] = cr[1]
    BY <1>2, <1>6, <1>7 DEF RegNum
  <1> QED
    BY <1>5, <1>7, <1>8 DEF CpuTypeOK, Exception

LEMMA InitType == Init => CpuTypeOK
  <1>1. 0 \in Word /\ DebugControl \in Word /\ NoFlags \in Flags /\ 0 % 32 = 0
    BY Sizes, CpuAssumption DEF Word, NoFlags, Flags
  <1>2. \A p \in DOMAIN Programs : Programs[p].entry \in Word /\ Programs[p].ram \in [Ram -> ByteNumber]
    BY CpuAssumption DEF SlotAddress
  <1> QED
    BY <1>1, <1>2 DEF Init, CpuTypeOK, RegNum

LEMMA StepType ==
    ASSUME CpuTypeOK, NEW f \in Fetched, Step(f[1], f[2])
    PROVE  CpuTypeOK'
  <1>1. f[1] \in Instruction /\ f[2] \in {2, 4}
    BY FetchedType DEF CpuTypeOK
  <1> QED
    BY <1>1, ExecType DEF Step

(* Whatever the program, registers, flags, memory and pc keep their widths, *)
(* and the flags share cr1 with what mtcr puts above them without mixing.   *)
THEOREM CpuTypeCorrect == Spec => []CpuTypeOK
  <1>1. CpuTypeOK /\ [Next]_vars => CpuTypeOK'
    <2> SUFFICES ASSUME CpuTypeOK, [Next]_vars PROVE CpuTypeOK'
      OBVIOUS
    <2>1. CASE \E f \in Fetched : Step(f[1], f[2])
      BY <2>1, StepType
    <2>2. CASE \E c \in Causes : Interrupt(c)
      BY <2>2, InterruptType
    <2>3. CASE UNCHANGED vars
      BY <2>3 DEF vars, CpuTypeOK
    <2> QED
      BY <2>1, <2>2, <2>3 DEF Next
  <1> QED
    BY <1>1, InitType, PTL DEF Spec

--------------------------------------------------------------------------------
(* Where an instruction goes: behind itself by its length, or, a branch that *)
(* is taken, to its target, leaving its link in r3.  Any other instruction   *)
(* may end the process, where it stands.                                     *)
LEMMA StepGoes ==
    ASSUME NEW i, NEW n, Step(i, n)
    PROVE  /\ Taken(i) => /\ pc' = TargetOf(i.to) /\ status' = "running"
                          /\ r' = IF i.link THEN [r EXCEPT ![3] = (pc + n) % Modulus] ELSE r
                          /\ cr' = cr /\ ram' = ram
           /\ ~Taken(i) => pc' = (pc + n) % Modulus \/ (pc' = pc /\ status' # "running")
  <1>1. status = "running" /\ Exec(i, n)
    BY DEF Step
  <1>2. CASE Branch(i, n)
    <2>1. i.op = "branch"
      BY <1>2 DEF Branch
    <2>2. CASE Conditional(i.cond, flags, CNT, 1)
      BY <1>1, <1>2, <2>1, <2>2 DEF Branch, Taken
    <2>3. CASE ~Conditional(i.cond, flags, CNT, 1)
      BY <1>2, <2>1, <2>3 DEF Branch, Taken, Advance
    <2> QED
      BY <2>2, <2>3
  <1>3. CASE Dump(i)
    <2>1. i.op = "dump" /\ pc' = pc /\ status' = "dumped"
      BY <1>3 DEF Dump
    <2> QED
      BY <2>1 DEF Taken
  <1>4. CASE Divide(i, n)
    <2>1. i.op \in {"div", "divu"}
      BY <1>4 DEF Divide
    <2>2. pc' = (pc + n) % Modulus \/ (pc' = pc /\ status' = "trapped")
      BY <1>4 DEF Divide, Advance
    <2> QED
      BY <2>1, <2>2 DEF Taken
  <1>5. CASE ~Branch(i, n) /\ ~Dump(i) /\ ~Divide(i, n)
    <2>1. i.op # "branch"
      BY <1>1, <1>5 DEF Exec, Nop, AluStep, Compare, Multiply, FromEngine, ToEngine, MoveSpecial,
         FromControl, ToControl, SetT, Move, Load, Store, Push, Pop
    <2>2. Advance(n)
      BY <1>1, <1>5, Zenon DEF Exec, Nop, AluStep, Compare, Multiply, FromEngine, ToEngine,
         MoveSpecial, FromControl, ToControl, SetT, Move, Load, Store, Push, Pop
    <2> QED
      BY <2>1, <2>2 DEF Taken, Advance
  <1> QED
    BY <1>2, <1>3, <1>4, <1>5

(* The length of what is fetched at an even address, by the kind of its slot. *)
LEMMA FetchedLength ==
    ASSUME name \in DOMAIN Programs, ram \in [Ram -> ByteNumber], pc \in Word, NEW f \in Fetched
    PROVE  /\ pc % 4 = 2 => f[2] = 2
           /\ pc % 4 = 0 => f[2] = IF SlotAt(pc - (pc % 4)).kind = "short" THEN 2 ELSE 4
  <1> DEFINE s == SlotAt(pc - (pc % 4))
  <1>1. s.kind \in {"long", "short", "pair"}
    BY SlotType, SlotFields
  <1>2. (pc % 4 = 0 => pc % 4 # 2 /\ pc % 2 # 1) /\ (pc % 4 = 2 => pc % 2 # 1)
    BY WordInt
  <1> HIDE DEF s
  <1>3. ASSUME pc % 4 = 2 PROVE f[2] = 2
    <2>1. f = <<s.high, 2>>
      BY <1>2, <1>3 DEF Fetched, s
    <2> QED
      BY <2>1
  <1>4. ASSUME pc % 4 = 0, s.kind = "short" PROVE f[2] = 2
    <2>1. f = <<s.low, 2>>
      BY <1>2, <1>4 DEF Fetched, s
    <2> QED
      BY <2>1
  <1>5. ASSUME pc % 4 = 0, s.kind = "long" PROVE f[2] = 4
    <2>1. f = <<s.insn, 4>>
      BY <1>2, <1>5 DEF Fetched, s
    <2> QED
      BY <2>1
  <1>6. ASSUME pc % 4 = 0, s.kind = "pair" PROVE f[2] = 4
    <2>1. f = <<IF flags.T THEN s.low ELSE s.high, 4>>
      BY <1>2, <1>6 DEF Fetched, s
    <2> QED
      BY <2>1
  <1> QED
    BY <1>1, <1>3, <1>4, <1>5, <1>6 DEF s

(* From where an instruction begins, its length leads to where one does.     *)
LEMMA LengthsLead ==
    ASSUME name \in DOMAIN Programs, ram \in [Ram -> ByteNumber], pc \in Boundary, NEW f \in Fetched
    PROVE  (pc + f[2]) % Modulus \in Boundary
  <1> DEFINE s == SlotAt(pc - (pc % 4))
  <1>1. /\ pc \in Word /\ pc \in Nat /\ Modulus \in Nat \ {0} /\ Modulus % 4 = 0
        /\ pc < Modulus /\ Modulus >= 32
    BY Sizes, WordInt DEF Boundary, SlotAddress, Word
  <1>2. s.kind \in {"long", "short", "pair"}
    BY SlotType, SlotFields
  <1>3. ASSUME NEW x \in 0 .. (Modulus + 3), x % 4 = 0 PROVE (x % Modulus) \in Boundary
    <2>1. x % Modulus \in Word
      BY Wraps
    <2>2. (x % Modulus) % 4 = 0
      <3>1. x \in 0 .. (Modulus - 1) \/ x \in Modulus .. (2 * Modulus - 1)
        BY <1>1
      <3>2. x % Modulus = x \/ x % Modulus = x - Modulus
        <4>1. x \in Int
          BY <1>1
        <4>2. /\ x \in 0 .. (Modulus - 1) => x % Modulus = x
              /\ x \in Modulus .. (2 * Modulus - 1) => x % Modulus = x - Modulus
          BY <1>1, <4>1, ModOnce
        <4> QED
          BY <3>1, <4>2
      <3>3. (x - Modulus) % 4 = 0
        BY <1>1, <1>3
      <3> QED
        BY <1>3, <3>2, <3>3
    <2> QED
      BY <2>1, <2>2 DEF Boundary, SlotAddress
  <1>4. CASE pc % 4 = 0 /\ s.kind # "short"
    <2>1. f[2] = 4
      BY <1>1, <1>4, FetchedLength
    <2>2. pc + 4 \in 0 .. (Modulus + 3) /\ (pc + 4) % 4 = 0
      BY <1>1, <1>4
    <2> QED
      BY <1>3, <2>1, <2>2
  <1>5. CASE pc % 4 = 0 /\ s.kind = "short"
    <2>1. f[2] = 2
      BY <1>1, <1>5, FetchedLength
    <2>2. pc + 2 < Modulus /\ (pc + 2) % 4 = 2 /\ pc - (pc % 4) = pc
      BY <1>1, <1>5
    <2>3. (pc + 2) % Modulus = pc + 2 /\ pc + 2 \in Word /\ (pc + 2) - 2 = pc
      BY <1>1, <2>2 DEF Word
    <2> QED
      BY <1>5, <2>1, <2>2, <2>3 DEF Boundary
  <1>6. CASE pc % 4 = 2
    <2>1. f[2] = 2
      BY <1>1, <1>6, FetchedLength
    <2>2. pc + 2 \in 0 .. (Modulus + 3) /\ (pc + 2) % 4 = 0
      BY <1>1, <1>6
    <2> QED
      BY <1>3, <2>1, <2>2
  <1> QED
    BY <1>1, <1>4, <1>5, <1>6 DEF Boundary, SlotAddress

(* What an interrupt writes. *)
LEMMA InterruptSaves ==
    ASSUME CpuTypeOK, NEW c, Interrupt(c)
    PROVE  r' = r /\ cr'[5] = pc
  BY DEF Interrupt, Exception, CpuTypeOK, RegNum

BoundaryInv == CpuTypeOK /\ OnBoundary

LEMMA BoundaryInit == Init => BoundaryInv
  <1> SUFFICES ASSUME Init PROVE BoundaryInv
    OBVIOUS
  <1>1. CpuTypeOK /\ pc \in SlotAddress
    BY InitType, CpuAssumption DEF Init
  <1>2. r[3] = 0 /\ cr[5] = 0 /\ 0 \in SlotAddress
    BY Sizes DEF Init, RegNum, SlotAddress, Word
  <1> QED
    BY <1>1, <1>2 DEF BoundaryInv, OnBoundary, Boundary

LEMMA BoundaryStep ==
    ASSUME BoundaryInv, [Next]_vars, [Disciplined]_vars
    PROVE  BoundaryInv'
  <1>0. CpuTypeOK /\ {pc, r[3], cr[5]} \subseteq Boundary /\ name \in DOMAIN Programs
    BY DEF BoundaryInv, OnBoundary, CpuTypeOK
  <1>1. CpuTypeOK'
    BY <1>0, StepType, InterruptType DEF Next, vars, CpuTypeOK
  <1>2. CASE UNCHANGED vars
    <2>1. pc' = pc /\ r' = r /\ cr' = cr /\ name' = name /\ ram' = ram
      BY <1>2 DEF vars
    <2>2. \A a : SlotAt(a)' = SlotAt(a)
      BY <2>1, Zenon DEF SlotAt, ReadU32, ByteAt
    <2>3. Boundary' = Boundary
      BY <2>2, Zenon DEF Boundary
    <2> QED
      BY <1>0, <1>1, <2>1, <2>3, Zenon DEF BoundaryInv, OnBoundary
  <1>3. ASSUME NEW f \in Fetched, Step(f[1], f[2]), Disciplined
        PROVE  {pc', r'[3], cr'[5]} \subseteq Boundary
    <2>1. (pc + f[2]) % Modulus \in Boundary
      BY <1>0, LengthsLead DEF CpuTypeOK
    <2>2. CASE Taken(f[1])
      <3>1. /\ pc' = TargetOf(f[1].to) /\ cr' = cr
            /\ r' = IF f[1].link THEN [r EXCEPT ![3] = (pc + f[2]) % Modulus] ELSE r
        BY <1>3, <2>2, StepGoes
      <3>2. r'[3] \in Boundary /\ cr'[5] \in Boundary
        BY <1>0, <2>1, <3>1 DEF CpuTypeOK, RegNum
      <3>3. pc' \in Boundary
        <4>1. CASE f[1].to = <<"reg", 3>>
          BY <1>0, <3>1, <4>1 DEF TargetOf
        <4>2. CASE f[1].to = <<"epc", 0>>
          BY <1>0, <3>1, <4>2 DEF TargetOf
        <4> QED
          BY <1>3, <2>2, <4>1, <4>2 DEF Disciplined
      <3> QED
        BY <3>2, <3>3
    <2>3. CASE ~Taken(f[1])
      <3>1. pc' \in Boundary
        BY <1>0, <1>3, <2>1, <2>3, StepGoes
      <3>2. r'[3] \in Boundary /\ cr'[5] \in Boundary
        BY <1>0, <1>3, <2>3 DEF Disciplined
      <3> QED
        BY <3>1, <3>2
    <2> QED
      BY <2>2, <2>3
  <1>4. ASSUME NEW c \in Causes, Interrupt(c), Disciplined
        PROVE  {pc', r'[3], cr'[5]} \subseteq Boundary
    BY <1>0, <1>4, InterruptSaves DEF Disciplined
  <1>5. CASE ~UNCHANGED vars
    <2>1. /\ {pc', r'[3], cr'[5]} \subseteq Boundary
          /\ {pc', r'[3], cr'[5]} \cap Boundary \subseteq Boundary'
      BY <1>3, <1>4, <1>5 DEF Next, Disciplined
    <2> QED
      BY <1>1, <2>1 DEF BoundaryInv, OnBoundary
  <1> QED
    BY <1>2, <1>5

(* Whatever the program, only what it does itself can lead it off the       *)
(* boundaries of its instructions: lengths, links, and the place that an    *)
(* exception saves, never do.                                               *)
THEOREM DisciplineKeepsBoundaries == Spec /\ StaysDisciplined => []OnBoundary
  <1>1. BoundaryInv => OnBoundary
    BY DEF BoundaryInv
  <1> QED
    BY <1>1, BoundaryInit, BoundaryStep, PTL DEF Spec, StaysDisciplined
================================================================================
