---------------------------- MODULE PreemptionProofs ----------------------------
(***************************************************************************)
(* Theorems about Preemption: programs that keep apart from their handlers *)
(* do not notice interrupts.                                               *)
(***************************************************************************)
EXTENDS Preemption, CpuProofs, SequenceTheorems

(* No handler runs, before and after a step. *)
Calm ==
    /\ Seen.r = r /\ Seen.flags = flags /\ Seen.cr = cr /\ Seen.sr = sr
    /\ Seen.ce = ce /\ Seen.pc = pc /\ Seen.ram = ram
    /\ (Seen.r)' = r' /\ (Seen.flags)' = flags' /\ (Seen.cr)' = cr' /\ (Seen.sr)' = sr'
    /\ (Seen.ce)' = ce' /\ (Seen.pc)' = pc' /\ (Seen.ram)' = ram'

--------------------------------------------------------------------------------
(* Undisturbed has the processor's definitions once more. *)
LEMMA UndisturbedShifts ==
    ASSUME NEW f, NEW a, NEW n, NEW cu
    PROVE  /\ Undisturbed!Sll(f, a, n, cu) = Sll(f, a, n, cu)
           /\ Undisturbed!Srl(f, a, n, cu) = Srl(f, a, n, cu)
           /\ Undisturbed!Sra(f, a, n, cu) = Sra(f, a, n, cu)
  BY DEF Undisturbed!Modulus, Modulus, Undisturbed!SignBit, SignBit, Undisturbed!Word, Word,
         Undisturbed!Bit, Bit, Undisturbed!Negative, Negative, Undisturbed!Signed, Signed,
         Undisturbed!BasicFlags, BasicFlags, Undisturbed!ShiftOutcomes, ShiftOutcomes,
         Undisturbed!RightCarries, RightCarries, Undisturbed!Sll, Sll, Undisturbed!Srl, Srl,
         Undisturbed!Sra, Sra

LEMMA UndisturbedArithmetic ==
    ASSUME NEW f, NEW a, NEW b, NEW cu
    PROVE  /\ Undisturbed!Add(f, a, b, cu) = Add(f, a, b, cu)
           /\ Undisturbed!Addc(f, a, b, cu) = Addc(f, a, b, cu)
           /\ Undisturbed!Sub(f, a, b, cu) = Sub(f, a, b, cu)
           /\ Undisturbed!Subc(f, a, b, cu) = Subc(f, a, b, cu)
           /\ Undisturbed!BitOp(f, a, cu) = BitOp(f, a, cu)
           /\ Undisturbed!SignExtend(a, b) = SignExtend(a, b)
           /\ \A t : Undisturbed!Cmp(f, a, b, t, cu) = Cmp(f, a, b, t, cu)
  BY Zenon DEF Undisturbed!Modulus, Modulus,
         Undisturbed!SignBit, SignBit, Undisturbed!Ones, Ones, Undisturbed!Negative, Negative,
         Undisturbed!Carry, Carry, Undisturbed!SignExtend, SignExtend,
         Undisturbed!BasicFlags, BasicFlags, Undisturbed!Add, Add, Undisturbed!Sub, Sub,
         Undisturbed!Addc, Addc, Undisturbed!Subc, Subc, Undisturbed!BitOp, BitOp,
         Undisturbed!Cmp, Cmp

LEMMA UndisturbedConditions ==
    ASSUME NEW p, NEW f, NEW c, NEW d
    PROVE  /\ Undisturbed!Conditional(p, f, c, d) = Conditional(p, f, c, d)
           /\ Undisturbed!CntAfter(p, c, d) = CntAfter(p, c, d)
  BY Zenon DEF Undisturbed!CntPattern, CntPattern, Undisturbed!CntHolds, CntHolds,
         Undisturbed!CntAfter, CntAfter, Undisturbed!FlagsHold, FlagsHold,
         Undisturbed!Conditional, Conditional, Undisturbed!Modulus, Modulus

LEMMA UndisturbedOutcomes ==
    ASSUME Calm, NEW fn, NEW a, NEW b, NEW cu
    PROVE  Undisturbed!Outcomes(fn, a, b, cu) = Outcomes(fn, a, b, cu)
  BY UndisturbedShifts, UndisturbedArithmetic, Zenon
     DEF Undisturbed!Outcomes, Outcomes, Calm

(* What its definitions read of the registers. *)
LEMMA UndisturbedReads ==
    ASSUME Calm
    PROVE  /\ Undisturbed!CNT = CNT
           /\ \A o : Undisturbed!Value(o) = Value(o)
           /\ \A d, v : Undisturbed!Keep(d, v) = Keep(d, v)
           /\ \A n : Undisturbed!Advance(n) <=> Advance(n)
           /\ \A i : Undisturbed!Before(i) = Before(i)
           /\ \A i : Undisturbed!AccessAddress(i) = AccessAddress(i)
           /\ \A i, x : Undisturbed!Moved(i, x) = Moved(i, x)
           /\ Undisturbed!Modulus = Modulus
           /\ \A x : Undisturbed!FlagsIn(x) = FlagsIn(x)
  <1> USE DEF Calm, Undisturbed!Modulus, Modulus
  <1>1. Undisturbed!CNT = CNT /\ Undisturbed!Modulus = Modulus
    BY Zenon DEF Undisturbed!CNT, CNT
  <1>2. \A o : Undisturbed!Value(o) = Value(o)
    BY Zenon DEF Undisturbed!Value, Value
  <1>3. \A d, v : Undisturbed!Keep(d, v) = Keep(d, v)
    BY Zenon DEF Undisturbed!Keep, Keep, Undisturbed!Discard, Discard
  <1>4. \A n : Undisturbed!Advance(n) <=> Advance(n)
    BY Zenon DEF Undisturbed!Advance, Advance
  <1>5. \A i, x : Undisturbed!Moved(i, x) = Moved(i, x)
    BY Zenon DEF Undisturbed!Moved, Moved
  <1>6. \A i : Undisturbed!Before(i) = Before(i)
    BY <1>5, Zenon DEF Undisturbed!Before, Before
  <1>7. \A i : Undisturbed!AccessAddress(i) = AccessAddress(i)
    BY <1>6, Zenon DEF Undisturbed!AccessAddress, AccessAddress
  <1>8. \A x : Undisturbed!FlagsIn(x) = FlagsIn(x)
    BY Zenon DEF Undisturbed!FlagsIn, FlagsIn
  <1> QED
    BY <1>1, <1>2, <1>3, <1>4, <1>5, <1>6, <1>7, <1>8

(* What else a step leaves alone. *)
LEMMA UndisturbedKeeps ==
    ASSUME Calm
    PROVE  /\ cr' = cr => UNCHANGED [Seen.cr EXCEPT ![2] = 0, ![5] = 0]
           /\ ram' = ram => UNCHANGED SeenRam
  BY Zenon DEF Calm, SeenRam

(* A word around pc is the program's own, and so are those it reads. *)
LEMMA UndisturbedReadU32 ==
    ASSUME Calm, NEW a, a \notin HandlerRam,
           \A k \in 0 .. 3 : (a + k) % Modulus \notin HandlerRam
    PROVE  Undisturbed!ReadU32(a) = ReadU32(a)
  <1>1. \A x : x \notin HandlerRam => Undisturbed!ByteAt(x) = ByteAt(x)
    BY DEF Calm, Undisturbed!ByteAt, ByteAt, SeenRam
  <1>2. \A k \in 0 .. 3 : Undisturbed!ByteAt((a + k) % Modulus) = ByteAt((a + k) % Modulus)
    BY <1>1
  <1>3. /\ Undisturbed!ByteAt((a + 0) % Modulus) = ByteAt((a + 0) % Modulus)
        /\ Undisturbed!ByteAt((a + 1) % Modulus) = ByteAt((a + 1) % Modulus)
        /\ Undisturbed!ByteAt((a + 2) % Modulus) = ByteAt((a + 2) % Modulus)
        /\ Undisturbed!ByteAt((a + 3) % Modulus) = ByteAt((a + 3) % Modulus)
    BY <1>2
  <1>4. Undisturbed!Modulus = Modulus
    BY Zenon DEF Undisturbed!Modulus, Modulus
  <1>5. a \in Ram \ HandlerRam <=> a \in Ram
    OBVIOUS
  <1> QED
    BY <1>3, <1>4, <1>5, Zenon DEF Undisturbed!ReadU32, ReadU32

LEMMA UndisturbedRead ==
    ASSUME Calm, NEW size \in {1, 2, 4}, NEW a \in Word,
           \A k \in 0 .. (size - 1) : (a + k) % Modulus \notin HandlerRam
    PROVE  Undisturbed!Read(size, a) = Read(size, a)
  <1>0. /\ a \in Int /\ 0 <= a /\ a < Modulus /\ Modulus \in Nat /\ Modulus % 4 = 0 /\ Modulus > 0
    BY Sizes, WordInt
  <1>1. \A x : x \notin HandlerRam => Undisturbed!ByteAt(x) = ByteAt(x)
    BY DEF Calm, Undisturbed!ByteAt, ByteAt, SeenRam
  <1>2. ASSUME size = 1 PROVE Undisturbed!ReadU8(a) = ReadU8(a)
    <2>1. (a + 0) % Modulus = a
      BY <1>0
    <2> QED
      BY <1>1, <1>2, <2>1 DEF Undisturbed!ReadU8, ReadU8
  <1>3. ASSUME size = 2 PROVE Undisturbed!ReadU16(a) = ReadU16(a)
    <2>1. (a + 0) % Modulus = a
      BY <1>0
    <2>2. a % 4 # 3 => (a + 1) % Modulus = a + 1
      <3>1. a % 4 # 3 => a + 1 < Modulus
        BY <1>0
      <3> QED
        BY <1>0, <3>1
    <2>3. Undisturbed!ByteAt(a) = ByteAt(a)
      BY <1>1, <1>3, <2>1
    <2>4. a % 4 # 3 => Undisturbed!ByteAt(a + 1) = ByteAt(a + 1)
      BY <1>1, <1>3, <2>2
    <2> QED
      BY <2>3, <2>4, Zenon DEF Undisturbed!ReadU16, ReadU16
  <1>4. ASSUME size = 4 PROVE Undisturbed!ReadU32(a) = ReadU32(a)
    <2>1. \A k \in 0 .. 3 : (a + k) % Modulus \notin HandlerRam
      BY <1>4
    <2>2. (a + 0) % Modulus \notin HandlerRam
      BY <2>1
    <2>3. (a + 0) % Modulus = a
      BY <1>0
    <2>4. a \notin HandlerRam
      BY <2>2, <2>3, Zenon
    <2> QED
      BY <2>1, <2>4, UndisturbedReadU32
  <1> QED
    BY <1>2, <1>3, <1>4 DEF Undisturbed!Read, Read

LEMMA UndisturbedStored ==
    ASSUME Calm, NEW size, NEW a, NEW v, a \notin HandlerRam, ram' = Stored(size, a, v)
    PROVE  SeenRam' = Undisturbed!Stored(size, a, v)
  <1>1. SeenRam' = [x \in Ram \ HandlerRam |-> ram'[x]] /\ SeenRam = [x \in Ram \ HandlerRam |-> ram[x]]
    BY Zenon DEF Calm, SeenRam
  <1>2. Undisturbed!Modulus = Modulus
    BY Zenon DEF Undisturbed!Modulus, Modulus
  <1> DEFINE n == IF a \notin Ram THEN 0 ELSE IF size = 2 /\ a % 4 = 3 THEN 1 ELSE size
             byte(x) == (v \div Pow2[ByteBits * ((x - a) % Modulus)]) % Pow2[ByteBits]
  <1>3. Stored(size, a, v) = [x \in Ram |-> IF (x - a) % Modulus < n THEN byte(x) ELSE ram[x]]
    BY Zenon DEF Stored
  <1>4. Undisturbed!Stored(size, a, v) =
          [x \in Ram \ HandlerRam |-> IF (x - a) % Modulus < n THEN byte(x) ELSE SeenRam[x]]
    <2>1. a \in Ram \ HandlerRam <=> a \in Ram
      OBVIOUS
    <2> QED
      BY <1>2, <2>1, Zenon DEF Undisturbed!Stored
  <1> HIDE DEF n, byte
  <1> QED
    BY <1>1, <1>3, <1>4

--------------------------------------------------------------------------------
(* One lemma for the instructions of each kind: where no handler runs, they *)
(* are those of Undisturbed.                                                *)
LEMMA UndisturbedRegisters ==
    ASSUME Calm, NEW i, NEW n
    PROVE  /\ Nop(i, n) => Undisturbed!Nop(i, n)
           /\ AluStep(i, n) => Undisturbed!AluStep(i, n)
           /\ Compare(i, n) => Undisturbed!Compare(i, n)
           /\ Multiply(i, n) => Undisturbed!Multiply(i, n)
           /\ Divide(i, n) => Undisturbed!Divide(i, n)
           /\ FromEngine(i, n) => Undisturbed!FromEngine(i, n)
           /\ ToEngine(i, n) => Undisturbed!ToEngine(i, n)
           /\ MoveSpecial(i, n) => Undisturbed!MoveSpecial(i, n)
           /\ SetT(i, n) => Undisturbed!SetT(i, n)
           /\ Move(i, n) => Undisturbed!Move(i, n)
           /\ Dump(i) => Undisturbed!Dump(i)
  <1>1. Nop(i, n) => Undisturbed!Nop(i, n)
    BY UndisturbedReads, UndisturbedKeeps, Zenon DEF Calm, Undisturbed!Nop, Nop
  <1>2. AluStep(i, n) => Undisturbed!AluStep(i, n)
    <2>1. Undisturbed!Outcomes(i.fn, Undisturbed!Value(i.a), Undisturbed!Value(i.b), i.cu)
             = Outcomes(i.fn, Value(i.a), Value(i.b), i.cu)
      BY UndisturbedReads, UndisturbedOutcomes, Zenon
    <2>2. \A v : Undisturbed!Keep(i.d, v) = Keep(i.d, v)
      BY UndisturbedReads, Zenon
    <2>3. Undisturbed!Advance(n) <=> Advance(n)
      BY UndisturbedReads, Zenon
    <2> QED
      BY <2>1, <2>2, <2>3, UndisturbedKeeps, Zenon DEF Calm, Undisturbed!AluStep, AluStep
  <1>3. Compare(i, n) => Undisturbed!Compare(i, n)
    <2>1. Undisturbed!Cmp(flags, Undisturbed!Value(i.a), Undisturbed!Value(i.b), i.tcs, i.cu)
             = Cmp(flags, Value(i.a), Value(i.b), i.tcs, i.cu)
      BY UndisturbedReads, UndisturbedArithmetic, Zenon
    <2>2. Undisturbed!Advance(n) <=> Advance(n)
      BY UndisturbedReads, Zenon
    <2> QED
      BY <2>1, <2>2, UndisturbedKeeps, Zenon DEF Calm, Undisturbed!Compare, Compare
  <1>4. Multiply(i, n) => Undisturbed!Multiply(i, n)
    <2>1. \A op, p : Undisturbed!Products(op, p) = Products(op, p)
      BY Zenon DEF Undisturbed!Products, Products, Undisturbed!Word, Word,
                   Undisturbed!Modulus, Modulus, Undisturbed!SignBit, SignBit
    <2> QED
      BY <2>1, UndisturbedReads, UndisturbedKeeps, Zenon DEF Calm, Undisturbed!Multiply, Multiply
  <1>5. Divide(i, n) => Undisturbed!Divide(i, n)
    BY UndisturbedReads, UndisturbedKeeps, Zenon DEF Calm, Undisturbed!Divide, Divide
  <1>6. FromEngine(i, n) => Undisturbed!FromEngine(i, n)
    BY UndisturbedReads, UndisturbedKeeps, Zenon DEF Calm, Undisturbed!FromEngine, FromEngine
  <1>7. ToEngine(i, n) => Undisturbed!ToEngine(i, n)
    BY UndisturbedReads, UndisturbedKeeps, Zenon DEF Calm, Undisturbed!ToEngine, ToEngine
  <1>8. MoveSpecial(i, n) => Undisturbed!MoveSpecial(i, n)
    BY UndisturbedReads, UndisturbedKeeps, Zenon DEF Calm, Undisturbed!MoveSpecial, MoveSpecial
  <1>9. SetT(i, n) => Undisturbed!SetT(i, n)
    <2>1. Undisturbed!Conditional(i.cond, flags, Undisturbed!CNT, 0) = Conditional(i.cond, flags, CNT, 0)
      BY UndisturbedReads, UndisturbedConditions, Zenon
    <2>2. (Undisturbed!Advance(n) <=> Advance(n))
      BY UndisturbedReads, Zenon
    <2> QED
      BY <2>1, <2>2, UndisturbedKeeps, Zenon DEF Calm, Undisturbed!SetT, SetT
  <1>10. Move(i, n) => Undisturbed!Move(i, n)
    <2>1. Undisturbed!Conditional(i.cond, flags, Undisturbed!CNT, 0) = Conditional(i.cond, flags, CNT, 0)
      BY UndisturbedReads, UndisturbedConditions, Zenon
    <2>2. (Undisturbed!Advance(n) <=> Advance(n)) /\ Undisturbed!Value(i.v) = Value(i.v)
      BY UndisturbedReads, Zenon
    <2> QED
      BY <2>1, <2>2, UndisturbedKeeps, Zenon DEF Calm, Undisturbed!Move, Move
  <1>11. Dump(i) => Undisturbed!Dump(i)
    BY UndisturbedReads, UndisturbedKeeps, Zenon DEF Calm, Undisturbed!Dump, Dump
  <1> QED
    BY <1>1, <1>2, <1>3, <1>4, <1>5, <1>6, <1>7, <1>8, <1>9, <1>10, <1>11

LEMMA UndisturbedBranch ==
    ASSUME Calm, NEW i, NEW n, i.to \in Target, ~ReturnsFromInterrupt(i), Branch(i, n)
    PROVE  Undisturbed!Branch(i, n)
  <1>1. i.to \in ({"rel", "near", "far"} \X Word) \cup ({"reg"} \X RegNum)
    BY DEF Branch, ReturnsFromInterrupt, Target, TargetOn
  <1>2. Undisturbed!TargetOf(i.to) = TargetOf(i.to)
    <2>1. i.to[1] \in {"rel", "near", "far", "reg"}
      BY <1>1
    <2> QED
      BY <2>1 DEF Calm, Undisturbed!TargetOf, TargetOf, Undisturbed!Modulus, Modulus
  <1>3. /\ Undisturbed!Conditional(i.cond, flags, Undisturbed!CNT, 1) = Conditional(i.cond, flags, CNT, 1)
        /\ Undisturbed!CntAfter(i.cond, Undisturbed!CNT, 1) = CntAfter(i.cond, CNT, 1)
    BY UndisturbedReads, UndisturbedConditions, Zenon
  <1>4. (Undisturbed!Advance(n) <=> Advance(n)) /\ Undisturbed!Modulus = Modulus
    BY UndisturbedReads, Zenon
  <1> QED
    BY <1>2, <1>3, <1>4, UndisturbedKeeps, Zenon
       DEF Calm, Undisturbed!Branch, Branch

LEMMA UndisturbedControl ==
    ASSUME Calm, cr \in [RegNum -> Word], NEW i, i.s \in RegNum \ {2, 5}, NEW n
    PROVE  /\ FromControl(i, n) => Undisturbed!FromControl(i, n)
           /\ ToControl(i, n) => Undisturbed!ToControl(i, n)
  <1> DEFINE own == [Seen.cr EXCEPT ![2] = 0, ![5] = 0]
  <1>1. Undisturbed!ControlValue(i.s) = ControlValue(i.s)
    BY DEF Calm, Undisturbed!ControlValue, ControlValue, Undisturbed!FlagBits, FlagBits,
           Undisturbed!Num, Num, RegNum
  <1>2. ASSUME NEW k \in RegNum \ {2, 5}, NEW v, cr' = [cr EXCEPT ![k] = v]
        PROVE  own' = [own EXCEPT ![k] = v]
    BY <1>2 DEF Calm, RegNum
  <1> HIDE DEF own
  <1>3. FromControl(i, n) => Undisturbed!FromControl(i, n)
    BY <1>1, UndisturbedReads, UndisturbedKeeps, Zenon DEF Calm, Undisturbed!FromControl, FromControl
  <1>4. ASSUME ToControl(i, n) PROVE Undisturbed!ToControl(i, n)
    <2>1. IF i.s = 1
          THEN own' = [own EXCEPT ![1] = r[i.d] - (r[i.d] % 32)] /\ flags' = FlagsIn(r[i.d])
          ELSE own' = [own EXCEPT ![i.s] = r[i.d]] /\ UNCHANGED flags
      BY <1>2, <1>4 DEF ToControl, RegNum
    <2> QED
      BY <1>4, <2>1, UndisturbedReads, UndisturbedKeeps, Zenon
         DEF Calm, Undisturbed!ToControl, ToControl, own
  <1> QED
    BY <1>3, <1>4

LEMMA UndisturbedMemory ==
    ASSUME Calm, CpuTypeOK, NEW i \in Instruction, NEW n, ReachedBy(i) \cap HandlerRam = {}
    PROVE  /\ Load(i, n) => Undisturbed!Load(i, n)
           /\ Pop(i, n) => Undisturbed!Pop(i, n)
           /\ Store(i, n) => Undisturbed!Store(i, n)
           /\ Push(i, n) => Undisturbed!Push(i, n)
  <1>1. ASSUME Load(i, n) PROVE Undisturbed!Load(i, n)
    <2>1. i.op = "load" /\ i.size \in {1, 2, 4} /\ i.base \in RegNum /\ i.disp \in Word
      BY <1>1, InstructionFields DEF Load
    <2>2. AccessAddress(i) \in Word
      BY <2>1, AccessType DEF CpuTypeOK
    <2>3. \A k \in 0 .. (i.size - 1) : (AccessAddress(i) + k) % Modulus \notin HandlerRam
      BY <2>1 DEF ReachedBy
    <2>4. Undisturbed!Read(i.size, AccessAddress(i)) = Read(i.size, AccessAddress(i))
      BY <2>1, <2>2, <2>3, UndisturbedRead
    <2>5. /\ Undisturbed!AccessAddress(i) = AccessAddress(i) /\ Undisturbed!Before(i) = Before(i)
          /\ \A x : Undisturbed!Moved(i, x) = Moved(i, x)
          /\ Undisturbed!Advance(n) <=> Advance(n)
      BY UndisturbedReads, Zenon
    <2>6. \A x, b : Undisturbed!SignExtend(x, b) = SignExtend(x, b)
      BY UndisturbedArithmetic, Zenon
    <2> DEFINE x == Read(i.size, AccessAddress(i))
               loaded(v) == [Before(i) EXCEPT ![i.d] = v]
    <2>7. r' = LET v == IF i.signed THEN SignExtend(x, i.size * ByteBits) ELSE x
               IN  IF i.mode = "post" THEN Moved(i, loaded(v)) ELSE loaded(v)
      BY <1>1, Zenon DEF Load
    <2>8. Undisturbed!SignExtend(x, i.size * ByteBits) = SignExtend(x, i.size * ByteBits)
      BY <2>6, Zenon
    <2>9. /\ i.op = "load" /\ Advance(n) /\ UNCHANGED <<flags, cr, sr, ce, ram, status>>
      BY <1>1, Zenon DEF Load
    <2>10. (Seen.r)' = LET y == Undisturbed!Read(i.size, Undisturbed!AccessAddress(i))
                           v == IF i.signed THEN Undisturbed!SignExtend(y, i.size * ByteBits) ELSE y
                           l == [Undisturbed!Before(i) EXCEPT ![i.d] = v]
                       IN  IF i.mode = "post" THEN Undisturbed!Moved(i, l) ELSE l
      BY <2>4, <2>5, <2>7, <2>8, Zenon DEF Calm
    <2> HIDE DEF x, loaded
    <2>11. /\ Undisturbed!Advance(n)
           /\ UNCHANGED <<Seen.flags, [Seen.cr EXCEPT ![2] = 0, ![5] = 0], Seen.sr, Seen.ce, SeenRam, status>>
      BY <2>5, <2>9, UndisturbedKeeps, Zenon DEF Calm
    <2> QED
      BY <2>9, <2>10, <2>11, Zenon DEF Undisturbed!Load
  <1>2. ASSUME Pop(i, n) PROVE Undisturbed!Pop(i, n)
    <2>1. \A k \in 0 .. 3 : (r[i.base] + k) % Modulus \notin HandlerRam
      BY <1>2 DEF Pop, ReachedBy
    <2>2. r[i.base] \in Word
      BY <1>2, InstructionFields DEF Pop, CpuTypeOK
    <2>3. (r[i.base] + 0) % Modulus \notin HandlerRam
      BY <2>1
    <2>4. r[i.base] \in Int /\ 0 <= r[i.base] /\ r[i.base] < Modulus /\ Modulus \in Nat
      BY <2>2, Sizes, WordInt
    <2>5. (r[i.base] + 0) % Modulus = r[i.base]
      BY <2>4
    <2>6. r[i.base] \notin HandlerRam
      BY <2>3, <2>5, Zenon
    <2>7. Undisturbed!ReadU32(r[i.base]) = ReadU32(r[i.base])
      BY <2>1, <2>6, UndisturbedReadU32
    <2> QED
      BY <1>2, <2>7, UndisturbedReads, UndisturbedKeeps, Zenon DEF Calm, Undisturbed!Pop, Pop
  <1>3. ASSUME Store(i, n) PROVE Undisturbed!Store(i, n)
    <2>0. AccessAddress(i) \notin HandlerRam
      <3>1. i.op = "store" /\ i.size \in {1, 2, 4} /\ i.base \in RegNum /\ i.disp \in Word
        BY <1>3, InstructionFields DEF Store
      <3>2. AccessAddress(i) \in Word
        BY <3>1, AccessType DEF CpuTypeOK
      <3>3. (AccessAddress(i) + 0) % Modulus = AccessAddress(i)
        BY <3>2, Sizes, WordInt
      <3> QED
        BY <3>1, <3>3 DEF ReachedBy
    <2>1. SeenRam' = Undisturbed!Stored(i.size, AccessAddress(i), Before(i)[i.d])
      BY <1>3, <2>0, UndisturbedStored DEF Store
    <2>2. /\ Undisturbed!AccessAddress(i) = AccessAddress(i) /\ Undisturbed!Before(i) = Before(i)
          /\ Undisturbed!Moved(i, r) = Moved(i, r)
          /\ Undisturbed!Advance(n) <=> Advance(n)
      BY UndisturbedReads, Zenon
    <2> QED
      BY <1>3, <2>1, <2>2, UndisturbedKeeps, Zenon DEF Calm, Undisturbed!Store, Store
  <1>4. ASSUME Push(i, n) PROVE Undisturbed!Push(i, n)
    <2>1. PICK v \in {r[i.d], r'[i.d]} : ram' = Stored(4, r'[i.base], v)
      BY <1>4 DEF Push
    <2>2. r'[i.base] \notin HandlerRam
      <3>1. i.op = "push" /\ i.base \in RegNum
        BY <1>4, InstructionFields DEF Push
      <3>2. r'[i.base] = (r[i.base] - 4) % Modulus
        BY <1>4, <3>1 DEF Push, CpuTypeOK
      <3> QED
        BY <3>1, <3>2 DEF ReachedBy
    <2>3. SeenRam' = Undisturbed!Stored(4, r'[i.base], v)
      BY <2>1, <2>2, UndisturbedStored
    <2> QED
      BY <1>4, <2>3, UndisturbedReads, UndisturbedKeeps, Zenon DEF Calm, Undisturbed!Push, Push
  <1> QED
    BY <1>1, <1>2, <1>3, <1>4

--------------------------------------------------------------------------------
LEMMA OwnProgram ==
    ASSUME name \in DOMAIN Programs
    PROVE  /\ OwnPrograms[name].code = Programs[name].code
           /\ OwnPrograms[name].entry = Programs[name].entry
           /\ OwnPrograms[name].ram = [a \in Ram \ HandlerRam |-> Programs[name].ram[a]]
           /\ name \in DOMAIN OwnPrograms
  BY DEF OwnPrograms

LEMMA UndisturbedFetched ==
    ASSUME Calm, CpuTypeOK, WordAround(pc) \cap HandlerRam = {}
    PROVE  Undisturbed!Fetched = Fetched
  <1> DEFINE a == pc - (pc % 4)
  <1>0. /\ pc \in Int /\ 0 <= pc /\ pc < Modulus /\ Modulus \in Nat /\ Modulus % 4 = 0
        /\ name \in DOMAIN Programs
    BY Sizes, WordInt DEF CpuTypeOK
  <1>1. \A k \in 0 .. 3 : a + k \notin HandlerRam /\ (a + k) % Modulus = a + k
    <2>1. \A k \in 0 .. 3 : a + k \in WordAround(pc)
      BY DEF WordAround
    <2>2. a \in Int /\ 0 <= a /\ a + 3 < Modulus
      BY <1>0
    <2> HIDE DEF a
    <2> QED
      BY <1>0, <2>1, <2>2
  <1>2. Undisturbed!ReadU32(a) = ReadU32(a)
    <2>1. a \notin HandlerRam
      <3>1. a + 0 \notin HandlerRam /\ a + 0 = a
        BY <1>0, <1>1
      <3> QED
        BY <3>1
    <2> HIDE DEF a
    <2>2. \A k \in 0 .. 3 : (a + k) % Modulus \notin HandlerRam
      BY <1>1
    <2> QED
      BY <2>1, <2>2, UndisturbedReadU32
  <1>3. Undisturbed!SlotAt(a) = SlotAt(a)
    <2> HIDE DEF a
    <2>1. OwnPrograms[name].code = Programs[name].code
      BY <1>0, OwnProgram
    <2>2. Undisturbed!SlotAt(a) =
            LET code == OwnPrograms[name].code
            IN  IF a \in DOMAIN code THEN code[a]
                ELSE Decoding[Undisturbed!ReadU32(a)]
      BY Zenon DEF Undisturbed!SlotAt
    <2> QED
      BY <1>2, <2>1, <2>2 DEF SlotAt
  <1>4. Undisturbed!Instruction = Instruction
    BY Zenon DEF Undisturbed!Instruction, Instruction, Undisturbed!InstructionOn, InstructionOn,
                 Undisturbed!OperandOn, OperandOn, Undisturbed!TargetOn, TargetOn,
                 Undisturbed!RegNum, RegNum, Undisturbed!AluNames, AluNames,
                 Undisturbed!Discard, Discard, Undisturbed!Word, Word, Undisturbed!Modulus, Modulus
  <1> QED
    BY <1>3, <1>4, Zenon DEF Calm, Undisturbed!Fetched, Fetched

(* What an instruction of a program does to what it sees. *)
LEMMA UndisturbedStep ==
    ASSUME Calm, CpuTypeOK, ProgramsKeepApart, frozen = <<>>, NEW f \in Fetched, Step(f[1], f[2])
    PROVE  Undisturbed!Next
  <1> DEFINE i == f[1]
             n == f[2]
  <1>1. status = "running" /\ UNCHANGED name /\ Exec(i, n)
    BY DEF Step
  <1>2. i \in Instruction
    BY FetchedType DEF CpuTypeOK
  <1>3. /\ WordAround(pc) \cap HandlerRam = {}
        /\ i.op \in {"mfcr", "mtcr"} => i.s \notin {2, 5}
        /\ ~ReturnsFromInterrupt(i)
        /\ ReachedBy(i) \cap HandlerRam = {}
    BY <1>1 DEF ProgramsKeepApart
  <1>4. cr \in [RegNum -> Word]
    BY DEF CpuTypeOK
  <1>5. f \in Undisturbed!Fetched
    BY <1>3, UndisturbedFetched
  <1> HIDE DEF i, n
  <1>6. FromControl(i, n) \/ ToControl(i, n) => i.s \in RegNum \ {2, 5}
    BY <1>2, <1>3, InstructionFields DEF FromControl, ToControl
  <1>7. FromControl(i, n) \/ ToControl(i, n) => Undisturbed!FromControl(i, n) \/ Undisturbed!ToControl(i, n)
    BY <1>4, <1>6, UndisturbedControl
  <1>8. Branch(i, n) => Undisturbed!Branch(i, n)
    <2>1. Branch(i, n) => i.to \in Target
      BY <1>2, InstructionFields DEF Branch
    <2> QED
      BY <1>3, <2>1, UndisturbedBranch
  <1>9. Undisturbed!Exec(i, n)
    BY <1>1, <1>2, <1>3, <1>7, <1>8, UndisturbedRegisters, UndisturbedMemory, Zenon
       DEF Exec, Undisturbed!Exec
  <1>10. Undisturbed!Step(i, n)
    BY <1>1, <1>9, Zenon DEF Undisturbed!Step
  <1> QED
    BY <1>5, <1>10, Zenon DEF Undisturbed!Next, i, n

--------------------------------------------------------------------------------
(* The states that were interrupted are states of the processor. *)
Snapshots ==
    [r : [RegNum -> Word], flags : Flags, cr : [RegNum -> Word], sr : [RegNum -> Word],
     ce : [H : Word, L : Word], pc : Word, ram : [Ram -> ByteNumber]]

PInv == CpuTypeOK /\ frozen \in Seq(Snapshots)

LEMMA SnapshotType ==
    ASSUME CpuTypeOK
    PROVE  Snapshot \in Snapshots
  BY DEF CpuTypeOK, Snapshot, Snapshots

LEMMA PInitInv == PInit => PInv
  BY InitType DEF PInit, PInv

LEMMA PStepInv ==
    ASSUME PInv, [PNext]_pvars
    PROVE  PInv'
  <1>1. CASE \E f \in Fetched : PStep(f[1], f[2])
    <2>1. PICK f \in Fetched : PStep(f[1], f[2])
      BY <1>1
    <2>2. CpuTypeOK'
      BY <2>1, StepType DEF PInv, PStep
    <2>3. frozen' \in Seq(Snapshots)
      BY <2>1 DEF PInv, PStep, Front
    <2> QED
      BY <2>2, <2>3 DEF PInv
  <1>2. CASE \E c \in Causes : PInterrupt(c)
    <2>1. PICK c \in Causes : PInterrupt(c)
      BY <1>2
    <2>2. CpuTypeOK'
      BY <2>1, InterruptType DEF PInv, PInterrupt
    <2>3. frozen' \in Seq(Snapshots)
      BY <2>1, SnapshotType DEF PInv, PInterrupt
    <2> QED
      BY <2>2, <2>3 DEF PInv
  <1>3. CASE UNCHANGED pvars
    BY <1>3 DEF pvars, vars, PInv, CpuTypeOK
  <1> QED
    BY <1>1, <1>2, <1>3 DEF PNext

LEMMA NotEmpty ==
    ASSUME NEW S, NEW s \in Seq(S)
    PROVE  /\ Len(s) = 1 => s # <<>> /\ s[1] \in S
           /\ s # <<>> /\ Len(s) # 1 => Front(s) # <<>> /\ Head(Front(s)) = Head(s)
  <1>1. Len(s) = 1 => s # <<>> /\ s[1] \in S
    OBVIOUS
  <1>2. ASSUME s # <<>>, Len(s) # 1 PROVE Front(s) # <<>> /\ Head(Front(s)) = Head(s)
    <2>1. Len(s) \in Nat /\ Len(s) > 1
      BY <1>2, EmptySeq
    <2> DEFINE front == SubSeq(s, 1, Len(s) - 1)
    <2>2. Len(front) = Len(s) - 1 /\ Head(front) = s[1]
      BY <2>1, HeadTailOfSubSeq
    <2>3. Front(s) = front
      BY Zenon DEF Front
    <2>4. Head(s) = s[1]
      BY <1>2
    <2> HIDE DEF front
    <2>5. front # <<>>
      <3>1. Len(<<>>) = 0
        OBVIOUS
      <3> QED
        BY <2>1, <2>2, <3>1
    <2> QED
      BY <2>2, <2>3, <2>4, <2>5
  <1> QED
    BY <1>1, <1>2

(* A step after which the program would see what it saw. *)
LEMMA SeesTheSame ==
    ASSUME Seen' = Seen, UNCHANGED <<name, status>>
    PROVE  UNCHANGED Undisturbed!vars
  BY Zenon DEF Undisturbed!vars, SeenRam

LEMMA CalmNow ==
    ASSUME frozen = <<>>, frozen' = <<>>
    PROVE  Calm
  BY DEF Calm, Seen, Snapshot

(* The return to the program: everything it can see is as it was.            *)
LEMMA ReturnIsInvisible ==
    ASSUME PInv, HandlersGiveBack, Len(frozen) = 1, NEW f \in Fetched,
           PStep(f[1], f[2]), ReturnsFromInterrupt(f[1])
    PROVE  UNCHANGED Undisturbed!vars
  <1> DEFINE was == frozen[1]
  <1>1. frozen \in Seq(Snapshots) /\ frozen # <<>> /\ was \in Snapshots /\ CpuTypeOK
    <2>1. frozen \in Seq(Snapshots) /\ CpuTypeOK
      BY DEF PInv
    <2> QED
      BY <2>1, NotEmpty
  <1>2. /\ status = "running" /\ f[1].cond = 15 /\ ~f[1].link
        /\ r = was.r /\ flags = was.flags /\ sr = was.sr /\ ce = was.ce
        /\ cr[5] = was.pc
        /\ \A k \in RegNum \ {2, 5} : cr[k] = was.cr[k]
        /\ \A a \in Ram \ HandlerRam : ram[a] = was.ram[a]
    BY <1>1 DEF HandlersGiveBack
  <1>3. Step(f[1], f[2]) /\ UNCHANGED name /\ frozen' = Front(frozen)
    BY <1>1 DEF PStep, Step
  <1>4. frozen' = <<>>
    BY <1>1, <1>3 DEF Front
  <1>5. f[1].op = "branch" /\ f[1].to[1] = "epc"
    BY DEF ReturnsFromInterrupt
  <1>6. Taken(f[1])
    BY <1>2, <1>5 DEF Taken, Conditional, CntPattern, FlagsHold
  <1>7. /\ pc' = cr[5] /\ r' = r /\ cr' = cr /\ ram' = ram /\ status' = status
    <2>1. TargetOf(f[1].to) = cr[5]
      BY <1>5 DEF TargetOf
    <2> QED
      BY <1>2, <1>3, <1>6, <2>1, StepGoes
  <1>8. Branch(f[1], f[2])
    BY <1>3, <1>5 DEF Step, Exec, Nop, Dump, AluStep, Compare, Multiply, Divide, FromEngine, ToEngine,
       MoveSpecial, FromControl, ToControl, SetT, Move, Load, Store, Push, Pop
  <1>9. flags' = flags /\ ce' = ce /\ sr' = sr
    <2>1. CntAfter(f[1].cond, CNT, 1) = sr[0]
      BY <1>2 DEF CntAfter, CntPattern, CNT
    <2>2. sr \in [RegNum -> Word]
      BY <1>1 DEF CpuTypeOK
    <2> QED
      BY <1>8, <2>1, <2>2 DEF Branch
  <1>10. Seen = was /\ Seen' = [r |-> r', flags |-> flags', cr |-> cr', sr |-> sr', ce |-> ce', pc |-> pc', ram |-> ram']
    BY <1>1, <1>4 DEF Seen, Snapshot
  <1>11. /\ (Seen.r)' = Seen.r /\ (Seen.flags)' = Seen.flags /\ (Seen.sr)' = Seen.sr
         /\ (Seen.ce)' = Seen.ce /\ (Seen.pc)' = Seen.pc
         /\ (Seen.cr)' = cr /\ (Seen.ram)' = ram
    BY <1>2, <1>7, <1>9, <1>10
  <1>12. SeenRam' = SeenRam
    BY <1>2, <1>10, <1>11 DEF SeenRam
  <1>13. [Seen.cr EXCEPT ![2] = 0, ![5] = 0]' = [Seen.cr EXCEPT ![2] = 0, ![5] = 0]
    <2>1. cr \in [RegNum -> Word] /\ Seen.cr \in [RegNum -> Word]
      BY <1>1, <1>10 DEF CpuTypeOK, Snapshots
    <2>2. \A k \in RegNum \ {2, 5} : cr[k] = (Seen.cr)[k]
      BY <1>2, <1>10
    <2> QED
      BY <1>11, <2>1, <2>2
  <1> QED
    BY <1>3, <1>7, <1>11, <1>12, <1>13, Zenon DEF Undisturbed!vars

(* Every step is one of the program or none. *)
LEMMA StepIsInvisible ==
    ASSUME PInv, ProgramsKeepApart, HandlersGiveBack, HandlersGiveBack', [PNext]_pvars
    PROVE  [Undisturbed!Next]_(Undisturbed!vars)
  <1>0. CpuTypeOK /\ frozen \in Seq(Snapshots)
    BY DEF PInv
  <1>1. CASE \E f \in Fetched : PStep(f[1], f[2])
    <2>1. PICK f \in Fetched : PStep(f[1], f[2])
      BY <1>1
    <2>2. Step(f[1], f[2]) /\ UNCHANGED name
      BY <2>1 DEF PStep, Step
    <2>3. CASE frozen = <<>>
      <3>1. frozen' = <<>>
        BY <2>1, <2>3 DEF PStep
      <3>2. Undisturbed!Next
        BY <1>0, <2>2, <2>3, <3>1, CalmNow, UndisturbedStep
      <3> QED
        BY <3>2
    <2>4. CASE frozen # <<>> /\ ReturnsFromInterrupt(f[1]) /\ Len(frozen) = 1
      BY <2>1, <2>4, ReturnIsInvisible
    <2>5. CASE frozen # <<>> /\ ~(ReturnsFromInterrupt(f[1]) /\ Len(frozen) = 1)
      <3>1. frozen' # <<>> /\ Head(frozen') = Head(frozen)
        <4>1. CASE ReturnsFromInterrupt(f[1])
          <5>1. frozen' = Front(frozen) /\ frozen # <<>> /\ Len(frozen) # 1
            BY <2>1, <2>5, <4>1 DEF PStep
          <5> QED
            BY <1>0, <5>1, NotEmpty
        <4>2. CASE ~ReturnsFromInterrupt(f[1])
          BY <2>1, <2>5, <4>2 DEF PStep
        <4> QED
          BY <4>1, <4>2
      <3>2. Seen' = Seen
        BY <2>5, <3>1 DEF Seen
      <3>3. status = "running" /\ status' = "running"
        BY <2>5, <3>1 DEF HandlersGiveBack
      <3> QED
        BY <2>2, <3>2, <3>3, SeesTheSame
    <2> QED
      BY <2>3, <2>4, <2>5
  <1>2. CASE \E c \in Causes : PInterrupt(c)
    <2>1. PICK c \in Causes : PInterrupt(c)
      BY <1>2
    <2>2. frozen' = Append(frozen, Snapshot) /\ UNCHANGED <<name, status>>
      BY <2>1 DEF PInterrupt, Interrupt, Exception
    <2>3. Seen' = Seen
      <3>1. frozen' # <<>> /\ Head(frozen') = IF frozen = <<>> THEN Snapshot ELSE Head(frozen)
        BY <1>0, <2>2
      <3> QED
        BY <3>1 DEF Seen
    <2> QED
      BY <2>2, <2>3, SeesTheSame
  <1>3. CASE UNCHANGED pvars
    <2>1. Seen' = Seen /\ UNCHANGED <<name, status>>
      BY <1>3 DEF pvars, vars, Seen, Snapshot
    <2> QED
      BY <2>1, SeesTheSame
  <1> QED
    BY <1>1, <1>2, <1>3 DEF PNext

LEMMA InitIsUndisturbed == PInit => Undisturbed!Init
  <1> SUFFICES ASSUME PInit PROVE Undisturbed!Init
    OBVIOUS
  <1>1. /\ Init /\ frozen = <<>>
    BY DEF PInit
  <1>2. /\ Seen.r = r /\ Seen.flags = flags /\ Seen.cr = cr /\ Seen.sr = sr
        /\ Seen.ce = ce /\ Seen.pc = pc /\ Seen.ram = ram
    BY <1>1 DEF Seen, Snapshot
  <1>3. name \in DOMAIN Programs
    BY <1>1 DEF Init
  <1>4. [Seen.cr EXCEPT ![2] = 0, ![5] = 0] = [k \in RegNum |-> IF k = 29 THEN DebugControl ELSE 0]
    BY <1>1, <1>2 DEF Init, RegNum
  <1>5. SeenRam = OwnPrograms[name].ram
    BY <1>1, <1>2, <1>3, OwnProgram DEF Init, SeenRam
  <1> QED
    BY <1>1, <1>2, <1>3, <1>4, <1>5, OwnProgram, Zenon
       DEF Init, Undisturbed!Init, Undisturbed!RegNum, RegNum, Undisturbed!NoFlags, NoFlags

(* For every program that keeps to itself and every handler that gives back *)
(* what it took by the time it returns: wherever interrupts come, one       *)
(* within the handler of another included, the program runs as it does on a *)
(* processor that is never interrupted.                                     *)
THEOREM CarefulHandlersAreInvisible ==
    PSpec /\ []ProgramsKeepApart /\ []HandlersGiveBack => InterruptsAreInvisible
  <1>1. PInit => PInv
    BY PInitInv
  <1> QED
    BY <1>1, PStepInv, InitIsUndisturbed, StepIsInvisible, PTL DEF PSpec, InterruptsAreInvisible

--------------------------------------------------------------------------------
(* The processor that is interrupted is the processor: what it runs,        *)
(* handlers included, is a behavior of Cpu.                                 *)
THEOREM PreemptionRunsCpu == PSpec => Spec
  <1>1. PInit => Init
    BY DEF PInit
  <1>2. [PNext]_pvars => [Next]_vars
    <2>1. ASSUME NEW f \in Fetched, PStep(f[1], f[2]) PROVE Next
      BY <2>1 DEF PStep, Next
    <2>2. ASSUME NEW c \in Causes, PInterrupt(c) PROVE Next
      BY <2>2 DEF PInterrupt, Next
    <2>3. ASSUME UNCHANGED pvars PROVE UNCHANGED vars
      BY <2>3 DEF pvars
    <2> QED
      BY <2>1, <2>2, <2>3 DEF PNext
  <1> QED
    BY <1>1, <1>2, PTL DEF PSpec, Spec

(* Programs and handlers keep the types of the state, and stay on            *)
(* instruction boundaries where they are disciplined.                        *)
THEOREM PreemptionKeepsBoundaries ==
    /\ PSpec => []CpuTypeOK
    /\ PSpec /\ StaysDisciplined => []OnBoundary
  BY PreemptionRunsCpu, CpuTypeCorrect, DisciplineKeepsBoundaries, PTL
================================================================================
