------------------------------- MODULE AluProofs -------------------------------
(* Theorems about Alu and AluUnit, for every word width. *)
EXTENDS AluUnit, AluLemmas

--------------------------------------------------------------------------------
(* The sign-bit formulas for overflow and the carry comparison, as facts   *)
(* about integers: m = 2 * h is the modulus, x and y the operands.         *)

LEMMA SumFacts ==
    ASSUME NEW h \in Nat \ {0}, NEW m \in Nat, m = 2 * h,
           NEW x \in 0 .. (m - 1), NEW y \in 0 .. (m - 1),
           NEW z \in Int, z = (x + y) % m
    PROVE  /\ y > (m - 1) - x => x + y = z + m
           /\ ~(y > (m - 1) - x) => x + y = z
           /\ ((x >= h) = (y >= h) /\ (x >= h) # (z >= h))
                <=> ((IF x >= h THEN x - m ELSE x) + (IF y >= h THEN y - m ELSE y))
                       \notin (0 - h) .. (h - 1)
  <1>1. z = IF x + y < m THEN x + y ELSE x + y - m
    OBVIOUS
  <1> QED
    BY <1>1

LEMMA DifferenceFacts ==
    ASSUME NEW h \in Nat \ {0}, NEW m \in Nat, m = 2 * h,
           NEW x \in 0 .. (m - 1), NEW y \in 0 .. (m - 1),
           NEW z \in Int, z = (x - y) % m
    PROVE  /\ x >= y => x - y = z
           /\ ~(x >= y) => x - y = z - m
           /\ z = 0 <=> x = y
           /\ ((x >= h) # (y >= h) /\ (z >= h) = (y >= h))
                <=> ((IF x >= h THEN x - m ELSE x) - (IF y >= h THEN y - m ELSE y))
                       \notin (0 - h) .. (h - 1)
  <1>1. z = IF x - y < 0 THEN x - y + m ELSE x - y
    OBVIOUS
  <1> QED
    BY <1>1

(* add.c computes the exact sum: with C as the bit above the word, and V   *)
(* set exactly when the signed sum does not fit.                           *)
LEMMA AddExact ==
    ASSUME NEW f \in Flags, NEW a \in Word, NEW b \in Word
    PROVE  /\ a + b = Add(f, a, b, TRUE).res + Modulus * Num(Add(f, a, b, TRUE).flags.C)
           /\ Add(f, a, b, TRUE).flags.V
                 = ((Signed(a) + Signed(b)) \notin SignedRange)
  <1> DEFINE r == Add(f, a, b, TRUE).res
             g == Add(f, a, b, TRUE).flags
  <1>1. /\ a \in 0 .. (Modulus - 1) /\ b \in 0 .. (Modulus - 1)
        /\ Modulus \in Nat /\ SignBit \in Nat \ {0} /\ Modulus = 2 * SignBit
    BY ModulusIsTwoSigns DEF Word
  <1>2. r = (a + b) % Modulus /\ r \in Int
    <2>1. r = (a + b) % Modulus
      BY AddFields, Zenon
    <2>2. (a + b) % Modulus \in Int
      BY <1>1
    <2> QED
      BY <2>1, <2>2
  <1>3. /\ g.C = (b > Ones - a)
        /\ g.V = (Negative(a) = Negative(b) /\ Negative(a) # Negative(r))
    BY AddFields, Zenon
  <1> HIDE DEF r, g
  <1>4. /\ b > (Modulus - 1) - a => a + b = r + Modulus
        /\ ~(b > (Modulus - 1) - a) => a + b = r
        /\ (Negative(a) = Negative(b) /\ Negative(a) # Negative(r))
              <=> (Signed(a) + Signed(b)) \notin SignedRange
    BY <1>1, <1>2, SumFacts DEF Negative, Signed, SignedRange
  <1>5. CASE b > Ones - a
    <2>1. Num(g.C) = 1
      BY <1>3, <1>5 DEF Num
    <2>2. a + b = r + Modulus * Num(g.C)
      BY <1>1, <1>2, <1>4, <1>5, <2>1 DEF Ones
    <2> QED
      BY <2>2, <1>3, <1>4 DEF r, g
  <1>6. CASE ~(b > Ones - a)
    <2>1. Num(g.C) = 0
      BY <1>3, <1>6 DEF Num
    <2>2. a + b = r + Modulus * Num(g.C)
      BY <1>1, <1>2, <1>4, <1>6, <2>1 DEF Ones
    <2> QED
      BY <2>2, <1>3, <1>4 DEF r, g
  <1> QED
    BY <1>5, <1>6

(* sub.c computes the exact difference: C is set when there is no borrow,  *)
(* and V exactly when the signed difference does not fit.                  *)
LEMMA SubExact ==
    ASSUME NEW f \in Flags, NEW a \in Word, NEW b \in Word
    PROVE  /\ a - b = Sub(f, a, b, TRUE).res - Modulus * Num(~Sub(f, a, b, TRUE).flags.C)
           /\ Sub(f, a, b, TRUE).flags.V
                 = ((Signed(a) - Signed(b)) \notin SignedRange)
  <1> DEFINE r == Sub(f, a, b, TRUE).res
             g == Sub(f, a, b, TRUE).flags
  <1>1. /\ a \in 0 .. (Modulus - 1) /\ b \in 0 .. (Modulus - 1)
        /\ Modulus \in Nat /\ SignBit \in Nat \ {0} /\ Modulus = 2 * SignBit
    BY ModulusIsTwoSigns DEF Word
  <1>2. r = (a - b) % Modulus /\ r \in Int
    <2>1. r = (a - b) % Modulus
      BY SubFields, Zenon
    <2>2. (a - b) % Modulus \in Int
      BY <1>1
    <2> QED
      BY <2>1, <2>2
  <1>3. /\ g.C = (a >= b)
        /\ g.V = (Negative(a) # Negative(b) /\ Negative(r) = Negative(b))
    BY SubFields, Zenon
  <1> HIDE DEF r, g
  <1>4. /\ a >= b => a - b = r
        /\ ~(a >= b) => a - b = r - Modulus
        /\ (Negative(a) # Negative(b) /\ Negative(r) = Negative(b))
              <=> (Signed(a) - Signed(b)) \notin SignedRange
    BY <1>1, <1>2, DifferenceFacts DEF Negative, Signed, SignedRange
  <1>5. CASE a >= b
    <2>1. Num(~g.C) = 0
      BY <1>3, <1>5 DEF Num
    <2>2. a - b = r - Modulus * Num(~g.C)
      BY <1>1, <1>2, <1>4, <1>5, <2>1
    <2> QED
      BY <2>2, <1>3, <1>4 DEF r, g
  <1>6. CASE ~(a >= b)
    <2>1. Num(~g.C) = 1
      BY <1>3, <1>6 DEF Num
    <2>2. a - b = r - Modulus * Num(~g.C)
      BY <1>1, <1>2, <1>4, <1>6, <2>1
    <2> QED
      BY <2>2, <1>3, <1>4 DEF r, g
  <1> QED
    BY <1>5, <1>6

(* The flags g a subtraction of b from a leaves with the result r. *)
Compares(g, r, a, b) ==
    /\ g.C = (a >= b)
    /\ g.Z = (a = b)
    /\ g.N = Negative(r)
    /\ g.V = ((Signed(a) - Signed(b)) \notin SignedRange)

LEMMA SubComparison ==
    ASSUME NEW f \in Flags, NEW a \in Word, NEW b \in Word
    PROVE  Compares(Sub(f, a, b, TRUE).flags, Sub(f, a, b, TRUE).res, a, b)
  <1> DEFINE r == Sub(f, a, b, TRUE).res
  <1>1. /\ a \in 0 .. (Modulus - 1) /\ b \in 0 .. (Modulus - 1)
        /\ Modulus \in Nat \ {0}
    BY ModulusIsTwoSigns DEF Word
  <1>2. r = (a - b) % Modulus /\ Sub(f, a, b, TRUE).flags.Z = (r = 0)
    BY SubFields, Zenon
  <1>3. (a - b) % Modulus = 0 <=> a = b
    BY <1>1
  <1>4. Sub(f, a, b, TRUE).flags.Z = (a = b)
    BY <1>2, <1>3, Zenon
  <1> QED
    BY <1>4, SubFields, SubExact, Zenon DEF Compares

--------------------------------------------------------------------------------
(* AluUnit. *)

LEMMA NothingType == NoFlags \in Flags /\ NoHalf \in HalfOp /\ 0 \in Word
  BY ModulusIsTwoSigns DEF NoFlags, Flags, NoHalf, HalfOp, Word

LEMMA LeaveType ==
    ASSUME UnitTypeOK, NEW op \in OpNames, NEW a \in Nat, NEW b \in Nat,
           NEW cu \in BOOLEAN, NEW o \in Outcome, NEW low \in HalfOp,
           op \in {"add", "sub"} => a \in Word /\ b \in Word,
           Leave(op, a, b, cu, o, low)
    PROVE  UnitTypeOK'
  <1>1. flags' \in Flags /\ o.res \in Word /\ flags.C \in BOOLEAN
    BY Zenon DEF Leave, Outcome, UnitTypeOK, Flags
  <1>2. last' = [op |-> op, a |-> a, b |-> b, res |-> o.res,
                 cu |-> cu, cin |-> flags.C, low |-> low]
    BY DEF Leave
  <1>3. last' \in [op : OpNames, a : Nat, b : Nat, res : Word,
                   cu : BOOLEAN, cin : BOOLEAN, low : HalfOp]
    BY <1>1, <1>2, Zenon
  <1>4. last'.op = op /\ last'.a = a /\ last'.b = b
    BY <1>2
  <1> QED
    BY <1>1, <1>3, <1>4, Zenon DEF UnitTypeOK

LEMMA LowHalfType == ASSUME UnitTypeOK, NEW op \in {"add", "sub"} PROVE LowHalf(op) \in HalfOp
  BY NothingType DEF LowHalf, UnitTypeOK, HalfOp

LEMMA WordsAreNat == Word \subseteq Nat /\ Word \subseteq Int
  BY ModulusIsTwoSigns DEF Word

(* Every helper leaves flags and a word, in any sequence. *)
THEOREM UnitTypeCorrect == Spec => []UnitTypeOK
  <1>1. Init => UnitTypeOK
    BY NothingType DEF Init, UnitTypeOK, Nothing, OpNames
  <1>2. UnitTypeOK /\ [Next]_vars => UnitTypeOK'
    <2> SUFFICES ASSUME UnitTypeOK, [Next]_vars PROVE UnitTypeOK'
      OBVIOUS
    <2> USE WordsAreNat DEF OpNames
    <2>0. flags \in Flags /\ NoHalf \in HalfOp
      BY NothingType DEF UnitTypeOK
    <2>1. CASE Operate
      <3>1. PICK cu \in BOOLEAN, a \in Word :
               \/ \E b \in Word :
                    \/ DoAdd(a, b, cu)
                    \/ DoSub(a, b, cu)
                    \/ \E tcs \in 0 .. 3 : DoCmp(a, b, tcs, cu)
                    \/ DoBitOp(a, b, cu)
               \/ \E sa \in ShiftAmounts :
                    \/ DoSll(a, sa, cu)
                    \/ DoSrl(a, sa, cu)
                    \/ DoSra(a, sa, cu)
               \/ \E b \in FieldWidths : DoExtend(a, b, cu)
        BY <2>1 DEF Operate
      <3>2. ASSUME NEW b \in Word, DoAdd(a, b, cu) PROVE UnitTypeOK'
        BY <2>0, <3>2, AddSubType, LeaveType DEF DoAdd
      <3>3. ASSUME NEW b \in Word, DoSub(a, b, cu) PROVE UnitTypeOK'
        BY <2>0, <3>3, AddSubType, LeaveType DEF DoSub
      <3>4. ASSUME NEW b \in Word, NEW tcs \in 0 .. 3, DoCmp(a, b, tcs, cu)
            PROVE  UnitTypeOK'
        <4>1. [res |-> 0, flags |-> Cmp(flags, a, b, tcs, cu)] \in Outcome
          BY <2>0, CmpType, NothingType DEF Outcome
        <4> QED
          BY <2>0, <3>4, <4>1, LeaveType DEF DoCmp
      <3>5. ASSUME NEW b \in Word, DoBitOp(a, b, cu) PROVE UnitTypeOK'
        <4>1. PICK res \in {BitAnd(a, b), BitOr(a, b), BitXor(a, b)} :
                 Leave("bit_op", a, b, cu, BitOp(flags, res, cu), NoHalf)
          BY <3>5 DEF DoBitOp
        <4>2. res \in Word
          BY BitwiseAssumption
        <4>3. BitOp(flags, res, cu) \in Outcome
          BY <2>0, <4>2, BitOpType
        <4> QED
          BY <2>0, <4>1, <4>3, LeaveType
      <3>6. ASSUME NEW sa \in ShiftAmounts,
                   DoSll(a, sa, cu) \/ DoSrl(a, sa, cu) \/ DoSra(a, sa, cu)
            PROVE  UnitTypeOK'
        <4>1. sa \in Nat
          BY UnitAssumption
        <4>2. /\ Sll(flags, a, sa, cu) \subseteq Outcome
              /\ Srl(flags, a, sa, cu) \subseteq Outcome
              /\ Sra(flags, a, sa, cu) \subseteq Outcome
          BY <2>0, <4>1, ShiftTypes
        <4>3. PICK o \in Outcome, op \in {"sll", "srl", "sra"} :
                 Leave(op, a, sa, cu, o, NoHalf)
          BY <3>6, <4>2 DEF DoSll, DoSrl, DoSra
        <4> QED
          BY <2>0, <4>1, <4>3, LeaveType
      <3>7. ASSUME NEW b \in FieldWidths, DoExtend(a, b, cu) PROVE UnitTypeOK'
        <4>1. b \in 1 .. WordBits /\ b \in Nat
          BY UnitAssumption, WordAssumption
        <4>2. BitOp(flags, SignExtend(a, b), cu) \in Outcome
          BY <2>0, <4>1, SignExtendType, BitOpType
        <4> QED
          BY <2>0, <3>7, <4>1, <4>2, LeaveType DEF DoExtend
      <3> QED
        BY <3>1, <3>2, <3>3, <3>4, <3>5, <3>6, <3>7
    <2>2. CASE OperateWithCarry
      <3>1. PICK cu \in BOOLEAN, a \in Word, b \in Word :
               DoAddc(a, b, cu) \/ DoSubc(a, b, cu)
        BY <2>2 DEF OperateWithCarry
      <3>2. LowHalf("add") \in HalfOp /\ LowHalf("sub") \in HalfOp
        BY LowHalfType
      <3>3. Addc(flags, a, b, cu) \in Outcome /\ Subc(flags, a, b, cu) \in Outcome
        BY <2>0, AddcType
      <3> QED
        BY <3>1, <3>2, <3>3, LeaveType DEF DoAddc, DoSubc
    <2>3. CASE Forget
      BY <2>3, NothingType DEF Forget, UnitTypeOK, Nothing
    <2>4. CASE UNCHANGED vars
      BY <2>4 DEF vars, UnitTypeOK
    <2> QED
      BY <2>1, <2>2, <2>3, <2>4 DEF Next
  <1> QED
    BY <1>1, <1>2, PTL DEF Spec

--------------------------------------------------------------------------------
(* The flags of the last operation mean what they should. *)

LEMMA LeaveFields ==
    ASSUME NEW op, NEW a, NEW b, NEW cu, NEW o, NEW low, Leave(op, a, b, cu, o, low)
    PROVE  /\ last'.op = op /\ last'.a = a /\ last'.b = b /\ last'.res = o.res
           /\ last'.cu = cu /\ last'.low = low /\ flags' = o.flags
  BY DEF Leave

(* Flags that agree with those of a subtraction but perhaps in T. *)
SameButT(g, h) == g.C = h.C /\ g.Z = h.Z /\ g.N = h.N /\ g.V = h.V

(* They decide every order relation of its operands. *)
LEMMA SubDecides ==
    ASSUME NEW f \in Flags, NEW a \in Word, NEW b \in Word, NEW g \in Flags,
           SameButT(g, Sub(f, a, b, TRUE).flags)
    PROVE  Decide(g, a, b)
  <1> DEFINE r == Sub(f, a, b, TRUE).res
  <1>1. /\ a \in 0 .. (Modulus - 1) /\ b \in 0 .. (Modulus - 1)
        /\ Modulus \in Nat /\ SignBit \in Nat \ {0} /\ Modulus = 2 * SignBit
    BY ModulusIsTwoSigns DEF Word
  <1>2. r \in 0 .. (Modulus - 1)
    BY SubFields DEF Outcome, Word
  <1>3. a - b = r \/ a - b = r - Modulus
    <2>1. r = (a - b) % Modulus
      BY SubFields, Zenon
    <2> HIDE DEF r
    <2> QED
      BY <1>1, <1>2, <2>1
  <1>4. /\ g.C = (a >= b)
        /\ g.Z = (a = b)
        /\ g.N = Negative(r)
        /\ g.V = ((Signed(a) - Signed(b)) \notin SignedRange)
    <2> DEFINE h == Sub(f, a, b, TRUE).flags
    <2>1. Compares(h, r, a, b)
      BY SubComparison
    <2>2. SameButT(g, h)
      OBVIOUS
    <2> HIDE DEF h, r
    <2> QED
      BY <2>1, <2>2, Zenon DEF SameButT, Compares
  <1> HIDE DEF r
  <1>5. (g.N = g.V) <=> Signed(a) >= Signed(b)
    <2>1. (Negative(r) <=> (Signed(a) - Signed(b)) \notin SignedRange)
             <=> Signed(a) >= Signed(b)
      BY <1>1, <1>2, <1>3 DEF Signed, Negative, SignedRange
    <2>2. g.N \in BOOLEAN /\ g.V \in BOOLEAN
      BY Zenon DEF Flags
    <2>3. /\ g.N <=> Negative(r)
          /\ g.V <=> (Signed(a) - Signed(b)) \notin SignedRange
      BY <1>4, Zenon
    <2>4. (g.N = g.V) <=> (g.N <=> g.V)
      BY <2>2, Zenon
    <2> QED
      BY <2>1, <2>3, <2>4, Zenon
  <1>6. Signed(a) = Signed(b) <=> a = b
    BY <1>1 DEF Signed, Negative
  <1>7. /\ g.C <=> a >= b
        /\ g.Z <=> a = b
    BY <1>4, Zenon
  <1>8. Signed(a) \in Int /\ Signed(b) \in Int
    BY WordBounds DEF SignedRange
  <1> HIDE DEF FlagsHold
  <1>9. /\ FlagsHold(0, g) <=> g.C
        /\ FlagsHold(1, g) <=> ~g.C
        /\ FlagsHold(2, g) <=> g.C /\ ~g.Z
        /\ FlagsHold(3, g) <=> ~g.C \/ g.Z
        /\ FlagsHold(4, g) <=> g.Z
        /\ FlagsHold(5, g) <=> ~g.Z
        /\ FlagsHold(6, g) <=> g.N = g.V /\ ~g.Z
        /\ FlagsHold(7, g) <=> g.N # g.V \/ g.Z
        /\ FlagsHold(8, g) <=> g.N = g.V
        /\ FlagsHold(9, g) <=> g.N # g.V
    BY DEF FlagsHold
  <1>10. /\ a \in Int /\ b \in Int
         /\ a < b <=> ~(a >= b)
         /\ a > b <=> a >= b /\ a # b
         /\ a <= b <=> ~(a >= b) \/ a = b
         /\ Signed(a) < Signed(b) <=> ~(Signed(a) >= Signed(b))
         /\ Signed(a) > Signed(b) <=> Signed(a) >= Signed(b) /\ ~(a = b)
         /\ Signed(a) <= Signed(b) <=> ~(Signed(a) >= Signed(b)) \/ a = b
    BY <1>1, <1>6, <1>8
  <1> QED
    BY <1>5, <1>7, <1>9, <1>10, Zenon DEF Decide

LEMMA ModUnique ==
    ASSUME NEW m \in Nat \ {0}, NEW r \in 0 .. (m - 1), NEW q \in Int,
           NEW x \in Int, x = q * m + r
    PROVE  x % m = r
  OBVIOUS

LEMMA TwoDigitsFit ==
    ASSUME NEW m \in Nat \ {0}, NEW hi \in 0 .. (m - 1), NEW lo \in 0 .. (m - 1)
    PROVE  /\ m * m \in Nat \ {0}
           /\ hi * m + lo \in 0 .. (m * m - 1)
  <1>1. m * m \in Nat \ {0} /\ hi * m + lo \in Int
    OBVIOUS
  <1>2. hi * m + lo >= 0
    OBVIOUS
  <1>3. hi * m <= (m - 1) * m
    OBVIOUS
  <1>4. (m - 1) * m = m * m - m
    OBVIOUS
  <1> QED
    BY <1>1, <1>2, <1>3, <1>4

LEMMA SumOfTwoWords ==
    ASSUME NEW f \in Flags, NEW a \in Word, NEW b \in Word,
           NEW la \in Int, NEW lb \in Int, NEW lr \in Word, la + lb = lr + Modulus * Carry(f),
           NEW hr \in Int, hr = (((a + b) % Modulus) + Carry(f)) % Modulus
    PROVE  DoubleWord(hr, lr)
             = (DoubleWord(a, la) + DoubleWord(b, lb)) % (Modulus * Modulus)
  <1> DEFINE m == Modulus
             k == Carry(f)
             x == (a * m + la) + (b * m + lb)
             sq == m * m
             r  == hr * m + lr
  <1>1. /\ m \in Nat \ {0} /\ a \in 0 .. (m - 1) /\ b \in 0 .. (m - 1)
        /\ lr \in 0 .. (m - 1) /\ k \in {0, 1}
    BY ModulusIsTwoSigns, CarryIsABit DEF Word
  <1>2. la + lb = lr + m * k
    OBVIOUS
  <1>3. hr = (((a + b) % m) + k) % m
    OBVIOUS
  <1> HIDE DEF m, k
  <1>4. PICK q \in Int : a + b + k = hr + q * m /\ hr \in 0 .. (m - 1)
    <2>1. \/ hr = a + b + k
          \/ hr = a + b + k - m
      BY <1>1, <1>3
    <2>2. hr \in 0 .. (m - 1)
      BY <1>1, <1>3
    <2>3. 0 * m = 0 /\ 1 * m = m /\ 0 \in Int /\ 1 \in Int
      BY <1>1
    <2>4. CASE hr = a + b + k
      <3>1. a + b + k = hr + 0 * m
        BY <1>1, <2>3, <2>4
      <3> QED
        BY <3>1, <2>2, <2>3, Zenon
    <2>5. CASE hr = a + b + k - m
      <3>1. a + b + k = hr + 1 * m
        BY <1>1, <2>2, <2>3, <2>5
      <3> QED
        BY <3>1, <2>2, <2>3, Zenon
    <2> QED
      BY <2>1, <2>4, <2>5
  <1>5. x = (a + b + k) * m + lr /\ x \in Int
    BY <1>1, <1>2
  <1>6. x = q * sq + r
    <2>1. x = (hr + q * m) * m + lr
      BY <1>4, <1>5
    <2>2. (hr + q * m) * m + lr = q * sq + r
      BY <1>1, <1>4
    <2> QED
      BY <2>1, <2>2
  <1>7. sq \in Nat \ {0} /\ r \in 0 .. (sq - 1) /\ q \in Int
    BY <1>1, <1>4, TwoDigitsFit
  <1>8. x \in Int
    BY <1>5
  <1> HIDE DEF x, sq, r
  <1>9. x % sq = r
    BY <1>6, <1>7, <1>8, ModUnique
  <1> QED
    BY <1>9 DEF x, sq, r, m, DoubleWord

LEMMA DifferenceOfTwoWords ==
    ASSUME NEW f \in Flags, NEW a \in Word, NEW b \in Word,
           NEW la \in Int, NEW lb \in Int, NEW lr \in Word, la - lb = lr - Modulus * (1 - Carry(f)),
           NEW hr \in Int, hr = (((a - b) % Modulus) - (1 - Carry(f))) % Modulus
    PROVE  DoubleWord(hr, lr)
             = (DoubleWord(a, la) - DoubleWord(b, lb)) % (Modulus * Modulus)
  <1> DEFINE m == Modulus
             k == (1 - Carry(f))
             x == (a * m + la) - (b * m + lb)
             sq == m * m
             r  == hr * m + lr
  <1>1. /\ m \in Nat \ {0} /\ a \in 0 .. (m - 1) /\ b \in 0 .. (m - 1)
        /\ lr \in 0 .. (m - 1) /\ k \in {0, 1}
    BY ModulusIsTwoSigns, CarryIsABit DEF Word
  <1>2. la - lb = lr - m * k
    OBVIOUS
  <1>3. hr = (((a - b) % m) - k) % m
    OBVIOUS
  <1> HIDE DEF m, k
  <1>4. PICK q \in Int : a - b - k = hr + q * m /\ hr \in 0 .. (m - 1)
    <2>1. \/ hr = a - b - k
          \/ hr = a - b - k + m
      BY <1>1, <1>3
    <2>2. hr \in 0 .. (m - 1)
      BY <1>1, <1>3
    <2>3. 0 * m = 0 /\ (0 - 1) * m = 0 - m /\ 0 \in Int /\ (0 - 1) \in Int
      BY <1>1
    <2>4. CASE hr = a - b - k
      <3>1. a - b - k = hr + 0 * m
        BY <1>1, <2>3, <2>4
      <3> QED
        BY <3>1, <2>2, <2>3, Zenon
    <2>5. CASE hr = a - b - k + m
      <3>1. a - b - k = hr + (0 - 1) * m
        BY <1>1, <2>2, <2>3, <2>5
      <3> QED
        BY <3>1, <2>2, <2>3, Zenon
    <2> QED
      BY <2>1, <2>4, <2>5
  <1>5. x = (a - b - k) * m + lr /\ x \in Int
    BY <1>1, <1>2
  <1>6. x = q * sq + r
    <2>1. x = (hr + q * m) * m + lr
      BY <1>4, <1>5
    <2>2. (hr + q * m) * m + lr = q * sq + r
      BY <1>1, <1>4
    <2> QED
      BY <2>1, <2>2
  <1>7. sq \in Nat \ {0} /\ r \in 0 .. (sq - 1) /\ q \in Int
    BY <1>1, <1>4, TwoDigitsFit
  <1>8. x \in Int
    BY <1>5
  <1> HIDE DEF x, sq, r
  <1>9. x % sq = r
    BY <1>6, <1>7, <1>8, ModUnique
  <1> QED
    BY <1>9 DEF x, sq, r, m, DoubleWord

--------------------------------------------------------------------------------
(* The flags an operation leaves stay meaningful until the next one, and   *)
(* the carry of a low half is still there when its high half consumes it,  *)
(* so the three properties are inductive together, given the types.        *)

FlagsInv == UnitTypeOK /\ SumsExact /\ ConditionsDecideOrder /\ DoubleWordChain

LEMMA OtherOps ==
    ASSUME last'.op \notin {"add", "sub", "addc", "subc", "cmp"}
    PROVE  SumsExact' /\ ConditionsDecideOrder' /\ DoubleWordChain'
  BY Zenon DEF SumsExact, ConditionsDecideOrder, DoubleWordChain

LEMMA AddStep ==
    ASSUME UnitTypeOK, NEW a \in Word, NEW b \in Word, NEW cu \in BOOLEAN, DoAdd(a, b, cu)
    PROVE  SumsExact' /\ ConditionsDecideOrder' /\ DoubleWordChain'
  <1>1. /\ last'.op = "add" /\ last'.a = a /\ last'.b = b /\ last'.cu = cu
        /\ last'.res = Add(flags, a, b, cu).res /\ flags' = Add(flags, a, b, cu).flags
    BY LeaveFields, Zenon DEF DoAdd
  <1>2. ConditionsDecideOrder' /\ DoubleWordChain'
    BY <1>1, Zenon DEF ConditionsDecideOrder, DoubleWordChain
  <1>3. CASE cu = TRUE
    <2>1. flags \in Flags
      BY DEF UnitTypeOK
    <2> DEFINE r == Add(flags, a, b, TRUE).res
               g == Add(flags, a, b, TRUE).flags
    <2>3. a + b = r + Modulus * Num(g.C) /\ g.V = ((Signed(a) + Signed(b)) \notin SignedRange)
      BY <2>1, AddExact
    <2>4. last'.res = r /\ flags' = g
      BY <1>1, <1>3
    <2> HIDE DEF r, g
    <2>2. /\ last'.a + last'.b = last'.res + Modulus * Num(flags'.C)
          /\ flags'.V = ((Signed(last'.a) + Signed(last'.b)) \notin SignedRange)
      BY <1>1, <2>3, <2>4, Zenon
    <2> QED
      BY <1>1, <1>2, <2>2, Zenon DEF SumsExact
  <1>4. CASE cu = FALSE
    BY <1>1, <1>2, <1>4, Zenon DEF SumsExact
  <1> QED
    BY <1>3, <1>4

LEMMA SubStep ==
    ASSUME UnitTypeOK, NEW a \in Word, NEW b \in Word, NEW cu \in BOOLEAN, DoSub(a, b, cu)
    PROVE  SumsExact' /\ ConditionsDecideOrder' /\ DoubleWordChain'
  <1>1. /\ last'.op = "sub" /\ last'.a = a /\ last'.b = b /\ last'.cu = cu
        /\ last'.res = Sub(flags, a, b, cu).res /\ flags' = Sub(flags, a, b, cu).flags
    BY LeaveFields, Zenon DEF DoSub
  <1>2. DoubleWordChain'
    BY <1>1, Zenon DEF DoubleWordChain
  <1>3. CASE cu = TRUE
    <2>1. flags \in Flags /\ flags' = Sub(flags, a, b, TRUE).flags
      BY <1>1, <1>3 DEF UnitTypeOK
    <2> DEFINE r == Sub(flags, a, b, TRUE).res
               g == Sub(flags, a, b, TRUE).flags
    <2>5. a - b = r - Modulus * Num(~g.C) /\ g.V = ((Signed(a) - Signed(b)) \notin SignedRange)
      BY <2>1, SubExact, Zenon
    <2>6. last'.res = r /\ flags' = g
      BY <1>1, <1>3
    <2> HIDE DEF r, g
    <2>2. /\ last'.a - last'.b = last'.res - Modulus * Num(~flags'.C)
          /\ flags'.V = ((Signed(last'.a) - Signed(last'.b)) \notin SignedRange)
      BY <1>1, <2>5, <2>6, Zenon
    <2>3. flags' \in Flags
      BY <2>1, SubFields, Zenon DEF Outcome
    <2>4. ConditionsDecideOrder'
      <3>1. SameButT(flags', Sub(flags, a, b, TRUE).flags)
        BY <2>1, Zenon DEF SameButT
      <3> QED
        BY <1>1, <2>1, <2>3, <3>1, SubDecides, Zenon DEF ConditionsDecideOrder
    <2> QED
      BY <1>1, <1>2, <2>2, <2>4, Zenon DEF SumsExact
  <1>4. CASE cu = FALSE
    BY <1>1, <1>2, <1>4, Zenon DEF SumsExact, ConditionsDecideOrder
  <1> QED
    BY <1>3, <1>4

LEMMA CmpStep ==
    ASSUME UnitTypeOK, NEW a \in Word, NEW b \in Word, NEW tcs \in 0 .. 3,
           NEW cu \in BOOLEAN, DoCmp(a, b, tcs, cu)
    PROVE  SumsExact' /\ ConditionsDecideOrder' /\ DoubleWordChain'
  <1>1. /\ last'.op = "cmp" /\ last'.a = a /\ last'.b = b /\ last'.cu = cu
        /\ flags' = Cmp(flags, a, b, tcs, cu)
    BY DEF DoCmp, Leave
  <1>2. SumsExact' /\ DoubleWordChain'
    BY <1>1, Zenon DEF SumsExact, DoubleWordChain
  <1>3. flags \in Flags
    BY DEF UnitTypeOK
  <1>4. CASE cu = TRUE
    <2>1. flags' \in Flags /\ SameButT(flags', Sub(flags, a, b, TRUE).flags)
      <3>1. flags' = Cmp(flags, a, b, tcs, TRUE)
        BY <1>1, <1>4
      <3>2. /\ Cmp(flags, a, b, tcs, TRUE) \in Flags
            /\ SameButT(Cmp(flags, a, b, tcs, TRUE), Sub(flags, a, b, TRUE).flags)
        BY <1>3, CmpType, Zenon DEF SameButT
      <3> QED
        BY <3>1, <3>2, Zenon
    <2>2. ConditionsDecideOrder'
      BY <1>1, <1>3, <2>1, SubDecides, Zenon DEF ConditionsDecideOrder
    <2> QED
      BY <1>2, <2>2
  <1>5. CASE cu = FALSE
    BY <1>1, <1>2, <1>5, Zenon DEF ConditionsDecideOrder
  <1> QED
    BY <1>4, <1>5

LEMMA LowHalfFields ==
    ASSUME NEW op \in {"add", "sub"}, LowHalf(op).op = op
    PROVE  /\ last.op = op /\ last.cu
           /\ LowHalf(op).a = last.a /\ LowHalf(op).b = last.b /\ LowHalf(op).res = last.res
  BY DEF LowHalf, NoHalf

LEMMA LowHalfNames ==
    /\ LowHalf("add").op # "sub" /\ LowHalf("sub").op # "add"
  BY DEF LowHalf, NoHalf

LEMMA CarryIsNum ==
    ASSUME NEW f \in Flags
    PROVE  /\ Carry(f) = Num(f.C)
           /\ 1 - Carry(f) = Num(~f.C)
  BY DEF Carry, Num, Flags

LEMMA CarryStep ==
    ASSUME UnitTypeOK, SumsExact, NEW a \in Word, NEW b \in Word, NEW cu \in BOOLEAN,
           DoAddc(a, b, cu) \/ DoSubc(a, b, cu)
    PROVE  SumsExact' /\ ConditionsDecideOrder' /\ DoubleWordChain'
  <1>0. /\ flags \in Flags /\ last.res \in Word
    BY DEF UnitTypeOK
  <1>1. CASE DoAddc(a, b, cu)
    <2>1. /\ last'.op = "addc" /\ last'.a = a /\ last'.b = b
          /\ last'.res = Addc(flags, a, b, cu).res /\ last'.low = LowHalf("add")
      BY <1>1, LeaveFields, Zenon DEF DoAddc
    <2>2. SumsExact' /\ ConditionsDecideOrder'
      BY <2>1, Zenon DEF SumsExact, ConditionsDecideOrder
    <2>3. ASSUME LowHalf("add").op = "add"
          PROVE  DoubleWord(last'.res, last.res)
                   = (DoubleWord(a, last.a) + DoubleWord(b, last.b)) % (Modulus * Modulus)
      <3>1. last.op = "add" /\ last.cu
        BY <2>3, LowHalfFields
      <3>2. last.a \in Int /\ last.b \in Int
        BY <3>1, WordsAreNat DEF UnitTypeOK
      <3>3. last.a + last.b = last.res + Modulus * Carry(flags)
        BY <3>1, <1>0, CarryIsNum, Zenon DEF SumsExact
      <3>4. /\ last'.res = (((a + b) % Modulus) + Carry(flags)) % Modulus
            /\ last'.res \in Int
        <4>1. /\ Addc(flags, a, b, cu) \in Outcome
              /\ Addc(flags, a, b, cu).res = (((a + b) % Modulus) + Carry(flags)) % Modulus
          BY <1>0, AddcType, Zenon
        <4>2. Addc(flags, a, b, cu).res \in Word
          BY <4>1, Zenon DEF Outcome
        <4> QED
          BY <2>1, <4>1, <4>2, WordsAreNat, Zenon
      <3> QED
        BY <1>0, <3>2, <3>3, <3>4, SumOfTwoWords
    <2>4. DoubleWordChain'
      BY <2>1, <2>3, LowHalfFields DEF DoubleWordChain
    <2> QED
      BY <2>2, <2>4
  <1>2. CASE DoSubc(a, b, cu)
    <2>1. /\ last'.op = "subc" /\ last'.a = a /\ last'.b = b
          /\ last'.res = Subc(flags, a, b, cu).res /\ last'.low = LowHalf("sub")
      BY <1>2, LeaveFields, Zenon DEF DoSubc
    <2>2. SumsExact' /\ ConditionsDecideOrder'
      BY <2>1, Zenon DEF SumsExact, ConditionsDecideOrder
    <2>3. ASSUME LowHalf("sub").op = "sub"
          PROVE  DoubleWord(last'.res, last.res)
                   = (DoubleWord(a, last.a) - DoubleWord(b, last.b)) % (Modulus * Modulus)
      <3>1. last.op = "sub" /\ last.cu
        BY <2>3, LowHalfFields
      <3>2. last.a \in Int /\ last.b \in Int
        BY <3>1, WordsAreNat DEF UnitTypeOK
      <3>3. last.a - last.b = last.res - Modulus * (1 - Carry(flags))
        BY <3>1, <1>0, CarryIsNum, Zenon DEF SumsExact
      <3>4. /\ last'.res = (((a - b) % Modulus) - (1 - Carry(flags))) % Modulus
            /\ last'.res \in Int
        <4>1. /\ Subc(flags, a, b, cu) \in Outcome
              /\ Subc(flags, a, b, cu).res = (((a - b) % Modulus) - (1 - Carry(flags))) % Modulus
          BY <1>0, AddcType, Zenon
        <4>2. Subc(flags, a, b, cu).res \in Word
          BY <4>1, Zenon DEF Outcome
        <4> QED
          BY <2>1, <4>1, <4>2, WordsAreNat, Zenon
      <3> QED
        BY <1>0, <3>2, <3>3, <3>4, DifferenceOfTwoWords
    <2>4. DoubleWordChain'
      BY <2>1, <2>3, LowHalfFields DEF DoubleWordChain
    <2> QED
      BY <2>2, <2>4
  <1> QED
    BY <1>1, <1>2

LEMMA FlagsStep ==
    ASSUME UnitTypeOK, SumsExact, ConditionsDecideOrder, DoubleWordChain, Next
    PROVE  SumsExact' /\ ConditionsDecideOrder' /\ DoubleWordChain'
  <1>1. CASE Operate
    <2>1. PICK cu \in BOOLEAN, a \in Word :
             \/ \E b \in Word :
                 \/ DoAdd(a, b, cu)
                 \/ DoSub(a, b, cu)
                 \/ \E tcs \in 0 .. 3 : DoCmp(a, b, tcs, cu)
                 \/ DoBitOp(a, b, cu)
             \/ \E sa \in ShiftAmounts :
                 DoSll(a, sa, cu) \/ DoSrl(a, sa, cu) \/ DoSra(a, sa, cu)
             \/ \E b \in FieldWidths : DoExtend(a, b, cu)
      BY <1>1, Zenon DEF Operate
    <2>2. ASSUME NEW b \in Word, DoAdd(a, b, cu) \/ DoSub(a, b, cu)
          PROVE  SumsExact' /\ ConditionsDecideOrder' /\ DoubleWordChain'
      BY <2>2, AddStep, SubStep
    <2>3. ASSUME NEW b \in Word, NEW tcs \in 0 .. 3, DoCmp(a, b, tcs, cu)
          PROVE  SumsExact' /\ ConditionsDecideOrder' /\ DoubleWordChain'
      BY <2>3, CmpStep
    <2>4. ASSUME NEW b \in Word, DoBitOp(a, b, cu)
          PROVE  SumsExact' /\ ConditionsDecideOrder' /\ DoubleWordChain'
      <3>1. last'.op = "bit_op"
        BY <2>4, LeaveFields, Zenon DEF DoBitOp
      <3> QED
        BY <3>1, OtherOps
    <2>5. ASSUME NEW sa \in ShiftAmounts,
                 DoSll(a, sa, cu) \/ DoSrl(a, sa, cu) \/ DoSra(a, sa, cu)
          PROVE  SumsExact' /\ ConditionsDecideOrder' /\ DoubleWordChain'
      <3>1. last'.op \in {"sll", "srl", "sra"}
        BY <2>5, LeaveFields, Zenon DEF DoSll, DoSrl, DoSra
      <3> QED
        BY <3>1, OtherOps
    <2>6. ASSUME NEW b \in FieldWidths, DoExtend(a, b, cu)
          PROVE  SumsExact' /\ ConditionsDecideOrder' /\ DoubleWordChain'
      <3>1. last'.op = "ext"
        BY <2>6, LeaveFields, Zenon DEF DoExtend
      <3> QED
        BY <3>1, OtherOps
    <2> QED
      BY <2>1, <2>2, <2>3, <2>4, <2>5, <2>6, Zenon
  <1>2. CASE OperateWithCarry
    BY <1>2, CarryStep, Zenon DEF OperateWithCarry
  <1>3. CASE Forget
    <2>1. last'.op = "none"
      BY <1>3 DEF Forget, Nothing
    <2> QED
      BY <2>1, OtherOps
  <1> QED
    BY <1>1, <1>2, <1>3 DEF Next

LEMMA FlagsInvariant == Spec => []FlagsInv
  <1>1. Init => FlagsInv
    <2> SUFFICES ASSUME Init PROVE FlagsInv
      OBVIOUS
    <2>1. last.op = "none"
      BY DEF Init, Nothing
    <2>2. UnitTypeOK
      BY NothingType DEF Init, UnitTypeOK, Nothing, OpNames
    <2> QED
      BY <2>1, <2>2, Zenon DEF FlagsInv, SumsExact, ConditionsDecideOrder, DoubleWordChain
  <1>2. UnitTypeOK' /\ FlagsInv /\ [Next]_vars => FlagsInv'
    <2> SUFFICES ASSUME UnitTypeOK', FlagsInv, [Next]_vars PROVE FlagsInv'
      OBVIOUS
    <2>1. CASE Next
      BY <2>1, FlagsStep, Zenon DEF FlagsInv
    <2>2. CASE UNCHANGED vars
      BY <2>2, Zenon DEF vars, FlagsInv, UnitTypeOK, SumsExact, ConditionsDecideOrder,
         DoubleWordChain
    <2> QED
      BY <2>1, <2>2
  <1> QED
    BY <1>1, <1>2, UnitTypeCorrect, PTL DEF Spec

(* C and V say exactly whether an addition or subtraction left the unsigned *)
(* and the signed numbers, for every word size.                            *)
THEOREM FlagsMeanWhatTheySay == Spec => []SumsExact
  <1>1. FlagsInv => SumsExact
    BY Zenon DEF FlagsInv
  <1> QED
    BY <1>1, FlagsInvariant, PTL

(* After cmp.c and sub.c the ordered conditions decide what they name, for *)
(* every word size and overflowing differences included.                   *)
THEOREM ConditionsAreDecided == Spec => []ConditionsDecideOrder
  <1>1. FlagsInv => ConditionsDecideOrder
    BY Zenon DEF FlagsInv
  <1> QED
    BY <1>1, FlagsInvariant, PTL

(* add.c then addc, and sub.c then subc, compute on numbers of two words,  *)
(* for every word size and after any sequence of the helpers.              *)
THEOREM DoubleWordsChain == Spec => []DoubleWordChain
  <1>1. FlagsInv => DoubleWordChain
    BY Zenon DEF FlagsInv
  <1> QED
    BY <1>1, FlagsInvariant, PTL

--------------------------------------------------------------------------------
(* What the shifts and sign_extend compute. *)

LEMMA DivisionParts ==
    ASSUME NEW x \in Int, NEW m \in Nat \ {0}
    PROVE  /\ x \div m \in Int /\ x % m \in 0 .. (m - 1)
           /\ x = (x \div m) * m + (x % m)
  OBVIOUS

LEMMA DivisionIs ==
    ASSUME NEW m \in Nat \ {0}, NEW r \in 0 .. (m - 1), NEW q \in Int,
           NEW x \in Int, x = q * m + r
    PROVE  x \div m = q
  <1> DEFINE d == x \div m
             s == x % m
  <1>1. d \in Int /\ s \in 0 .. (m - 1) /\ x = d * m + s
    BY DivisionParts
  <1> HIDE DEF d, s
  <1>2. (d - q) * m = r - s
    BY <1>1
  <1>3. d - q \in Int /\ r - s < m /\ r - s > 0 - m
    BY <1>1
  <1>4. ASSUME d - q >= 1 PROVE FALSE
    <2>1. (d - q) * m >= 1 * m
      BY <1>3, <1>4
    <2> QED
      BY <2>1, <1>2, <1>3
  <1>5. ASSUME d - q <= 0 - 1 PROVE FALSE
    <2>1. (d - q) * m <= (0 - 1) * m
      BY <1>3, <1>5
    <2> QED
      BY <2>1, <1>2, <1>3
  <1>6. d = q
    BY <1>1, <1>3, <1>4, <1>5
  <1> QED
    BY <1>6 DEF d

(* A dividend of 2 * q: the bit below its quotient is the upper half's. *)
LEMMA LastBitOut ==
    ASSUME NEW q \in Nat \ {0}, NEW k \in Int, NEW out \in 0 .. (2 * q - 1),
           NEW a \in Int, a = k * (2 * q) + out
    PROVE  ((a \div q) % 2 = 1) = (2 * out >= 2 * q)
  <1>1. CASE out < q
    <2>1. a = (2 * k) * q + out /\ out \in 0 .. (q - 1) /\ 2 * k \in Int
      BY <1>1
    <2>2. a \div q = 2 * k
      BY <2>1, DivisionIs
    <2>3. (2 * k) % 2 = 0
      OBVIOUS
    <2> QED
      BY <1>1, <2>2, <2>3
  <1>2. CASE out >= q
    <2> DEFINE j == 2 * k + 1
               s == out - q
    <2>1. a = j * q + s /\ s \in 0 .. (q - 1) /\ j \in Int
      BY <1>2
    <2>2. j % 2 = 1
      OBVIOUS
    <2> HIDE DEF j, s
    <2>3. a \div q = j
      BY <2>1, DivisionIs
    <2> QED
      BY <1>2, <2>2, <2>3
  <1> QED
    BY <1>1, <1>2

(* p, half of it, and what is left of a word's powers above p. *)
LEMMA Powers ==
    ASSUME NEW n \in 1 .. WordBits
    PROVE  /\ Pow2[n] \in Nat \ {0} /\ Pow2[n - 1] \in Nat \ {0}
           /\ Pow2[WordBits - n] \in Nat \ {0}
           /\ Pow2[n] = 2 * Pow2[n - 1]
           /\ Pow2[n] * Pow2[WordBits - n] = Modulus
  <1>1. /\ n \in 0 .. WordBits /\ n - 1 \in 0 .. (WordBits - 1)
        /\ n - 1 \in 0 .. WordBits /\ WordBits - n \in 0 .. WordBits
        /\ (n - 1) + 1 = n
    BY WordAssumption
  <1> QED
    BY <1>1, WordAssumption, PowersAssumption DEF Modulus

LEMMA OutcomeFields ==
    ASSUME NEW f \in Flags, NEW results, NEW carries, NEW cu \in BOOLEAN,
           NEW o \in ShiftOutcomes(f, results, carries, cu)
    PROVE  /\ o.res \in results
           /\ cu => o.flags.C \in carries
  <1>1. CASE cu = TRUE
    <2>1. o \in {[res |-> x, flags |-> [BasicFlags(f, x) EXCEPT !.C = c]] :
                    x \in results, c \in carries}
      BY <1>1 DEF ShiftOutcomes
    <2>2. PICK x \in results, c \in carries :
             o = [res |-> x, flags |-> [BasicFlags(f, x) EXCEPT !.C = c]]
      BY <2>1
    <2>3. "C" \in DOMAIN BasicFlags(f, x)
      BY DEF BasicFlags, Flags
    <2>4. o.res = x /\ o.flags.C = c
      BY <2>2, <2>3
    <2> QED
      BY <2>4
  <1>2. CASE cu = FALSE
    BY <1>2 DEF ShiftOutcomes
  <1> QED
    BY <1>1, <1>2

--------------------------------------------------------------------------------
LEMMA LeftShift ==
    ASSUME NEW a \in Word, NEW n \in 1 .. (WordBits - 1)
    PROVE  LET p == Pow2[n]
               res == (a * p) % Modulus
               out == a \div Pow2[WordBits - n]
           IN  /\ out \in 0 .. (p - 1)
               /\ a * p = out * Modulus + res
               /\ Bit(a, WordBits - n) = out % 2
  <1> DEFINE p == Pow2[n]
             h == Pow2[WordBits - n]
             out == a \div h
             low == a % h
  <1>0. n \in 1 .. WordBits
    BY WordAssumption
  <1>1. p \in Nat \ {0} /\ h \in Nat \ {0} /\ p * h = Modulus
    BY <1>0, Powers, Zenon
  <1>2. a \in Int /\ a >= 0 /\ a < p * h /\ Modulus \in Nat \ {0}
    BY <1>1, WordBounds, ModulusIsTwoSigns
  <1>3. out \in Int /\ low \in 0 .. (h - 1) /\ a = out * h + low
    BY <1>1, <1>2, DivisionParts
  <1>4. Bit(a, WordBits - n) = out % 2
    BY DEF Bit
  <1> HIDE DEF p, h, out, low
  <1>5. out >= 0
    <2>1. ASSUME out <= 0 - 1 PROVE FALSE
      <3>1. out * h <= (0 - 1) * h
        BY <1>1, <1>3, <2>1
      <3> QED
        BY <3>1, <1>1, <1>2, <1>3
    <2> QED
      BY <2>1, <1>3
  <1>6. out < p
    <2>1. ASSUME out >= p PROVE FALSE
      <3>1. out * h >= p * h
        BY <1>1, <1>3, <2>1
      <3> QED
        BY <3>1, <1>1, <1>2, <1>3
    <2> QED
      BY <2>1, <1>1, <1>3
  <1>7. a * p = out * Modulus + low * p
    BY <1>1, <1>2, <1>3
  <1>8. low * p \in 0 .. (Modulus - 1)
    <2>1. low * p <= (h - 1) * p
      BY <1>1, <1>3
    <2>2. (h - 1) * p = Modulus - p
      BY <1>1, <1>2
    <2>3. low * p >= 0 /\ low * p \in Int
      BY <1>1, <1>3
    <2> QED
      BY <2>1, <2>2, <2>3, <1>1, <1>2
  <1> DEFINE x == a * p
             s == low * p
  <1>9. x \in Int /\ s \in 0 .. (Modulus - 1) /\ x = out * Modulus + s
    BY <1>1, <1>2, <1>7, <1>8
  <1>10. out \in 0 .. (p - 1)
    BY <1>1, <1>3, <1>5, <1>6
  <1> HIDE DEF x, s
  <1>11. x % Modulus = s
    BY <1>2, <1>3, <1>9, ModUnique
  <1>12. x = out * Modulus + (x % Modulus)
    BY <1>9, <1>11
  <1>13. /\ out \in 0 .. (p - 1)
         /\ a * p = out * Modulus + ((a * p) % Modulus)
         /\ Bit(a, WordBits - n) = out % 2
    BY <1>4, <1>10, <1>12, Zenon DEF x
  <1> QED
    BY <1>13, Zenon DEF p, h, out

LEMMA RightShift ==
    ASSUME NEW a \in Word, NEW n \in 1 .. (WordBits - 1)
    PROVE  LET p == Pow2[n]
               res == a \div p
               out == a % p
           IN  /\ out \in 0 .. (p - 1)
               /\ a = res * p + out
               /\ (Bit(a, n - 1) = 1) = (2 * out >= p)
  <1> DEFINE p == Pow2[n]
             q == Pow2[n - 1]
             res == a \div p
             out == a % p
  <1>0. n \in 1 .. WordBits
    BY WordAssumption
  <1>1. p \in Nat \ {0} /\ q \in Nat \ {0} /\ p = 2 * q
    BY <1>0, Powers, Zenon
  <1>2. a \in Int
    BY WordBounds
  <1>3. res \in Int /\ out \in 0 .. (p - 1) /\ a = res * p + out
    BY <1>1, <1>2, DivisionParts
  <1>4. (Bit(a, n - 1) = 1) = ((a \div q) % 2 = 1)
    BY DEF Bit
  <1> HIDE DEF p, q, res, out
  <1>5. out \in 0 .. (2 * q - 1) /\ a = res * (2 * q) + out
    BY <1>1, <1>3
  <1>6. ((a \div q) % 2 = 1) = (2 * out >= 2 * q)
    BY <1>1, <1>2, <1>3, <1>5, LastBitOut
  <1>7. (Bit(a, n - 1) = 1) = (2 * out >= p)
    BY <1>1, <1>4, <1>6
  <1> QED
    BY <1>3, <1>7 DEF p, res, out

LEMMA SignedOfRemainder ==
    ASSUME NEW d \in SignedRange
    PROVE  d % Modulus \in Word /\ Signed(d % Modulus) = d
  <1>1. /\ Modulus \in Nat \ {0} /\ SignBit \in Nat \ {0} /\ Modulus = 2 * SignBit
        /\ d \in Int /\ d >= 0 - SignBit /\ d <= SignBit - 1
    BY ModulusIsTwoSigns DEF SignedRange
  <1>2. CASE d >= 0
    <2>0. d \in 0 .. (Modulus - 1)
      BY <1>1, <1>2
    <2>1. d % Modulus = d
      BY <1>1, <2>0, ModOnce
    <2> QED
      BY <1>1, <1>2, <2>1 DEF Word, Signed, Negative
  <1>3. CASE d < 0
    <2>0. d + Modulus \in 0 .. (Modulus - 1) /\ d = (0 - 1) * Modulus + (d + Modulus)
      BY <1>1, <1>3
    <2>1. d % Modulus = d + Modulus
      BY <1>1, <2>0, ModUnique
    <2> QED
      BY <1>1, <1>3, <2>1 DEF Word, Signed, Negative
  <1> QED
    BY <1>1, <1>2, <1>3

LEMMA QuotientInRange ==
    ASSUME NEW s \in Nat \ {0}, NEW v \in (0 - s) .. (s - 1), NEW p \in Nat \ {0}
    PROVE  v \div p \in (0 - s) .. (s - 1)
  <1> DEFINE d == v \div p
             out == v % p
  <1>1. d \in Int /\ out \in 0 .. (p - 1) /\ v = d * p + out
    BY DivisionParts
  <1> HIDE DEF d, out
  <1>2. s * p >= s
    OBVIOUS
  <1>3. ASSUME d >= s PROVE FALSE
    <2>1. d * p >= s * p
      BY <1>1, <1>3
    <2> QED
      BY <2>1, <1>1, <1>2
  <1>4. ASSUME d <= 0 - s - 1 PROVE FALSE
    <2>1. d * p <= (0 - s - 1) * p
      BY <1>1, <1>4
    <2>2. (0 - s - 1) * p = 0 - s * p - p
      OBVIOUS
    <2> QED
      BY <2>1, <2>2, <1>1, <1>2
  <1>5. d \in (0 - s) .. (s - 1)
    BY <1>1, <1>3, <1>4
  <1> QED
    BY <1>5 DEF d

LEMMA SignedShift ==
    ASSUME NEW a \in Word, NEW n \in 1 .. (WordBits - 1)
    PROVE  LET p == Pow2[n]
               res == (Signed(a) \div p) % Modulus
               out == Signed(a) % p
           IN  /\ out \in 0 .. (p - 1)
               /\ Signed(a) = Signed(res) * p + out
               /\ (Bit(a, n - 1) = 1) = (2 * out >= p)
  <1> DEFINE v == Signed(a)
             p == Pow2[n]
             q == Pow2[n - 1]
             h == Pow2[WordBits - n]
             d == v \div p
             out == v % p
  <1>0. n \in 1 .. WordBits
    BY WordAssumption
  <1>1. p \in Nat \ {0} /\ q \in Nat \ {0} /\ h \in Nat \ {0} /\ p = 2 * q /\ p * h = Modulus
    BY <1>0, Powers, Zenon
  <1>2. a \in Int /\ v \in SignedRange /\ v \in Int /\ (a = v \/ a = v + Modulus)
    BY WordBounds, ModulusIsTwoSigns DEF SignedRange
  <1>3. d \in Int /\ out \in 0 .. (p - 1) /\ v = d * p + out
    BY <1>1, <1>2, DivisionParts
  <1>4. d \in SignedRange
    <2>1. SignBit \in Nat \ {0}
      BY ModulusIsTwoSigns
    <2>2. v \in (0 - SignBit) .. (SignBit - 1)
      BY <1>2, <2>1 DEF SignedRange
    <2> HIDE DEF v, p
    <2>3. v \div p \in (0 - SignBit) .. (SignBit - 1)
      BY <1>1, <2>1, <2>2, QuotientInRange, Zenon
    <2>4. SignedRange = (0 - SignBit) .. (SignBit - 1)
      BY <2>1 DEF SignedRange
    <2> QED
      BY <2>3, <2>4
  <1>5. Signed(d % Modulus) = d
    BY <1>4, SignedOfRemainder
  <1>6. (Bit(a, n - 1) = 1) = ((a \div q) % 2 = 1)
    BY DEF Bit
  <1> HIDE DEF v, p, q, h, d, out
  <1>7. PICK k \in Int : a = k * p + out
    <2>1. CASE a = v
      BY <1>3, <2>1
    <2>2. CASE a = v + Modulus
      <3>1. d + h \in Int /\ (d + h) * p = d * p + p * h
        BY <1>1, <1>3
      <3>2. a = (d + h) * p + out
        BY <1>1, <1>2, <1>3, <2>2, <3>1
      <3> QED
        BY <3>1, <3>2
    <2> QED
      BY <1>2, <2>1, <2>2
  <1>8. out \in 0 .. (2 * q - 1) /\ a = k * (2 * q) + out
    BY <1>1, <1>3, <1>7
  <1>9. ((a \div q) % 2 = 1) = (2 * out >= 2 * q)
    BY <1>1, <1>2, <1>7, <1>8, LastBitOut
  <1>10. (Bit(a, n - 1) = 1) = (2 * out >= p)
    BY <1>1, <1>6, <1>9
  <1>11. v = Signed(d % Modulus) * p + out
    BY <1>3, <1>5, Zenon
  <1> QED
    BY <1>3, <1>10, <1>11, Zenon DEF v, p, d, out

--------------------------------------------------------------------------------
LEMMA ExtensionKeeps ==
    ASSUME NEW a \in Word, NEW b \in 1 .. WordBits
    PROVE  LET p == Pow2[b]
               res == SignExtend(a, b)
           IN  /\ 2 * Signed(res) \in (0 - p) .. (p - 1)
               /\ (res - a) % p = 0
  <1> DEFINE p == Pow2[b]
             q == Pow2[b - 1]
             h == Pow2[WordBits - b]
             k == a \div p
             low == a % p
             res == SignExtend(a, b)
  <1>1. p \in Nat \ {0} /\ q \in Nat \ {0} /\ h \in Nat \ {0} /\ p = 2 * q /\ p * h = Modulus
    BY Powers, Zenon
  <1>2. a \in Int /\ Modulus = 2 * SignBit /\ SignBit \in Nat \ {0}
    BY WordBounds, ModulusIsTwoSigns
  <1>3. k \in Int /\ low \in 0 .. (p - 1) /\ a = k * p + low
    BY <1>1, <1>2, DivisionParts
  <1>4. res = IF low >= q THEN low + (Modulus - p) ELSE low
    BY DEF SignExtend
  <1>5. Signed(res) = IF res >= SignBit THEN res - Modulus ELSE res
    BY DEF Signed, Negative
  <1> HIDE DEF p, q, h, k, low, res
  <1>6. p <= Modulus
    <2>1. p * h >= p * 1
      BY <1>1
    <2> QED
      BY <1>1, <2>1
  <1>7. 2 * Signed(res) \in (0 - p) .. (p - 1)
    BY <1>1, <1>2, <1>3, <1>4, <1>5, <1>6
  <1>8. PICK j \in Int : res - a = j * p
    <2>1. CASE low >= q
      <3>1. h - k - 1 \in Int /\ (h - k - 1) * p = p * h - k * p - p
        BY <1>1, <1>3
      <3>2. res - a = (h - k - 1) * p
        BY <1>1, <1>2, <1>3, <1>4, <2>1, <3>1
      <3> QED
        BY <3>1, <3>2
    <2>2. CASE low < q
      <3>1. 0 - k \in Int /\ (0 - k) * p = 0 - k * p
        BY <1>1, <1>3
      <3>2. res - a = (0 - k) * p
        BY <1>1, <1>2, <1>3, <1>4, <2>2, <3>1
      <3> QED
        BY <3>1, <3>2
    <2> QED
      BY <1>1, <1>3, <2>1, <2>2
  <1>9. (res - a) % p = 0
    <2> DEFINE x == res - a
    <2>1. x \in Int /\ x = j * p + 0 /\ 0 \in 0 .. (p - 1)
      BY <1>1, <1>8
    <2> HIDE DEF x
    <2>2. x % p = 0
      BY <1>1, <1>8, <2>1, ModUnique
    <2> QED
      BY <2>2 DEF x
  <1> QED
    BY <1>7, <1>9, Zenon DEF p, res

--------------------------------------------------------------------------------
(* AluUnit. *)

ShiftInv == ShiftsExact /\ ExtendKeepsValue

LEMMA NotAShift ==
    ASSUME last'.op \notin {"sll", "srl", "sra", "ext"}
    PROVE  ShiftInv'
  BY Zenon DEF ShiftInv, ShiftsExact, ExtendKeepsValue

LEMMA LeftStep ==
    ASSUME UnitTypeOK, NEW a \in Word, NEW sa \in ShiftAmounts, NEW cu \in BOOLEAN,
           DoSll(a, sa, cu)
    PROVE  ShiftInv'
  <1>1. PICK o \in Sll(flags, a, sa, cu) : Leave("sll", a, sa, cu, o, NoHalf)
    BY DEF DoSll
  <1>2. /\ last'.op = "sll" /\ last'.a = a /\ last'.b = sa /\ last'.cu = cu
        /\ last'.res = o.res /\ flags' = o.flags
    BY <1>1, LeaveFields, Zenon
  <1>3. ExtendKeepsValue'
    BY <1>2, Zenon DEF ExtendKeepsValue
  <1>4. ASSUME sa \in 1 .. (WordBits - 1)
        PROVE  \E out \in 0 .. (Pow2[sa] - 1) :
                  /\ a * Pow2[sa] = out * Modulus + o.res
                  /\ cu => o.flags.C = (out % 2 = 1)
    <2> DEFINE out == a \div Pow2[WordBits - sa]
               res == (a * Pow2[sa]) % Modulus
    <2>1. /\ out \in 0 .. (Pow2[sa] - 1)
          /\ a * Pow2[sa] = out * Modulus + res
          /\ Bit(a, WordBits - sa) = out % 2
      BY <1>4, LeftShift, Zenon
    <2>2. sa < WordBits /\ sa \in 1 .. WordBits
      BY <1>4, WordAssumption
    <2>3. Sll(flags, a, sa, cu) =
             ShiftOutcomes(flags, {res}, {Bit(a, WordBits - sa) = 1}, cu)
      BY <2>2, Zenon DEF Sll
    <2> HIDE DEF out, res
    <2>7. flags \in Flags /\ o \in ShiftOutcomes(flags, {res}, {Bit(a, WordBits - sa) = 1}, cu)
      BY <1>1, <2>3, Zenon DEF UnitTypeOK
    <2>4. o.res \in {res} /\ (cu => o.flags.C \in {Bit(a, WordBits - sa) = 1})
      BY <2>7, OutcomeFields, Zenon
    <2>5. a * Pow2[sa] = out * Modulus + o.res
      BY <2>1, <2>4, Zenon
    <2>6. cu => o.flags.C = (out % 2 = 1)
      BY <2>1, <2>4, Zenon
    <2> QED
      BY <2>1, <2>5, <2>6, Zenon
  <1>5. ShiftsExact'
    BY <1>2, <1>4, Zenon DEF ShiftsExact
  <1> QED
    BY <1>3, <1>5 DEF ShiftInv

LEMMA RightStep ==
    ASSUME UnitTypeOK, NEW a \in Word, NEW sa \in ShiftAmounts, NEW cu \in BOOLEAN,
           DoSrl(a, sa, cu)
    PROVE  ShiftInv'
  <1>1. PICK o \in Srl(flags, a, sa, cu) : Leave("srl", a, sa, cu, o, NoHalf)
    BY DEF DoSrl
  <1>2. /\ last'.op = "srl" /\ last'.a = a /\ last'.b = sa /\ last'.cu = cu
        /\ last'.res = o.res /\ flags' = o.flags
    BY <1>1, LeaveFields, Zenon
  <1>3. ExtendKeepsValue'
    BY <1>2, Zenon DEF ExtendKeepsValue
  <1>4. ASSUME sa \in 1 .. (WordBits - 1)
        PROVE  \E out \in 0 .. (Pow2[sa] - 1) :
                  /\ a = o.res * Pow2[sa] + out
                  /\ cu => o.flags.C = (2 * out >= Pow2[sa])
    <2> DEFINE out == a % Pow2[sa]
               res == a \div Pow2[sa]
    <2>1. /\ out \in 0 .. (Pow2[sa] - 1)
          /\ a = res * Pow2[sa] + out
          /\ (Bit(a, sa - 1) = 1) = (2 * out >= Pow2[sa])
      BY <1>4, RightShift, Zenon
    <2>2. sa < WordBits /\ sa \in 1 .. WordBits
      BY <1>4, WordAssumption
    <2>3. Srl(flags, a, sa, cu) = ShiftOutcomes(flags, {res}, {Bit(a, sa - 1) = 1}, cu)
      BY <2>2, Zenon DEF Srl, RightCarries
    <2> HIDE DEF out, res
    <2>7. flags \in Flags /\ o \in ShiftOutcomes(flags, {res}, {Bit(a, sa - 1) = 1}, cu)
      BY <1>1, <2>3, Zenon DEF UnitTypeOK
    <2>4. o.res \in {res} /\ (cu => o.flags.C \in {Bit(a, sa - 1) = 1})
      BY <2>7, OutcomeFields, Zenon
    <2>5. a = o.res * Pow2[sa] + out
      BY <2>1, <2>4, Zenon
    <2>6. cu => o.flags.C = (2 * out >= Pow2[sa])
      BY <2>1, <2>4, Zenon
    <2> QED
      BY <2>1, <2>5, <2>6, Zenon
  <1>5. ShiftsExact'
    BY <1>2, <1>4, Zenon DEF ShiftsExact
  <1> QED
    BY <1>3, <1>5 DEF ShiftInv

LEMMA SignedStep ==
    ASSUME UnitTypeOK, NEW a \in Word, NEW sa \in ShiftAmounts, NEW cu \in BOOLEAN,
           DoSra(a, sa, cu)
    PROVE  ShiftInv'
  <1>1. PICK o \in Sra(flags, a, sa, cu) : Leave("sra", a, sa, cu, o, NoHalf)
    BY DEF DoSra
  <1>2. /\ last'.op = "sra" /\ last'.a = a /\ last'.b = sa /\ last'.cu = cu
        /\ last'.res = o.res /\ flags' = o.flags
    BY <1>1, LeaveFields, Zenon
  <1>3. ExtendKeepsValue'
    BY <1>2, Zenon DEF ExtendKeepsValue
  <1>4. ASSUME sa \in 1 .. (WordBits - 1)
        PROVE  \E out \in 0 .. (Pow2[sa] - 1) :
                  /\ Signed(a) = Signed(o.res) * Pow2[sa] + out
                  /\ cu => o.flags.C = (2 * out >= Pow2[sa])
    <2> DEFINE out == Signed(a) % Pow2[sa]
               res == (Signed(a) \div Pow2[sa]) % Modulus
    <2>1. /\ out \in 0 .. (Pow2[sa] - 1)
          /\ Signed(a) = Signed(res) * Pow2[sa] + out
          /\ (Bit(a, sa - 1) = 1) = (2 * out >= Pow2[sa])
      BY <1>4, SignedShift, Zenon
    <2>2. sa < WordBits /\ sa \in 1 .. WordBits
      BY <1>4, WordAssumption
    <2>3. Sra(flags, a, sa, cu) = ShiftOutcomes(flags, {res}, {Bit(a, sa - 1) = 1}, cu)
      BY <2>2, Zenon DEF Sra, RightCarries
    <2> HIDE DEF out, res
    <2>7. flags \in Flags /\ o \in ShiftOutcomes(flags, {res}, {Bit(a, sa - 1) = 1}, cu)
      BY <1>1, <2>3, Zenon DEF UnitTypeOK
    <2>4. o.res \in {res} /\ (cu => o.flags.C \in {Bit(a, sa - 1) = 1})
      BY <2>7, OutcomeFields, Zenon
    <2>5. Signed(a) = Signed(o.res) * Pow2[sa] + out
      BY <2>1, <2>4, Zenon
    <2>6. cu => o.flags.C = (2 * out >= Pow2[sa])
      BY <2>1, <2>4, Zenon
    <2> QED
      BY <2>1, <2>5, <2>6, Zenon
  <1>5. ShiftsExact'
    BY <1>2, <1>4, Zenon DEF ShiftsExact
  <1> QED
    BY <1>3, <1>5 DEF ShiftInv

LEMMA ExtendStep ==
    ASSUME NEW a \in Word, NEW b \in FieldWidths, NEW cu \in BOOLEAN, DoExtend(a, b, cu)
    PROVE  ShiftInv'
  <1>1. /\ last'.op = "ext" /\ last'.a = a /\ last'.b = b
        /\ last'.res = SignExtend(a, b)
    BY LeaveFields DEF DoExtend, BitOp
  <1>2. b \in 1 .. WordBits
    BY UnitAssumption
  <1>3. ShiftsExact'
    BY <1>1, Zenon DEF ShiftsExact
  <1>4. ExtendKeepsValue'
    BY <1>1, <1>2, ExtensionKeeps, Zenon DEF ExtendKeepsValue
  <1> QED
    BY <1>3, <1>4 DEF ShiftInv

LEMMA ShiftStep ==
    ASSUME UnitTypeOK, ShiftInv, [Next]_vars
    PROVE  ShiftInv'
  <1>1. CASE UNCHANGED vars
    BY <1>1, Zenon DEF ShiftInv, ShiftsExact, ExtendKeepsValue, vars
  <1>2. CASE Forget
    BY <1>2, NotAShift DEF Forget, Nothing
  <1>3. CASE OperateWithCarry
    <2>1. last'.op \in {"addc", "subc"}
      BY <1>3, LeaveFields, Zenon DEF OperateWithCarry, DoAddc, DoSubc
    <2> QED
      BY <2>1, NotAShift
  <1>4. CASE Operate
    <2>1. PICK cu \in BOOLEAN, a \in Word :
             \/ \E b \in Word :
                   \/ DoAdd(a, b, cu)
                   \/ DoSub(a, b, cu)
                   \/ \E tcs \in 0 .. 3 : DoCmp(a, b, tcs, cu)
                   \/ DoBitOp(a, b, cu)
             \/ \E sa \in ShiftAmounts :
                   \/ DoSll(a, sa, cu)
                   \/ DoSrl(a, sa, cu)
                   \/ DoSra(a, sa, cu)
             \/ \E b \in FieldWidths : DoExtend(a, b, cu)
      BY <1>4, Zenon DEF Operate
    <2>2. ASSUME NEW b \in Word,
                 \/ DoAdd(a, b, cu)
                 \/ DoSub(a, b, cu)
                 \/ \E tcs \in 0 .. 3 : DoCmp(a, b, tcs, cu)
                 \/ DoBitOp(a, b, cu)
          PROVE  ShiftInv'
      <3>1. last'.op \in {"add", "sub", "cmp", "bit_op"}
        BY <2>2, LeaveFields, Zenon DEF DoAdd, DoSub, DoCmp, DoBitOp
      <3> QED
        BY <3>1, NotAShift
    <2>3. ASSUME NEW sa \in ShiftAmounts,
                 DoSll(a, sa, cu) \/ DoSrl(a, sa, cu) \/ DoSra(a, sa, cu)
          PROVE  ShiftInv'
      BY <2>3, LeftStep, RightStep, SignedStep, Zenon
    <2>4. ASSUME NEW b \in FieldWidths, DoExtend(a, b, cu)
          PROVE  ShiftInv'
      BY <2>4, ExtendStep, Zenon
    <2> QED
      BY <2>1, <2>2, <2>3, <2>4, Zenon
  <1> QED
    BY <1>1, <1>2, <1>3, <1>4 DEF Next

LEMMA NothingYet == Init => last.op \notin {"sll", "srl", "sra", "ext"}
  BY DEF Init, Nothing

(* For every word width: shifts multiply and divide by powers of two, with *)
(* the last bit that left the word in C.                                   *)
THEOREM ShiftsAreExact == Spec => []ShiftsExact
  <1>1. Init => ShiftInv
    BY NothingYet, Zenon DEF ShiftInv, ShiftsExact, ExtendKeepsValue
  <1>2. ShiftInv => ShiftsExact
    BY DEF ShiftInv
  <1> QED
    BY <1>1, <1>2, ShiftStep, UnitTypeCorrect, PTL DEF Spec

(* For every word width and field: sign_extend keeps the field's value as  *)
(* a signed number.                                                        *)
THEOREM ExtensionsKeepValue == Spec => []ExtendKeepsValue
  <1>1. Init => ShiftInv
    BY NothingYet, Zenon DEF ShiftInv, ShiftsExact, ExtendKeepsValue
  <1>2. ShiftInv => ExtendKeepsValue
    BY DEF ShiftInv
  <1> QED
    BY <1>1, <1>2, ShiftStep, UnitTypeCorrect, PTL DEF Spec
================================================================================
