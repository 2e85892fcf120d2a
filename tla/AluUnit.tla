-------------------------------- MODULE AluUnit --------------------------------
(***************************************************************************)
(* The helpers of Alu as a machine: any sequence of them, on any operands, *)
(* sharing the flags and CNT as consecutive instructions do.  last is the  *)
(* history the properties need: the operation just done, its operands and  *)
(* result, the carry it found, and, when the step before it was the        *)
(* low-order half of a two-word addition or subtraction, that half.        *)
(***************************************************************************)
EXTENDS Alu

CONSTANTS ShiftAmounts,          \* values of the uint8_t shift parameter
          FieldWidths            \* widths sign_extend is called with

ASSUME UnitAssumption ==
    /\ ShiftAmounts \subseteq Nat
    /\ FieldWidths \subseteq 1 .. WordBits

VARIABLES flags, last
vars == <<flags, last>>

NoHalf == [op |-> "none", a |-> 0, b |-> 0, res |-> 0]

Nothing == [op |-> "none", a |-> 0, b |-> 0, res |-> 0,
            cu |-> FALSE, cin |-> FALSE, low |-> NoHalf]

Init == flags = NoFlags /\ last = Nothing

(* The history is dropped before the next operation, unless that completes *)
(* a two-word operation.  The flags stay.                                  *)
Forget == last # Nothing /\ last' = Nothing /\ UNCHANGED flags

(* Leave outcome o of op on a and b; low is the half this step completes. *)
Leave(op, a, b, cu, o, low) ==
    /\ flags' = o.flags
    /\ last' = [op |-> op, a |-> a, b |-> b, res |-> o.res,
                cu |-> cu, cin |-> flags.C, low |-> low]

(* The step before, if it was op.c: the half whose carry an addc consumes. *)
LowHalf(op) ==
    IF last.op = op /\ last.cu
    THEN [op |-> op, a |-> last.a, b |-> last.b, res |-> last.res]
    ELSE NoHalf

DoAdd(a, b, cu)  == Leave("add", a, b, cu, Add(flags, a, b, cu), NoHalf)
DoSub(a, b, cu)  == Leave("sub", a, b, cu, Sub(flags, a, b, cu), NoHalf)
DoAddc(a, b, cu) == Leave("addc", a, b, cu, Addc(flags, a, b, cu), LowHalf("add"))
DoSubc(a, b, cu) == Leave("subc", a, b, cu, Subc(flags, a, b, cu), LowHalf("sub"))

DoCmp(a, b, tcs, cu) ==
    Leave("cmp", a, b, cu, [res |-> 0, flags |-> Cmp(flags, a, b, tcs, cu)], NoHalf)

DoBitOp(a, b, cu) ==
    \E res \in {BitAnd(a, b), BitOr(a, b), BitXor(a, b)} :
        Leave("bit_op", a, b, cu, BitOp(flags, res, cu), NoHalf)

DoSll(a, sa, cu) == \E o \in Sll(flags, a, sa, cu) : Leave("sll", a, sa, cu, o, NoHalf)
DoSrl(a, sa, cu) == \E o \in Srl(flags, a, sa, cu) : Leave("srl", a, sa, cu, o, NoHalf)
DoSra(a, sa, cu) == \E o \in Sra(flags, a, sa, cu) : Leave("sra", a, sa, cu, o, NoHalf)

(* extsb and extsh: sign_extend, then basic_flags of the result. *)
DoExtend(a, b, cu) ==
    LET res == SignExtend(a, b)
    IN  Leave("ext", a, b, cu, BitOp(flags, res, cu), NoHalf)

Operate ==
    /\ last = Nothing
    /\ \E cu \in BOOLEAN, a \in Word :
        \/ \E b \in Word :
            \/ DoAdd(a, b, cu)
            \/ DoSub(a, b, cu)
            \/ \E tcs \in 0 .. 3 : DoCmp(a, b, tcs, cu)
            \/ DoBitOp(a, b, cu)
        \/ \E sa \in ShiftAmounts :
            \/ DoSll(a, sa, cu)
            \/ DoSrl(a, sa, cu)
            \/ DoSra(a, sa, cu)
        \/ \E b \in FieldWidths : DoExtend(a, b, cu)

OperateWithCarry ==
    /\ last = Nothing \/ LowHalf("add") # NoHalf \/ LowHalf("sub") # NoHalf
    /\ \E cu \in BOOLEAN, a, b \in Word : DoAddc(a, b, cu) \/ DoSubc(a, b, cu)

Next == Operate \/ OperateWithCarry \/ Forget

Spec == Init /\ [][Next]_vars

--------------------------------------------------------------------------------
HalfOp == [op : {"none", "add", "sub"}, a : Word, b : Word, res : Word]

OpNames == {"none", "add", "sub", "addc", "subc", "cmp", "bit_op",
            "sll", "srl", "sra", "ext"}

(* The type of the flags and of the history. *)
UnitTypeOK ==
    /\ flags \in Flags
    /\ last \in [op : OpNames, a : Nat, b : Nat, res : Word,
                cu : BOOLEAN, cin : BOOLEAN, low : HalfOp]
    /\ last.op \in {"add", "sub"} => last.a \in Word /\ last.b \in Word

Num(bool) == IF bool THEN 1 ELSE 0

(* After add.c and sub.c the result and C together are the exact unsigned  *)
(* sum or difference, and V tells whether the exact signed one is out of   *)
(* range: the carry test on 0xFFFFFFFF - a and the sign-bit formulas of    *)
(* add and sub in cpu.cpp agree with integer arithmetic on every operand.  *)
SumsExact ==
    /\ last.op = "add" /\ last.cu =>
         /\ last.a + last.b = last.res + Modulus * Num(flags.C)
         /\ flags.V = ((Signed(last.a) + Signed(last.b)) \notin SignedRange)
    /\ last.op = "sub" /\ last.cu =>
         /\ last.a - last.b = last.res - Modulus * Num(~flags.C)
         /\ flags.V = ((Signed(last.a) - Signed(last.b)) \notin SignedRange)

(* The ordered patterns of conditional hold exactly when a and b are so    *)
(* related: unsigned for cs, cc, gtu, leu, signed for gt, le, ge, lt.      *)
Decide(g, a, b) ==
    /\ FlagsHold(0, g) <=> a >= b
    /\ FlagsHold(1, g) <=> a < b
    /\ FlagsHold(2, g) <=> a > b
    /\ FlagsHold(3, g) <=> a <= b
    /\ FlagsHold(4, g) <=> a = b
    /\ FlagsHold(5, g) <=> a # b
    /\ FlagsHold(6, g) <=> Signed(a) > Signed(b)
    /\ FlagsHold(7, g) <=> Signed(a) <= Signed(b)
    /\ FlagsHold(8, g) <=> Signed(a) >= Signed(b)
    /\ FlagsHold(9, g) <=> Signed(a) < Signed(b)

(* After cmp.c or sub.c on a and b, conditional decides how a and b are    *)
(* ordered, overflowing differences included.                              *)
ConditionsDecideOrder ==
    last.op \in {"cmp", "sub"} /\ last.cu => Decide(flags, last.a, last.b)

(* The number whose high and low words are hi and lo. *)
DoubleWord(hi, lo) == hi * Modulus + lo

(* add.c on the low words followed by addc on the high words adds two-word *)
(* numbers (sub.c and subc subtract them): the carry add leaves is the one *)
(* addc adds, and subc's borrow is the complement of the carry sub leaves. *)
DoubleWordChain ==
    LET X == DoubleWord(last.a, last.low.a)
        Y == DoubleWord(last.b, last.low.b)
        R == DoubleWord(last.res, last.low.res)
    IN  /\ last.op = "addc" /\ last.low.op = "add" => R = (X + Y) % (Modulus * Modulus)
        /\ last.op = "subc" /\ last.low.op = "sub" => R = (X - Y) % (Modulus * Modulus)

(* Shifts by 1 to WordBits - 1 multiply by the power of two modulo the     *)
(* word, or divide by it rounding down (sra: as a signed number); with the *)
(* .c suffix C is the last bit that left the word.                         *)
ShiftsExact ==
    last.b \in 1 .. (WordBits - 1) =>
        LET p == Pow2[last.b]
        IN  /\ last.op = "sll" =>
                 \E out \in 0 .. (p - 1) :
                    /\ last.a * p = out * Modulus + last.res
                    /\ last.cu => flags.C = (out % 2 = 1)
            /\ last.op = "srl" =>
                 \E out \in 0 .. (p - 1) :
                    /\ last.a = last.res * p + out
                    /\ last.cu => flags.C = (2 * out >= p)
            /\ last.op = "sra" =>
                 \E out \in 0 .. (p - 1) :
                    /\ Signed(last.a) = Signed(last.res) * p + out
                    /\ last.cu => flags.C = (2 * out >= p)

(* sign_extend(x, b) is the one word whose signed value fits in b bits and *)
(* which agrees with x in its low b bits.                                  *)
ExtendKeepsValue ==
    last.op = "ext" =>
        LET p == Pow2[last.b]
        IN  /\ 2 * Signed(last.res) \in (0 - p) .. (p - 1)
            /\ (last.res - last.a) % p = 0

(* The S+core7 guide in docs/s_core7.pdf, page 18, says of addc.c: C is    *)
(* the carry of rA + rB + C.  The code takes C from the outer of its two   *)
(* additions only.                                                         *)
AddcCarriesOut ==
    last.op = "addc" /\ last.cu =>
        flags.C = (last.a + last.b + Num(last.cin) >= Modulus)
================================================================================
