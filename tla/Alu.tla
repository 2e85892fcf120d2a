---------------------------------- MODULE Alu ----------------------------------
(***************************************************************************)
(* The arithmetic, logic and shift helpers of CPU and its condition        *)
(* evaluation (src/source/hyperscan/cpu.cpp, sign_extend and conditional   *)
(* to sra).                                                                *)
(*                                                                         *)
(* The code computes on uint32_t and tests bit 31.  Here a word is a       *)
(* number below Pow2[WordBits]; the code's WordBits is 32, a model checker *)
(* takes a few bits, the proofs any number.  A word's bits are only ever   *)
(* combined by and, or and xor, which are parameters fixed bit by bit by   *)
(* BitwiseAssumption.  Each helper takes the condition flags it may change *)
(* as an argument and returns the result with the new flags.               *)
(***************************************************************************)
EXTENDS Integers

CONSTANTS WordBits,              \* number of bits of a register
          Pow2,                  \* the powers of two, as a table
          BitAnd(_, _), BitOr(_, _), BitXor(_, _)

Modulus == Pow2[WordBits]
SignBit == Pow2[WordBits - 1]
Word    == 0 .. (Modulus - 1)
Ones    == Modulus - 1           \* ~0

Bit(x, i) == (x \div Pow2[i]) % 2

ASSUME WordAssumption ==
    /\ WordBits \in Nat \ {0}
    /\ Pow2 \in [0 .. WordBits -> Nat \ {0}]
    /\ Pow2[0] = 1
    /\ \A i \in 0 .. (WordBits - 1) : Pow2[i + 1] = 2 * Pow2[i]
    /\ \A i \in 0 .. WordBits : Pow2[i] <= Pow2[WordBits]

(* The powers above and below a bit multiply to the modulus: this follows   *)
(* from the line before by induction on i, which the provers cannot do.     *)
ASSUME PowersAssumption ==
    \A i \in 0 .. WordBits : Pow2[i] * Pow2[WordBits - i] = Pow2[WordBits]

ASSUME BitwiseAssumption ==
    \A a, b \in Word :
        /\ BitAnd(a, b) \in Word
        /\ BitOr(a, b) \in Word
        /\ BitXor(a, b) \in Word
        /\ \A i \in 0 .. (WordBits - 1) :
             /\ Bit(BitAnd(a, b), i) = Bit(a, i) * Bit(b, i)
             /\ Bit(BitOr(a, b), i)  = (Bit(a, i) + Bit(b, i) + 1) \div 2
             /\ Bit(BitXor(a, b), i) = (Bit(a, i) + Bit(b, i)) % 2

--------------------------------------------------------------------------------
(* Condition flags: the low five bits of cr1, named V, C, Z, N, T in cpu.h. *)

Flags == [V : BOOLEAN, C : BOOLEAN, Z : BOOLEAN, N : BOOLEAN, T : BOOLEAN]

NoFlags == [V |-> FALSE, C |-> FALSE, Z |-> FALSE, N |-> FALSE, T |-> FALSE]

(* What a helper yields: the value it returns and the flags it leaves. *)
Outcome == [res : Word, flags : Flags]

Negative(x) == x >= SignBit                     \* bit 31

Signed(x) == IF Negative(x) THEN x - Modulus ELSE x     \* int32_t(x)

SignedRange == (0 - SignBit) .. (SignBit - 1)

Carry(f) == IF f.C THEN 1 ELSE 0

(* Mutation: the bits above the field are not masked off. *)
SignExtendUnmasked(x, b) ==
    IF x >= Pow2[b - 1] THEN x + (Modulus - Pow2[b]) ELSE x

(* Mutation: the field's smallest negative value is taken for positive. *)
SignExtendOffByOne(x, b) ==
    LET low == x % Pow2[b]
    IN  IF low > Pow2[b - 1] THEN low + (Modulus - Pow2[b]) ELSE low

(* sign_extend: the low b bits of x, extended with copies of bit b - 1. *)
SignExtend(x, b) ==
    LET low == x % Pow2[b]
    IN  IF low >= Pow2[b - 1] THEN low + (Modulus - Pow2[b]) ELSE low

(* basic_flags: N and Z of a result. *)
BasicFlags(f, res) == [f EXCEPT !.N = Negative(res), !.Z = (res = 0)]

(* Mutation: a sum of all ones counts as a carry. *)
AddCarryEarly(f, a, b, cu) ==
    LET res == (a + b) % Modulus
    IN  [res   |-> res,
         flags |-> IF cu
                   THEN [BasicFlags(f, res) EXCEPT
                           !.C = b >= Ones - a,
                           !.V = /\ Negative(a) = Negative(b)
                                 /\ Negative(a) # Negative(res)]
                   ELSE f]

Add(f, a, b, cu) ==
    LET res == (a + b) % Modulus
    IN  [res   |-> res,
         flags |-> IF cu
                   THEN [BasicFlags(f, res) EXCEPT
                           !.C = b > Ones - a,
                           !.V = /\ Negative(a) = Negative(b)
                                 /\ Negative(a) # Negative(res)]
                   ELSE f]

Sub(f, a, b, cu) ==
    LET res == (a - b) % Modulus
    IN  [res   |-> res,
         flags |-> IF cu
                   THEN [BasicFlags(f, res) EXCEPT
                           !.C = a >= b,
                           !.V = /\ Negative(a) # Negative(b)
                                 /\ Negative(res) = Negative(b)]
                   ELSE f]

(* addc and subc nest two additions or subtractions; only the outer one    *)
(* reaches the flags.                                                      *)
Addc(f, a, b, cu) == Add(f, Add(f, a, b, FALSE).res, Carry(f), cu)

(* Mutation: C is taken for a borrow. *)
SubcBorrowing(f, a, b, cu) == Sub(f, Sub(f, a, b, FALSE).res, Carry(f), cu)

Subc(f, a, b, cu) == Sub(f, Sub(f, a, b, FALSE).res, 1 - Carry(f), cu)

(* cmp: nothing at all without the .c suffix; T by the tcs field. *)
Cmp(f, a, b, tcs, cu) ==
    LET g == Sub(f, a, b, TRUE).flags
    IN  IF ~cu THEN f
        ELSE CASE tcs = 0 -> [g EXCEPT !.T = g.Z]
               [] tcs = 1 -> [g EXCEPT !.T = g.N]
               [] OTHER   -> g

(* bit_op: C and V keep their values. *)
BitOp(f, res, cu) ==
    [res |-> res, flags |-> IF cu THEN BasicFlags(f, res) ELSE f]

--------------------------------------------------------------------------------
(* Shifts.  A shift by WordBits or more, and the flag mask 1 << -1 or       *)
(* 1 << 32 that a shift by zero computes, are undefined in C++: the result  *)
(* or the carry is then any value.  Each helper yields its set of outcomes. *)

ShiftOutcomes(f, results, carries, cu) ==
    IF cu THEN {[res |-> x, flags |-> [BasicFlags(f, x) EXCEPT !.C = c]] :
                   x \in results, c \in carries}
          ELSE {[res |-> x, flags |-> f] : x \in results}

(* Mutation: the first bit that stays is taken for the last one shifted out. *)
RightCarriesLate(a, sa) ==
    IF sa \in 1 .. (WordBits - 1) THEN {Bit(a, sa) = 1} ELSE BOOLEAN

(* 1 << (sa - 1) picks the last bit shifted out to the right. *)
RightCarries(a, sa) ==
    IF sa \in 1 .. WordBits THEN {Bit(a, sa - 1) = 1} ELSE BOOLEAN

Sll(f, a, sa, cu) ==
    ShiftOutcomes(f,
        IF sa < WordBits THEN {(a * Pow2[sa]) % Modulus} ELSE Word,
        IF sa \in 1 .. WordBits THEN {Bit(a, WordBits - sa) = 1} ELSE BOOLEAN,
        cu)

Srl(f, a, sa, cu) ==
    ShiftOutcomes(f,
        IF sa < WordBits THEN {a \div Pow2[sa]} ELSE Word,
        RightCarries(a, sa), cu)

Sra(f, a, sa, cu) ==
    ShiftOutcomes(f,
        IF sa < WordBits THEN {(Signed(a) \div Pow2[sa]) % Modulus} ELSE Word,
        RightCarries(a, sa), cu)

--------------------------------------------------------------------------------
(* conditional: the patterns 0 to 15; anything above is never taken.        *)
(* Pattern 14 counts CNT down when the caller asks for it.                  *)

CntPattern == 14

(* Mutation: the loop goes round once more. *)
CntHoldsAtZero(cnt, dec) == cnt # 0 /\ cnt - dec >= 0

CntHolds(cnt, dec) == cnt # 0 /\ cnt - dec > 0

CntAfter(pattern, cnt, dec) ==
    IF pattern = CntPattern /\ cnt # 0 THEN cnt - dec ELSE cnt

(* Mutation: gt also holds for equal operands. *)
FlagsHoldLoose(pattern, f) ==
    \/ pattern = 0  /\ f.C
    \/ pattern = 1  /\ ~f.C
    \/ pattern = 2  /\ (f.C /\ ~f.Z)
    \/ pattern = 3  /\ (~f.C \/ f.Z)
    \/ pattern = 4  /\ f.Z
    \/ pattern = 5  /\ ~f.Z
    \/ pattern \in {6, 8}  /\ f.N = f.V
    \/ pattern = 7  /\ (f.N # f.V \/ f.Z)
    \/ pattern = 9  /\ f.N # f.V
    \/ pattern = 15

FlagsHold(pattern, f) ==
    \/ pattern = 0  /\ f.C                                   \* cs  gtu-or-eq
    \/ pattern = 1  /\ ~f.C                                  \* cc
    \/ pattern = 2  /\ (f.C /\ ~f.Z)                         \* gtu
    \/ pattern = 3  /\ (~f.C \/ f.Z)                         \* leu
    \/ pattern = 4  /\ f.Z                                   \* eq
    \/ pattern = 5  /\ ~f.Z                                  \* ne
    \/ pattern = 6  /\ (f.N = f.V /\ ~f.Z)                   \* gt
    \/ pattern = 7  /\ (f.N # f.V \/ f.Z)                    \* le
    \/ pattern = 8  /\ f.N = f.V                             \* ge
    \/ pattern = 9  /\ f.N # f.V                             \* lt
    \/ pattern = 10 /\ f.N                                   \* mi
    \/ pattern = 11 /\ ~f.N                                  \* pl
    \/ pattern = 12 /\ f.V                                   \* vs
    \/ pattern = 13 /\ ~f.V                                  \* vc
    \/ pattern = 15                                          \* always

Conditional(pattern, f, cnt, dec) ==
    IF pattern = CntPattern THEN CntHolds(cnt, dec) ELSE FlagsHold(pattern, f)
================================================================================
