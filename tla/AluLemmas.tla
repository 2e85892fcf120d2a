------------------------------- MODULE AluLemmas -------------------------------
(* What the helpers of Alu return, for every word width: lemmas that the   *)
(* proofs about the modules built on Alu share.                            *)
EXTENDS Alu, TLAPS

LEMMA ModulusIsTwoSigns ==
    /\ Modulus \in Nat /\ SignBit \in Nat
    /\ SignBit >= 1 /\ Modulus = 2 * SignBit
  <1>1. /\ WordBits \in 0 .. WordBits
        /\ WordBits - 1 \in 0 .. (WordBits - 1)
        /\ WordBits - 1 \in 0 .. WordBits
        /\ (WordBits - 1) + 1 = WordBits
    BY WordAssumption
  <1>2. Pow2[WordBits] \in Nat \ {0} /\ Pow2[WordBits - 1] \in Nat \ {0}
    BY <1>1, WordAssumption
  <1>3. Pow2[WordBits] = 2 * Pow2[WordBits - 1]
    BY <1>1, WordAssumption
  <1> QED
    BY <1>2, <1>3 DEF Modulus, SignBit

LEMMA ModOnce ==
    ASSUME NEW m \in Nat \ {0}, NEW x \in Int
    PROVE  /\ x \in 0 .. (m - 1) => x % m = x
           /\ x \in m .. (2 * m - 1) => x % m = x - m
           /\ x \in (0 - m) .. (0 - 1) => x % m = x + m
           /\ x % m \in 0 .. (m - 1)
  OBVIOUS

LEMMA WordBounds ==
    ASSUME NEW x \in Word
    PROVE  /\ x \in Nat /\ x < Modulus
           /\ Signed(x) \in SignedRange
           /\ Negative(x) \in BOOLEAN
           /\ Negative(x) <=> Signed(x) < 0
           /\ Signed(x) = IF Negative(x) THEN x - Modulus ELSE x
  BY ModulusIsTwoSigns DEF Word, Signed, Negative, SignedRange

LEMMA CarryIsABit == ASSUME NEW f \in Flags PROVE Carry(f) \in {0, 1}
  BY DEF Carry

--------------------------------------------------------------------------------
(* What the helpers return is a word and flags. *)

LEMMA BasicFlagsType ==
    ASSUME NEW f \in Flags, NEW x \in Word
    PROVE  /\ BasicFlags(f, x) \in Flags
           /\ BasicFlags(f, x).N = Negative(x)
           /\ BasicFlags(f, x).Z = (x = 0)
           /\ BasicFlags(f, x).C = f.C
           /\ BasicFlags(f, x).V = f.V
           /\ BasicFlags(f, x).T = f.T
  BY WordBounds DEF BasicFlags, Flags

LEMMA AddFields ==
    ASSUME NEW f \in Flags, NEW a \in Word, NEW b \in Word
    PROVE  LET o == Add(f, a, b, TRUE)
           IN  /\ o.res = (a + b) % Modulus
               /\ o \in Outcome
               /\ o.flags.C = (b > Ones - a)
               /\ o.flags.V = (Negative(a) = Negative(b) /\ Negative(a) # Negative(o.res))
               /\ o.flags.Z = (o.res = 0)
               /\ o.flags.N = Negative(o.res)
  <1> DEFINE res == (a + b) % Modulus
             g   == BasicFlags(f, res)
             c   == b > Ones - a
             v   == Negative(a) = Negative(b) /\ Negative(a) # Negative(res)
             h   == [g EXCEPT !.C = c, !.V = v]
  <1>1. res \in Word
    BY ModulusIsTwoSigns, ModOnce, WordBounds DEF Word
  <1>2. g \in Flags
    BY <1>1, BasicFlagsType
  <1>3. c \in BOOLEAN /\ v \in BOOLEAN
    OBVIOUS
  <1>4. g.Z = (res = 0) /\ g.N = Negative(res)
    BY <1>1, BasicFlagsType
  <1>5. Add(f, a, b, TRUE).res = res
    BY Zenon DEF Add
  <1>6. Add(f, a, b, TRUE).flags = h
    BY Zenon DEF Add
  <1>7. Add(f, a, b, TRUE) = [res |-> res, flags |-> h]
    BY DEF Add
  <1> HIDE DEF g, c, v, res
  <1>8. h \in Flags /\ h.C = c /\ h.V = v /\ h.Z = g.Z /\ h.N = g.N
    BY <1>2, <1>3, Zenon DEF Flags
  <1> HIDE DEF h
  <1>9. h \in Flags
    BY <1>8
  <1>10. [res |-> res, flags |-> h] \in Outcome
    BY <1>1, <1>9, Zenon DEF Outcome
  <1>11. Add(f, a, b, TRUE) \in Outcome
    BY <1>7, <1>10
  <1> QED
    BY <1>4, <1>5, <1>6, <1>8, <1>11, Zenon DEF res, c, v

LEMMA SubFields ==
    ASSUME NEW f \in Flags, NEW a \in Word, NEW b \in Word
    PROVE  LET o == Sub(f, a, b, TRUE)
           IN  /\ o.res = (a - b) % Modulus
               /\ o \in Outcome
               /\ o.flags.C = (a >= b)
               /\ o.flags.V = (Negative(a) # Negative(b) /\ Negative(o.res) = Negative(b))
               /\ o.flags.Z = (o.res = 0)
               /\ o.flags.N = Negative(o.res)
  <1> DEFINE res == (a - b) % Modulus
             g   == BasicFlags(f, res)
             c   == a >= b
             v   == Negative(a) # Negative(b) /\ Negative(res) = Negative(b)
             h   == [g EXCEPT !.C = c, !.V = v]
  <1>1. res \in Word
    BY ModulusIsTwoSigns, ModOnce, WordBounds DEF Word
  <1>2. g \in Flags
    BY <1>1, BasicFlagsType
  <1>3. c \in BOOLEAN /\ v \in BOOLEAN
    OBVIOUS
  <1>4. g.Z = (res = 0) /\ g.N = Negative(res)
    BY <1>1, BasicFlagsType
  <1>5. Sub(f, a, b, TRUE).res = res
    BY Zenon DEF Sub
  <1>6. Sub(f, a, b, TRUE).flags = h
    BY Zenon DEF Sub
  <1>7. Sub(f, a, b, TRUE) = [res |-> res, flags |-> h]
    BY DEF Sub
  <1> HIDE DEF g, c, v, res
  <1>8. h \in Flags /\ h.C = c /\ h.V = v /\ h.Z = g.Z /\ h.N = g.N
    BY <1>2, <1>3, Zenon DEF Flags
  <1> HIDE DEF h
  <1>9. h \in Flags
    BY <1>8
  <1>10. [res |-> res, flags |-> h] \in Outcome
    BY <1>1, <1>9, Zenon DEF Outcome
  <1>11. Sub(f, a, b, TRUE) \in Outcome
    BY <1>7, <1>10
  <1> QED
    BY <1>4, <1>5, <1>6, <1>8, <1>11, Zenon DEF res, c, v

LEMMA AddSubType ==
    ASSUME NEW f \in Flags, NEW a \in Word, NEW b \in Word, NEW cu \in BOOLEAN
    PROVE  /\ Add(f, a, b, cu) \in Outcome
           /\ Sub(f, a, b, cu) \in Outcome
           /\ Add(f, a, b, cu).res = (a + b) % Modulus
           /\ Sub(f, a, b, cu).res = (a - b) % Modulus
           /\ ~cu => Add(f, a, b, cu).flags = f /\ Sub(f, a, b, cu).flags = f
  <1>1. CASE cu = TRUE
    BY <1>1, AddFields, SubFields
  <1>2. CASE cu = FALSE
    <2>1. (a + b) % Modulus \in Word /\ (a - b) % Modulus \in Word
      BY ModulusIsTwoSigns, ModOnce, WordBounds DEF Word
    <2> QED
      BY <1>2, <2>1 DEF Add, Sub, Outcome
  <1> QED
    BY <1>1, <1>2

--------------------------------------------------------------------------------
(* Types of the remaining helpers. *)

LEMMA AddcType ==
    ASSUME NEW f \in Flags, NEW a \in Word, NEW b \in Word, NEW cu \in BOOLEAN
    PROVE  /\ Addc(f, a, b, cu) \in Outcome
           /\ Subc(f, a, b, cu) \in Outcome
           /\ Addc(f, a, b, cu).res = (((a + b) % Modulus) + Carry(f)) % Modulus
           /\ Subc(f, a, b, cu).res = (((a - b) % Modulus) - (1 - Carry(f))) % Modulus
  <1>1. Carry(f) \in Word /\ 1 - Carry(f) \in Word
    BY CarryIsABit, ModulusIsTwoSigns DEF Word
  <1>2. /\ Add(f, a, b, FALSE).res \in Word
        /\ Sub(f, a, b, FALSE).res \in Word
        /\ Add(f, a, b, FALSE).res = (a + b) % Modulus
        /\ Sub(f, a, b, FALSE).res = (a - b) % Modulus
    BY AddSubType DEF Outcome
  <1> DEFINE x == Add(f, a, b, FALSE).res
             y == Sub(f, a, b, FALSE).res
             k == Carry(f)
  <1>3. /\ Addc(f, a, b, cu) = Add(f, x, k, cu)
        /\ Subc(f, a, b, cu) = Sub(f, y, 1 - k, cu)
    BY DEF Addc, Subc
  <1>5. x \in Word /\ y \in Word /\ k \in Word /\ 1 - k \in Word
    BY <1>1, <1>2
  <1> HIDE DEF x, y, k
  <1>4. /\ Add(f, x, k, cu) \in Outcome
        /\ Add(f, x, k, cu).res = (x + k) % Modulus
        /\ Sub(f, y, 1 - k, cu) \in Outcome
        /\ Sub(f, y, 1 - k, cu).res = (y - (1 - k)) % Modulus
    BY <1>5, AddSubType
  <1> QED
    BY <1>2, <1>3, <1>4 DEF x, y, k

LEMMA CmpType ==
    ASSUME NEW f \in Flags, NEW a \in Word, NEW b \in Word,
           NEW tcs \in 0 .. 3, NEW cu \in BOOLEAN
    PROVE  /\ Cmp(f, a, b, tcs, cu) \in Flags
           /\ cu => LET g == Sub(f, a, b, TRUE).flags
                        h == Cmp(f, a, b, tcs, cu)
                    IN  h.C = g.C /\ h.Z = g.Z /\ h.N = g.N /\ h.V = g.V
  <1> DEFINE g == Sub(f, a, b, TRUE).flags
  <1>1. g \in Flags
    BY SubFields DEF Outcome
  <1> HIDE DEF g
  <1>2. /\ \A t \in BOOLEAN : [g EXCEPT !.T = t] \in Flags
        /\ \A t \in BOOLEAN : /\ [g EXCEPT !.T = t].C = g.C
                             /\ [g EXCEPT !.T = t].Z = g.Z
                             /\ [g EXCEPT !.T = t].N = g.N
                             /\ [g EXCEPT !.T = t].V = g.V
        /\ g.Z \in BOOLEAN /\ g.N \in BOOLEAN
    BY <1>1, Zenon DEF Flags
  <1>3. CASE ~cu
    BY <1>3 DEF Cmp
  <1>4. CASE cu
    <2>1. CASE tcs = 0
      <3>1. Cmp(f, a, b, tcs, cu) = [g EXCEPT !.T = g.Z]
        BY <1>4, <2>1 DEF Cmp, g
      <3> QED
        BY <3>1, <1>2, Zenon DEF g
    <2>2. CASE tcs = 1
      <3>1. Cmp(f, a, b, tcs, cu) = [g EXCEPT !.T = g.N]
        BY <1>4, <2>2 DEF Cmp, g
      <3> QED
        BY <3>1, <1>2, Zenon DEF g
    <2>3. CASE tcs # 0 /\ tcs # 1
      <3>1. Cmp(f, a, b, tcs, cu) = g
        BY <1>4, <2>3 DEF Cmp, g
      <3> QED
        BY <3>1, <1>1, Zenon DEF g
    <2> QED
      BY <2>1, <2>2, <2>3
  <1> QED
    BY <1>3, <1>4

LEMMA BitOpType ==
    ASSUME NEW f \in Flags, NEW res \in Word, NEW cu \in BOOLEAN
    PROVE  BitOp(f, res, cu) \in Outcome
  BY BasicFlagsType DEF BitOp, Outcome

LEMMA ShiftOutcomesType ==
    ASSUME NEW f \in Flags, NEW results \in SUBSET Word,
           NEW carries \in SUBSET BOOLEAN, NEW cu \in BOOLEAN,
           NEW o \in ShiftOutcomes(f, results, carries, cu)
    PROVE  o \in Outcome
  <1>1. CASE cu
    <2>1. PICK x \in results, c \in carries :
             o = [res |-> x, flags |-> [BasicFlags(f, x) EXCEPT !.C = c]]
      BY <1>1 DEF ShiftOutcomes
    <2>2. x \in Word /\ c \in BOOLEAN
      OBVIOUS
    <2>3. BasicFlags(f, x) \in Flags
      BY <2>2, BasicFlagsType
    <2>4. [BasicFlags(f, x) EXCEPT !.C = c] \in Flags
      BY <2>2, <2>3, Zenon DEF Flags
    <2> QED
      BY <2>1, <2>2, <2>4, Zenon DEF Outcome
  <1>2. CASE ~cu
    <2>1. PICK x \in results : o = [res |-> x, flags |-> f]
      BY <1>2 DEF ShiftOutcomes
    <2> QED
      BY <2>1, Zenon DEF Outcome
  <1> QED
    BY <1>1, <1>2

LEMMA DivSmaller ==
    ASSUME NEW m \in Nat \ {0}, NEW x \in 0 .. (m - 1), NEW p \in Nat \ {0}
    PROVE  x \div p \in 0 .. (m - 1)
  <1>1. x \div p >= 0
    OBVIOUS
  <1>2. x \div p <= x
    OBVIOUS
  <1> QED
    BY <1>1, <1>2

LEMMA ShiftTypes ==
    ASSUME NEW f \in Flags, NEW a \in Word, NEW sa \in Nat, NEW cu \in BOOLEAN
    PROVE  /\ Sll(f, a, sa, cu) \subseteq Outcome
           /\ Srl(f, a, sa, cu) \subseteq Outcome
           /\ Sra(f, a, sa, cu) \subseteq Outcome
  <1>1. RightCarries(a, sa) \in SUBSET BOOLEAN
    BY DEF RightCarries
  <1>2. Modulus \in Nat \ {0} /\ a \in Int /\ Signed(a) \in Int /\ a \in 0 .. (Modulus - 1)
    BY ModulusIsTwoSigns, WordBounds DEF SignedRange, Word
  <1>3. CASE sa < WordBits
    <2>1. Pow2[sa] \in Nat \ {0}
      BY <1>3, WordAssumption
    <2>2. (a * Pow2[sa]) % Modulus \in Word
      <3>1. a * Pow2[sa] \in Int
        BY <1>2, <2>1
      <3> QED
        BY <3>1, <1>2, ModOnce DEF Word
    <2>3. a \div Pow2[sa] \in Word
      BY <1>2, <2>1, DivSmaller DEF Word
    <2>4. (Signed(a) \div Pow2[sa]) % Modulus \in Word
      <3>1. Signed(a) \div Pow2[sa] \in Int
        BY <1>2, <2>1
      <3> QED
        BY <3>1, <1>2, ModOnce DEF Word
    <2> QED
      BY <1>1, <1>3, <2>2, <2>3, <2>4, ShiftOutcomesType DEF Sll, Srl, Sra
  <1>4. CASE ~(sa < WordBits)
    BY <1>1, <1>4, ShiftOutcomesType DEF Sll, Srl, Sra
  <1> QED
    BY <1>3, <1>4

LEMMA SignExtendType ==
    ASSUME NEW x \in Word, NEW b \in 1 .. WordBits
    PROVE  SignExtend(x, b) \in Word
  <1>1. /\ Pow2[b] \in Nat \ {0} /\ Pow2[b - 1] \in Nat \ {0}
        /\ Pow2[b] <= Modulus /\ Modulus \in Nat /\ x \in Int
    BY WordAssumption, WordBounds, ModulusIsTwoSigns DEF Modulus
  <1>2. x % Pow2[b] \in 0 .. (Pow2[b] - 1)
    BY <1>1, ModOnce
  <1> QED
    BY <1>1, <1>2 DEF SignExtend, Word

================================================================================
