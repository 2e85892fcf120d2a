------------------------------ MODULE DecodeProofs ------------------------------
(***************************************************************************)
(* Theorems about DecodeUnit: for every encoding, at every address, what   *)
(* the disassembler shows is what the processor executes.                  *)
(***************************************************************************)
EXTENDS DecodeUnit, SequenceTheorems, TLAPS

(* The processor knows the instruction, and the text says what it does.    *)
Agrees(t, i) == i \in InstructionOn(Int) /\ Shown(t, i)

LEMMA UnknownAgrees == Agrees(Unknown, Dumped)
  BY DEF Agrees, Shown, Unknown, Garbage, Dumped, InstructionOn

LEMMA GarbageAgrees == ASSUME NEW i \in InstructionOn(Int) PROVE Agrees(Garbage, i)
  BY DEF Agrees, Shown, Unknown, Garbage

(* A text that is one, of an instruction whose effect is itself. *)
LEMMA PlainAgrees ==
    ASSUME NEW t, t.stem \notin {"any", "unknown"}, NEW i \in InstructionOn(Int),
           i.op \notin {"dump", "branch", "cmp", "mfce", "mtce"}, Meaning(t) = i
    PROVE  Agrees(t, i)
  <1>1. t # Garbage /\ t # Unknown
    BY DEF Garbage, Unknown
  <1>2. Effect(i) = i
    BY DEF Effect
  <1> QED
    BY <1>1, <1>2, Zenon DEF Shown, Agrees

LEMMA Suffixes ==
    /\ \A c \in BOOLEAN : ((IF c THEN {"c"} ELSE {}) \cap {"c", "!"} # {}) = c
    /\ \A c \in BOOLEAN : ("c" \in (IF c THEN {"c"} ELSE {})) = c
    /\ \A c \in BOOLEAN : ("l" \in (IF c THEN {"l"} ELSE {})) = c
    /\ \A c \in BOOLEAN : ("l" \in ((IF c THEN {"l"} ELSE {}) \cup {"!"})) = c
    /\ ({"!"} \cap {"c", "!"} # {}) = TRUE
  OBVIOUS

LEMMA BangText ==
    ASSUME NEW s, s # "any", NEW cond, NEW suf, NEW args
    PROVE  Bang(Text(s, cond, suf, args)) = Text(s, cond, suf \cup {"!"}, args)
  <1>1. Text(s, cond, suf, args) # Garbage
    BY DEF Text, Garbage
  <1> QED
    BY <1>1 DEF Bang, Text

LEMMA ArithType ==
    ASSUME NEW fn \in AluNames, NEW d \in RegNum \cup {Discard}, NEW a \in OperandOn(Int),
           NEW b \in OperandOn(Int), NEW cu \in BOOLEAN
    PROVE  /\ Arith(fn, d, a, b, cu) \in InstructionOn(Int)
           /\ Arith(fn, d, a, b, cu).op = "alu"
  BY DEF Arith, InstructionOn

LEMMA OperandType ==
    /\ \A k \in RegNum : R(k) \in OperandOn(Int) /\ Operation(R(k)) = R(k) /\ R(k)[2] = k
    /\ \A v \in Int : I(v) \in OperandOn(Int)
    /\ \A v : Operation(Immd(v)) = I(v) /\ Immd(v)[2] = v
    /\ \A v \in Int : Upper(v) \in Int => Operation(Immx32(<<v, 0>>)) = I(Upper(v))
  BY DEF R, I, OperandOn, Operation, Immd, Immx32

(* Two operands stand for three: the first is also a source. *)
LEMMA ArithAgrees ==
    ASSUME NEW s \in DOMAIN Arithmetics, NEW d \in RegNum, NEW suf, NEW cu \in BOOLEAN,
           (suf \cap {"c", "!"} # {}) = cu, NEW z, Operation(z) \in OperandOn(Int)
    PROVE  /\ \A a \in RegNum :
                Agrees(Text(s, 15, suf, <<R(d), R(a), z>>), Arith(Arithmetics[s], d, R(a), Operation(z), cu))
           /\ Agrees(Text(s, 15, suf, <<R(d), z>>), Arith(Arithmetics[s], d, R(d), Operation(z), cu))
  <1>1. Arithmetics[s] \in AluNames /\ s \notin {"any", "unknown"}
    BY DEF Arithmetics, AluNames
  <1>2. ASSUME NEW t, t.stem = s
        PROVE  Meaning(t) = Arith(Arithmetics[s], t.args[1][2], t.args[Len(t.args) - 1],
                                  Operation(t.args[Len(t.args)]), t.suffixes \cap {"c", "!"} # {})
    <2>1. s \notin {"nop", "cache"}
      BY DEF Arithmetics
    <2> QED
      BY <1>2, <2>1 DEF Meaning, Arithmetics, EngineNames, Loading, Storing, Moving
  <1>3. ASSUME NEW a \in RegNum, NEW args, args[1] = R(d), args[Len(args) - 1] = R(a),
               args[Len(args)] = z
        PROVE  Agrees(Text(s, 15, suf, args), Arith(Arithmetics[s], d, R(a), Operation(z), cu))
    <2> DEFINE t == Text(s, 15, suf, args)
    <2>1. t.stem = s /\ t.args = args /\ t.suffixes = suf
      BY DEF Text
    <2> HIDE DEF t
    <2>2. Meaning(t) = Arith(Arithmetics[s], d, R(a), Operation(z), cu)
      BY <1>2, <1>3, <2>1, OperandType
    <2> QED
      BY <1>1, <2>1, <2>2, ArithType, PlainAgrees, OperandType DEF t
  <1>4. ASSUME NEW a \in RegNum
        PROVE  Agrees(Text(s, 15, suf, <<R(d), R(a), z>>), Arith(Arithmetics[s], d, R(a), Operation(z), cu))
    <2>1. LET args == <<R(d), R(a), z>>
          IN  args[1] = R(d) /\ args[Len(args) - 1] = R(a) /\ args[Len(args)] = z
      OBVIOUS
    <2> QED
      BY <1>3, <2>1
  <1>5. Agrees(Text(s, 15, suf, <<R(d), z>>), Arith(Arithmetics[s], d, R(d), Operation(z), cu))
    <2>1. LET args == <<R(d), z>>
          IN  args[1] = R(d) /\ args[Len(args) - 1] = R(d) /\ args[Len(args)] = z
      OBVIOUS
    <2> QED
      BY <1>3, <2>1
  <1> QED
    BY <1>4, <1>5

LEMMA NothingAgrees ==
    ASSUME NEW s \in {"nop", "cache"}, NEW cond, NEW suf, NEW args
    PROVE  Agrees(Text(s, cond, suf, args), Nothing)
  <1> DEFINE t == Text(s, cond, suf, args)
  <1>1. t.stem = s
    BY DEF Text
  <1> HIDE DEF t
  <1>2. Meaning(t) = Nothing
    BY <1>1 DEF Meaning, Arithmetics, EngineNames, Loading, Storing, Moving
  <1>3. Nothing \in InstructionOn(Int) /\ Nothing.op = "nop"
    BY DEF Nothing, InstructionOn
  <1> QED
    BY <1>1, <1>2, <1>3, PlainAgrees DEF t

LEMMA Masks == ASSUME NEW k \in 0 .. 31 PROVE BitMask(k) \in Int
  BY DEF BitMask

(* The bit instructions, with two operands or three. *)
LEMMA BitAgrees ==
    ASSUME NEW d \in RegNum, NEW k \in 0 .. 31, NEW suf, NEW cu \in BOOLEAN,
           (suf \cap {"c", "!"} # {}) = cu,
           NEW a \in RegNum, NEW args, args[1] = R(d), args[Len(args) - 1] = R(a),
           args[Len(args)] = Immd(k)
    PROVE  /\ Agrees(Text("bitclr", 15, suf, args), Arith("and", d, R(a), I(-1 - BitMask(k)), cu))
           /\ Agrees(Text("bitset", 15, suf, args), Arith("or", d, R(a), I(BitMask(k)), cu))
           /\ Agrees(Text("bittgl", 15, suf, args), Arith("xor", d, R(a), I(BitMask(k)), cu))
           /\ args[2] = Immd(k) =>
                Agrees(Text("bittst", 15, suf, args), Arith("and", Discard, R(d), I(BitMask(k)), cu))
  <1>1. ASSUME NEW s \in {"bitclr", "bitset", "bittgl", "bittst"},
               NEW t, t.stem = s, t.args = args, t.suffixes = suf
        PROVE  Meaning(t) = Bitwise1(s, args, Len(args) - 1, cu)
    BY <1>1 DEF Meaning, Arithmetics, EngineNames, Loading, Storing, Moving
  <1>2. ASSUME NEW s \in {"bitclr", "bitset", "bittgl", "bittst"}, NEW fn \in AluNames,
               NEW e \in RegNum \cup {Discard}, NEW x \in OperandOn(Int), NEW y \in OperandOn(Int),
               Bitwise1(s, args, Len(args) - 1, cu) = Arith(fn, e, x, y, cu)
        PROVE  Agrees(Text(s, 15, suf, args), Arith(fn, e, x, y, cu))
    <2> DEFINE t == Text(s, 15, suf, args)
    <2>1. t.stem = s /\ t.args = args /\ t.suffixes = suf
      BY DEF Text
    <2> HIDE DEF t
    <2>2. Meaning(t) = Arith(fn, e, x, y, cu)
      BY <1>1, <1>2, <2>1
    <2>3. /\ Arith(fn, e, x, y, cu) \in InstructionOn(Int)
          /\ Arith(fn, e, x, y, cu).op = "alu"
      BY ArithType
    <2> QED
      BY <1>2, <2>1, <2>2, <2>3, PlainAgrees DEF t
  <1>3. /\ R(d)[2] = d /\ Immd(k)[2] = k /\ R(a) \in OperandOn(Int) /\ R(d) \in OperandOn(Int)
        /\ Discard \in RegNum \cup {Discard} /\ d \in RegNum \cup {Discard}
        /\ {"and", "or", "xor"} \subseteq AluNames
    BY OperandType DEF AluNames
  <1>4. I(-1 - BitMask(k)) \in OperandOn(Int) /\ I(BitMask(k)) \in OperandOn(Int)
    <2> DEFINE m == BitMask(k)
    <2>1. m \in Int
      BY Masks
    <2> HIDE DEF m
    <2>2. -1 - m \in Int
      BY <2>1
    <2>3. I(m) \in OperandOn(Int) /\ I(-1 - m) \in OperandOn(Int)
      BY <2>1, <2>2, OperandType
    <2> QED
      BY <2>3 DEF m
  <1>5. Agrees(Text("bitclr", 15, suf, args), Arith("and", d, R(a), I(-1 - BitMask(k)), cu))
    <2>1. Bitwise1("bitclr", args, Len(args) - 1, cu) = Arith("and", d, R(a), I(-1 - BitMask(k)), cu)
      BY <1>3 DEF Bitwise1
    <2> QED
      BY <1>2, <1>3, <1>4, <2>1
  <1>6. Agrees(Text("bitset", 15, suf, args), Arith("or", d, R(a), I(BitMask(k)), cu))
    <2>1. Bitwise1("bitset", args, Len(args) - 1, cu) = Arith("or", d, R(a), I(BitMask(k)), cu)
      BY <1>3 DEF Bitwise1
    <2> QED
      BY <1>2, <1>3, <1>4, <2>1
  <1>7. Agrees(Text("bittgl", 15, suf, args), Arith("xor", d, R(a), I(BitMask(k)), cu))
    <2>1. Bitwise1("bittgl", args, Len(args) - 1, cu) = Arith("xor", d, R(a), I(BitMask(k)), cu)
      BY <1>3 DEF Bitwise1
    <2> QED
      BY <1>2, <1>3, <1>4, <2>1
  <1>8. ASSUME args[2] = Immd(k)
        PROVE  Agrees(Text("bittst", 15, suf, args), Arith("and", Discard, R(d), I(BitMask(k)), cu))
    <2>1. Bitwise1("bittst", args, Len(args) - 1, cu) = Arith("and", Discard, R(d), I(BitMask(k)), cu)
      BY <1>3, <1>8 DEF Bitwise1
    <2> QED
      BY <1>2, <1>3, <1>4, <2>1
  <1> QED
    BY <1>5, <1>6, <1>7, <1>8

(* Instructions with one source: neg, not and the extensions. *)
LEMMA ConvertedAgrees ==
    ASSUME NEW d \in RegNum, NEW x \in RegNum, NEW suf, NEW cu \in BOOLEAN,
           (suf \cap {"c", "!"} # {}) = cu,
           NEW s \in {"neg", "not", "extsb", "extsh", "extzb", "extzh"}
    PROVE  Agrees(Text(s, 15, suf, <<R(d), R(x)>>), Converted(s, d, R(x), cu))
  <1> DEFINE t == Text(s, 15, suf, <<R(d), R(x)>>)
             i == Converted(s, d, R(x), cu)
  <1>1. t.stem = s /\ t.args = <<R(d), R(x)>> /\ t.suffixes = suf
    BY DEF Text
  <1>2. t.args[1][2] = d /\ t.args[2] = R(x)
    BY <1>1, OperandType
  <1>3. \A fn \in AluNames, y, z \in OperandOn(Int) :
          Arith(fn, d, y, z, cu) \in InstructionOn(Int) /\ Arith(fn, d, y, z, cu).op = "alu"
    BY ArithType
  <1>4. /\ R(x) \in OperandOn(Int) /\ I(0) \in OperandOn(Int) /\ I(-1) \in OperandOn(Int)
        /\ I(255) \in OperandOn(Int) /\ I(65535) \in OperandOn(Int)
    BY OperandType
  <1>5. i \in InstructionOn(Int) /\ i.op = "alu"
    BY <1>3, <1>4 DEF Converted, AluNames
  <1> HIDE DEF t
  <1>6. Meaning(t) = Converted(s, t.args[1][2], t.args[2], t.suffixes \cap {"c", "!"} # {})
    BY <1>1 DEF Meaning, Arithmetics, EngineNames, Loading, Storing, Moving
  <1> HIDE DEF i
  <1>7. Meaning(t) = i
    BY <1>1, <1>2, <1>6, Zenon DEF i
  <1> QED
    BY <1>1, <1>5, <1>7, PlainAgrees DEF t, i

(* Comparisons; the field that says which flag to test is wider than the   *)
(* disassembler's table.                                                   *)
LEMMA CompareAgrees ==
    ASSUME NEW s \in {"cmp", "cmpz", "cmpi", "cmpis"}, NEW a \in RegNum, NEW z,
           NEW y \in OperandOn(Int), y = IF s = "cmpz" THEN I(0) ELSE Operation(z),
           NEW args, args[1] = R(a), s # "cmpz" => args[2] = z, NEW cu \in BOOLEAN
    PROVE  /\ \A tcs \in 0 .. 31 : Agrees(Opt(s, tcs, cu, args), Compared(R(a), y, CompareField(tcs), cu))
           /\ Agrees(Opc(s, cu, args), Compared(R(a), y, 3, cu))
  <1>1. \A tcs \in 0 .. 3 : Compared(R(a), y, tcs, cu) \in InstructionOn(Int)
    BY OperandType DEF Compared, InstructionOn
  <1>2. ASSUME NEW tcs \in 0 .. 3, NEW suf, "!" \notin suf, ("c" \in suf) = cu,
               tcs = 0 <=> "teq" \in suf, tcs = 1 <=> "tmi" \in suf
        PROVE  Agrees(Text(s, 15, suf, args), Compared(R(a), y, tcs, cu))
    <2> DEFINE t == Text(s, 15, suf, args)
               i == Compared(R(a), y, tcs, cu)
    <2>1. t.stem = s /\ t.args = args /\ t.suffixes = suf
      BY DEF Text
    <2>2. i.op = "cmp" /\ i.tcs = tcs /\ Effect(i) = Compared(R(a), y, IF tcs = 2 THEN 3 ELSE tcs, cu)
      BY DEF Compared, Effect
    <2> HIDE DEF t, i
    <2>3. Meaning(t) = Comparing(t)
      BY <1>2, <2>1 DEF Meaning, Arithmetics, EngineNames, Loading, Storing, Moving
    <2>4. Comparing(t) = Compared(R(a), y, IF tcs = 2 THEN 3 ELSE tcs, cu)
      <3> DEFINE field == CASE "teq" \in suf -> 0 [] "tmi" \in suf -> 1 [] OTHER -> 3
                 right == IF s = "cmpz" THEN I(0) ELSE Operation(args[2])
      <3>1. Comparing(t) = Compared(R(a), right, field, "c" \in suf)
        BY <1>2, <2>1, Zenon DEF Comparing
      <3>2. right = y
        BY <1>2
      <3>3. field = IF tcs = 2 THEN 3 ELSE tcs
        <4>1. CASE tcs = 0
          BY <1>2, <4>1
        <4>2. CASE tcs = 1
          BY <1>2, <4>2
        <4>3. CASE tcs \notin {0, 1}
          BY <1>2, <4>3
        <4> QED
          BY <4>1, <4>2, <4>3
      <3> HIDE DEF field, right
      <3> QED
        BY <1>2, <3>1, <3>2, <3>3
    <2>5. t # Garbage /\ t # Unknown
      BY <2>1 DEF Garbage, Unknown
    <2>6. Agrees(t, i)
      <3>1. i \in InstructionOn(Int)
        BY <1>1 DEF i
      <3> QED
        BY <2>2, <2>3, <2>4, <2>5, <3>1, Zenon DEF Shown, Agrees
    <2> QED
      BY <2>6 DEF t, i
  <1>3. ASSUME NEW tcs \in 0 .. 31
        PROVE  Agrees(Opt(s, tcs, cu, args), Compared(R(a), y, CompareField(tcs), cu))
    <2> DEFINE suf == (CASE tcs = 0 -> {"teq"} [] tcs = 1 -> {"tmi"} [] OTHER -> {})
                      \cup (IF cu THEN {"c"} ELSE {})
    <2>1. CASE tcs < 4
      <3>1. CompareField(tcs) = tcs /\ tcs \in 0 .. 3
        BY <2>1 DEF CompareField
      <3>2. /\ "!" \notin suf /\ ("c" \in suf <=> cu)
            /\ tcs = 0 <=> "teq" \in suf
            /\ tcs = 1 <=> "tmi" \in suf
        OBVIOUS
      <3>3. Opt(s, tcs, cu, args) = Text(s, 15, suf, args)
        BY <2>1 DEF Opt
      <3> HIDE DEF suf
      <3>4. ("c" \in suf) = cu
        BY <3>2
      <3> QED
        BY <1>2, <3>1, <3>2, <3>3, <3>4
    <2>2. CASE ~(tcs < 4)
      <3>1. Opt(s, tcs, cu, args) = Garbage
        BY <2>2 DEF Opt
      <3>2. CompareField(tcs) \in 0 .. 3
        BY DEF CompareField
      <3> QED
        BY <1>1, <3>1, <3>2, GarbageAgrees
    <2> QED
      BY <2>1, <2>2
  <1>4. Agrees(Opc(s, cu, args), Compared(R(a), y, 3, cu))
    <2> DEFINE suf == IF cu THEN {"c"} ELSE {}
    <2>1. "!" \notin suf /\ "teq" \notin suf /\ "tmi" \notin suf /\ ("c" \in suf) = cu
      BY Suffixes
    <2>2. Opc(s, cu, args) = Text(s, 15, suf, args)
      BY DEF Opc
    <2> HIDE DEF suf
    <2> QED
      BY <1>2, <2>1, <2>2
  <1> QED
    BY <1>3, <1>4

(* cmp! *)
LEMMA ShortCompareAgrees ==
    ASSUME NEW d \in RegNum, NEW a \in RegNum
    PROVE  Agrees(Text("cmp", 15, {"!"}, <<R(d), R(a)>>), Arith("sub", Discard, R(d), R(a), TRUE))
  <1> DEFINE t == Text("cmp", 15, {"!"}, <<R(d), R(a)>>)
             i == Arith("sub", Discard, R(d), R(a), TRUE)
  <1>1. t.stem = "cmp" /\ t.args = <<R(d), R(a)>> /\ t.suffixes = {"!"}
    BY DEF Text
  <1>2. i \in InstructionOn(Int) /\ i.op = "alu"
    BY ArithType, OperandType DEF AluNames
  <1> HIDE DEF t
  <1>3. Meaning(t) = i
    BY <1>1 DEF Meaning, Arithmetics, EngineNames, Loading, Storing, Moving
  <1> HIDE DEF i
  <1> QED
    BY <1>1, <1>2, <1>3, PlainAgrees DEF t, i

(* The multiplications and divisions. *)
LEMMA ProductAgrees ==
    ASSUME NEW s \in {"mul", "mulu", "div", "divu"}, NEW a \in RegNum, NEW b \in RegNum, NEW cu
    PROVE  Agrees(Opc(s, cu, <<R(a), R(b)>>), [op |-> s, a |-> a, b |-> b])
  <1> DEFINE t == Opc(s, cu, <<R(a), R(b)>>)
             i == [op |-> s, a |-> a, b |-> b]
  <1>1. t.stem = s /\ t.args[1][2] = a /\ t.args[2][2] = b
    BY OperandType DEF Opc, Text
  <1>2. i \in InstructionOn(Int) /\ i.op = s
    BY DEF InstructionOn
  <1> HIDE DEF t
  <1>3. Meaning(t) = i
    BY <1>1 DEF Meaning, Arithmetics, EngineNames, Loading, Storing, Moving
  <1> HIDE DEF i
  <1> QED
    BY <1>1, <1>2, <1>3, PlainAgrees DEF t, i

(* To and from the custom engine: which of ceh and cel, by the text's name. *)
LEMMA EngineAgrees ==
    ASSUME NEW s \in DOMAIN EngineNames, NEW d \in RegNum, NEW a \in RegNum, NEW cond, NEW suf,
           NEW args, args[1] = R(d),
           IF EngineNames[s][2] = "both" THEN Len(args) = 2 /\ args[2] = R(a) ELSE Len(args) # 2
    PROVE  Agrees(Text(s, cond, suf, args), Engine(EngineNames[s][1], EngineNames[s][2], d, a))
  <1> DEFINE t == Text(s, cond, suf, args)
             op == EngineNames[s][1]
             sel == EngineNames[s][2]
             i == Engine(op, sel, d, a)
             k == IF Len(args) = 2 THEN args[2][2] ELSE 0
  <1>1. t.stem = s /\ t.args = args
    BY DEF Text
  <1>2. op \in {"mfce", "mtce"} /\ sel \in {"lo", "hi", "both"} /\ s \notin {"any", "unknown"}
    BY DEF EngineNames
  <1> HIDE DEF t, op, sel
  <1>3. Meaning(t) = Engine(op, sel, args[1][2], k)
    BY <1>1 DEF Meaning, Arithmetics, EngineNames, Loading, Storing, Moving, op, sel
  <1>4. args[1][2] = d /\ k = IF sel = "both" THEN a ELSE 0
    BY OperandType DEF sel
  <1>5. i \in InstructionOn(Int) /\ i.op = op /\ i.sel = sel
    BY <1>2 DEF InstructionOn, Engine
  <1>6. Effect(i) = Engine(op, sel, d, IF sel = "both" THEN a ELSE 0)
    BY <1>2 DEF Effect, Engine
  <1> HIDE DEF i, k
  <1>7. t # Garbage /\ t # Unknown /\ i.op # "dump" /\ Effect(i) = Meaning(t)
    BY <1>1, <1>2, <1>3, <1>4, <1>5, <1>6 DEF Garbage, Unknown
  <1>8. Agrees(t, i)
    BY <1>5, <1>7, Zenon DEF Agrees, Shown
  <1> QED
    BY <1>8 DEF t, i, op, sel

(* What neither of the two knows how to move. *)
LEMMA NoEngineAgrees ==
    ASSUME NEW op \in {"mfce", "mtce"}, NEW d \in RegNum, NEW a \in RegNum
    PROVE  Agrees(Unknown, Engine(op, "none", d, a))
  BY DEF Agrees, Shown, Unknown, Garbage, Engine, InstructionOn

LEMMA SpecialAgrees ==
    ASSUME NEW s \in {"mfsr", "mtsr", "mfcr", "mtcr"}, NEW d \in RegNum, NEW k \in RegNum, NEW p
    PROVE  Agrees(Says(s, <<R(d), Named(p, k)>>), Special(s, d, k))
  <1> DEFINE t == Says(s, <<R(d), Named(p, k)>>)
             i == Special(s, d, k)
  <1>1. t.stem = s /\ t.args[1][2] = d /\ t.args[2][2] = k
    BY DEF Says, Text, R, Named
  <1>2. i \in InstructionOn(Int) /\ i.op = s
    BY DEF InstructionOn, Special
  <1> HIDE DEF t
  <1>3. Meaning(t) = i
    BY <1>1 DEF Meaning, Arithmetics, EngineNames, Loading, Storing, Moving
  <1> HIDE DEF i
  <1> QED
    BY <1>1, <1>2, <1>3, PlainAgrees DEF t, i

LEMMA TestAgrees ==
    ASSUME NEW cond \in 0 .. 31, NEW suf, NEW args
    PROVE  Agrees(Text("t", cond, suf, args), [op |-> "t", cond |-> cond])
  <1> DEFINE t == Text("t", cond, suf, args)
             i == [op |-> "t", cond |-> cond]
  <1>1. t.stem = "t" /\ t.cond = cond
    BY DEF Text
  <1>2. i \in InstructionOn(Int) /\ i.op = "t"
    BY DEF InstructionOn
  <1> HIDE DEF t
  <1>3. Meaning(t) = i
    BY <1>1 DEF Meaning, Arithmetics, EngineNames, Loading, Storing, Moving
  <1> HIDE DEF i
  <1> QED
    BY <1>1, <1>2, <1>3, PlainAgrees DEF t, i

LEMMA MoveAgrees ==
    ASSUME NEW s \in Moving, NEW cond \in 0 .. 31, NEW suf, NEW d \in RegNum, NEW z,
           NEW y \in OperandOn(Int), Operation(z) = y
    PROVE  Agrees(Text(s, cond, suf, <<R(d), z>>), Moved(cond, d, y))
  <1> DEFINE t == Text(s, cond, suf, <<R(d), z>>)
             i == Moved(cond, d, y)
  <1>1. t.stem = s /\ t.cond = cond /\ t.args[1][2] = d /\ t.args[2] = z
    BY OperandType DEF Text
  <1>2. i \in InstructionOn(Int) /\ i.op = "mv" /\ s \notin {"any", "unknown"}
    BY DEF InstructionOn, Moved, Moving
  <1> HIDE DEF t
  <1>3. Meaning(t) = i
    BY <1>1 DEF Meaning, Arithmetics, EngineNames, Loading, Storing, Moving
  <1> HIDE DEF i
  <1> QED
    BY <1>1, <1>2, <1>3, PlainAgrees DEF t, i

LEMMA StackAgrees ==
    ASSUME NEW s \in {"push", "pop"}, NEW cond, NEW suf, NEW d \in RegNum, NEW k \in RegNum
    PROVE  Agrees(Text(s, cond, suf, <<R(d), Mem(k)>>), [op |-> s, d |-> d, base |-> k])
  <1> DEFINE t == Text(s, cond, suf, <<R(d), Mem(k)>>)
             i == [op |-> s, d |-> d, base |-> k]
  <1>1. t.stem = s /\ t.args[1][2] = d /\ t.args[2][2] = k
    BY DEF Text, R, Mem
  <1>2. i \in InstructionOn(Int) /\ i.op = s
    BY DEF InstructionOn
  <1> HIDE DEF t
  <1>3. Meaning(t) = i
    BY <1>1 DEF Meaning, Arithmetics, EngineNames, Loading, Storing, Moving
  <1> HIDE DEF i
  <1> QED
    BY <1>1, <1>2, <1>3, PlainAgrees DEF t, i

(* Branches: to the address in a register, or to one that is shown whole.  *)
LEMMA AtAddress ==
    ASSUME NEW x \in Int, NEW y \in Int
    PROVE  <<"at">> \o <<x, y>> = <<"at", x, y>>
  <1> DEFINE S == {"at"} \cup Int
             u == <<"at">>
             v == <<x, y>>
             w == <<"at", x, y>>
  <1>1. u \in Seq(S) /\ v \in Seq(S) /\ w \in Seq(S) /\ Len(u) = 1 /\ Len(v) = 2 /\ Len(w) = 3
    OBVIOUS
  <1>2. u[1] = "at" /\ v[1] = x /\ v[2] = y /\ w[1] = "at" /\ w[2] = x /\ w[3] = y
    OBVIOUS
  <1> SUFFICES u \o v = w
    OBVIOUS
  <1> HIDE DEF u, v, w, S
  <1>3. /\ u \o v \in Seq(S)
        /\ Len(u \o v) = Len(u) + Len(v)
        /\ \A i \in 1 .. Len(u) + Len(v) : (u \o v)[i] = IF i <= Len(u) THEN u[i] ELSE v[i - Len(u)]
    BY <1>1, ConcatProperties
  <1>4. ASSUME NEW i \in 1 .. 3
        PROVE  (u \o v)[i] = w[i]
    <2>1. i = 1 \/ i = 2 \/ i = 3
      OBVIOUS
    <2> QED
      BY <1>1, <1>2, <1>3, <2>1
  <1>5. Len(u \o v) = 3
    BY <1>1, <1>3
  <1> QED
    BY <1>1, <1>3, <1>4, <1>5, SeqEqual

LEMMA BranchToRegisterAgrees ==
    ASSUME NEW cond \in 0 .. 31, NEW k \in RegNum, NEW suf, NEW link \in BOOLEAN,
           ("l" \in suf) = link
    PROVE  Agrees(Text("br", cond, suf, <<R(k)>>), Goes(cond, <<"reg", k>>, link))
  <1> DEFINE t == Text("br", cond, suf, <<R(k)>>)
             i == Goes(cond, <<"reg", k>>, link)
  <1>1. t.stem = "br" /\ t.cond = cond /\ t.suffixes = suf /\ t.args[1][2] = k
    BY DEF Text, R
  <1>2. i \in InstructionOn(Int) /\ i.op = "branch" /\ i.to = <<"reg", k>>
    BY DEF InstructionOn, Goes, TargetOn
  <1>3. Effect(i) = i
    <2>1. TakenTarget(<<"reg", k>>, address) = <<"reg", k>>
      BY DEF TakenTarget
    <2>2. Effect(i) = [i EXCEPT !.to = TakenTarget(i.to, address)]
      BY <1>2, Zenon DEF Effect
    <2> QED
      BY <1>2, <2>1, <2>2 DEF Goes
  <1> HIDE DEF t
  <1>4. Meaning(t) = i
    BY <1>1 DEF Meaning, Arithmetics, EngineNames, Loading, Storing, Moving
  <1> HIDE DEF i
  <1>5. t # Garbage /\ t # Unknown /\ i.op # "dump"
    BY <1>1, <1>2 DEF Garbage, Unknown
  <1>6. Agrees(t, i)
    BY <1>2, <1>3, <1>4, <1>5, Zenon DEF Agrees, Shown
  <1> QED
    BY <1>6 DEF t, i

(* Of a jump only where it goes may be shown wrong.                         *)
LEMMA BranchToAddressAgrees ==
    ASSUME NEW s \in {"b", "j"}, NEW cond \in 0 .. 31, NEW suf, NEW link \in BOOLEAN,
           ("l" \in suf) = link, NEW to \in TargetOn(Int), NEW x \in Int, NEW y \in Int,
           \/ s = "j" /\ address[1] % 2^10 >= 2^9
           \/ TakenTarget(to, address) = <<"at">> \o <<x, y>>
    PROVE  Agrees(Text(s, cond, suf, <<Immx32(<<x, y>>)>>), Goes(cond, to, link))
  <1> DEFINE t == Text(s, cond, suf, <<Immx32(<<x, y>>)>>)
             i == Goes(cond, to, link)
  <1>1. /\ t.stem = s /\ t.cond = cond /\ t.suffixes = suf
        /\ t.args[1][2] = x /\ t.args[1][3] = y
    BY DEF Text, Immx32
  <1>2. i \in InstructionOn(Int) /\ i.op = "branch" /\ i.to = to
    BY DEF InstructionOn, Goes
  <1>3. Effect(i) = Goes(cond, TakenTarget(to, address), link)
    <2>1. Effect(i) = [i EXCEPT !.to = TakenTarget(i.to, address)]
      BY <1>2, Zenon DEF Effect
    <2> QED
      BY <1>2, <2>1 DEF Goes
  <1> HIDE DEF t
  <1>4. Meaning(t) = Goes(cond, <<"at", x, y>>, link)
    BY <1>1 DEF Meaning, Arithmetics, EngineNames, Loading, Storing, Moving
  <1>5. TakenTarget(to, address) = <<"at">> \o <<x, y>> => Effect(i) = Meaning(t)
    BY <1>3, <1>4, AtAddress
  <1> HIDE DEF i
  <1>6. t # Garbage /\ t # Unknown /\ i.op # "dump"
    BY <1>1, <1>2 DEF Garbage, Unknown
  <1>7. Parted(t) \/ Effect(i) = Meaning(t)
    BY <1>1, <1>5 DEF Parted
  <1>8. Agrees(t, i)
    BY <1>2, <1>6, <1>7, Zenon DEF Agrees, Shown
  <1> QED
    BY <1>8 DEF t, i

LEMMA ReturnAgrees == Agrees(Says("rte", <<>>), Goes(15, <<"epc", 0>>, FALSE))
  <1> DEFINE t == Says("rte", <<>>)
             i == Goes(15, <<"epc", 0>>, FALSE)
  <1>1. t.stem = "rte"
    BY DEF Says, Text
  <1>2. i \in InstructionOn(Int) /\ i.op = "branch" /\ i.to = <<"epc", 0>>
    BY DEF InstructionOn, Goes, TargetOn
  <1>3. Effect(i) = i
    <2>1. TakenTarget(<<"epc", 0>>, address) = <<"epc", 0>>
      BY DEF TakenTarget
    <2>2. Effect(i) = [i EXCEPT !.to = TakenTarget(i.to, address)]
      BY <1>2, Zenon DEF Effect
    <2> QED
      BY <1>2, <2>1, <2>2 DEF Goes
  <1> HIDE DEF t
  <1>4. Meaning(t) = i
    BY <1>1 DEF Meaning, Arithmetics, EngineNames, Loading, Storing, Moving
  <1> HIDE DEF i
  <1>5. t # Garbage /\ t # Unknown /\ i.op # "dump"
    BY <1>1, <1>2 DEF Garbage, Unknown
  <1>6. Agrees(t, i)
    BY <1>2, <1>3, <1>4, <1>5, Zenon DEF Agrees, Shown
  <1> QED
    BY <1>6 DEF t, i

(* Loads and stores: the form of the operand says how the base changes.    *)
Modes == {"offset", "pre", "post"}

LEMMA LoadingTable ==
    /\ DOMAIN Loading = {"lw", "lh", "lhu", "lb", "lbu", "lwp", "lhp", "lbup"}
    /\ Loading["lw"][1] = 4 /\ Loading["lh"][1] = 2 /\ Loading["lhu"][1] = 2
    /\ Loading["lb"][1] = 1 /\ Loading["lbu"][1] = 1 /\ Loading["lwp"][1] = 4
    /\ Loading["lhp"][1] = 2 /\ Loading["lbup"][1] = 1
    /\ Loading["lw"][2] = FALSE /\ Loading["lh"][2] = TRUE /\ Loading["lhu"][2] = FALSE
    /\ Loading["lb"][2] = TRUE /\ Loading["lbu"][2] = FALSE /\ Loading["lwp"][2] = FALSE
    /\ Loading["lhp"][2] = TRUE /\ Loading["lbup"][2] = FALSE
  BY SMT DEF Loading

LEMMA LoadAgrees ==
    ASSUME NEW s \in DOMAIN Loading, NEW suf, NEW d \in RegNum, NEW args, args[1] = R(d),
           NEW b \in RegNum, NEW v \in Int, NEW mode \in Modes,
           Memory(Text(s, 15, suf, args)) = <<b, v, mode>>
    PROVE  Agrees(Text(s, 15, suf, args), Loads(Loading[s][1], Loading[s][2], d, b, v, mode))
  <1> DEFINE t == Text(s, 15, suf, args)
             i == Loads(Loading[s][1], Loading[s][2], d, b, v, mode)
  <1>1. t.stem = s /\ t.args = args
    BY DEF Text
  <1>2. i \in InstructionOn(Int) /\ i.op = "load"
    <2>1. Loading[s][1] \in {1, 2, 4}
      BY LoadingTable
    <2>2. Loading[s][2] \in BOOLEAN
      BY LoadingTable
    <2> QED
      BY <2>1, <2>2 DEF InstructionOn, Loads, Modes
  <1>3. s \notin {"any", "unknown"}
    BY DEF Loading
  <1> HIDE DEF t
  <1>4. Meaning(t) = Loads(Loading[s][1], Loading[s][2], args[1][2],
                           Memory(t)[1], Memory(t)[2], Memory(t)[3])
    BY <1>1 DEF Meaning, Arithmetics, EngineNames, Loading, Storing, Moving
  <1>5. Meaning(t) = i
    BY <1>4, OperandType DEF t
  <1> HIDE DEF i
  <1> QED
    BY <1>1, <1>2, <1>3, <1>5, PlainAgrees DEF t, i

LEMMA StoreAgrees ==
    ASSUME NEW s \in DOMAIN Storing, NEW suf, NEW d \in RegNum, NEW args, args[1] = R(d),
           NEW b \in RegNum, NEW v \in Int, NEW mode \in Modes,
           Memory(Text(s, 15, suf, args)) = <<b, v, mode>>
    PROVE  Agrees(Text(s, 15, suf, args), Stores(Storing[s], d, b, v, mode))
  <1> DEFINE t == Text(s, 15, suf, args)
             i == Stores(Storing[s], d, b, v, mode)
  <1>1. t.stem = s /\ t.args = args
    BY DEF Text
  <1>2. i \in InstructionOn(Int) /\ i.op = "store"
    <2>1. Storing[s] \in {1, 2, 4}
      BY DEF Storing
    <2> QED
      BY <2>1 DEF InstructionOn, Stores, Modes
  <1>3. s \notin {"any", "unknown"}
    BY DEF Storing
  <1> HIDE DEF t
  <1>4. Meaning(t) = Stores(Storing[s], args[1][2], Memory(t)[1], Memory(t)[2], Memory(t)[3])
    BY <1>1 DEF Meaning, Arithmetics, EngineNames, Loading, Storing, Moving
  <1>5. Meaning(t) = i
    BY <1>4, OperandType DEF t
  <1> HIDE DEF i
  <1> QED
    BY <1>1, <1>2, <1>3, <1>5, PlainAgrees DEF t, i

LEMMA OffsetShown ==
    ASSUME NEW s, s \notin Basic, NEW suf, NEW d, NEW b, NEW v
    PROVE  Memory(Text(s, 15, suf, <<R(d), Memoff(b, v)>>)) = <<b, v, "offset">>
  <1>1. ASSUME NEW t, t.stem = s, t.args[2] = Memoff(b, v)
        PROVE  Memory(t) = <<b, v, "offset">>
    BY <1>1 DEF Memory, Memoff
  <1>2. LET t == Text(s, 15, suf, <<R(d), Memoff(b, v)>>)
        IN  t.stem = s /\ t.args[2] = Memoff(b, v)
    BY DEF Text
  <1> QED
    BY <1>1, <1>2

LEMMA PlainShown ==
    ASSUME NEW s, s \notin Basic, NEW suf, NEW d, NEW b
    PROVE  Memory(Text(s, 15, suf, <<R(d), Mem(b)>>)) = <<b, 0, "offset">>
  <1>1. ASSUME NEW t, t.stem = s, t.args[2] = Mem(b)
        PROVE  Memory(t) = <<b, 0, "offset">>
    BY <1>1 DEF Memory, Mem
  <1>2. LET t == Text(s, 15, suf, <<R(d), Mem(b)>>)
        IN  t.stem = s /\ t.args[2] = Mem(b)
    BY DEF Text
  <1> QED
    BY <1>1, <1>2

LEMMA PreShown ==
    ASSUME NEW s, s \notin Basic, NEW suf, NEW d, NEW b, NEW v
    PROVE  Memory(Text(s, 15, suf, <<R(d), MemoffPlus(b, v)>>)) = <<b, v, "pre">>
  <1>1. ASSUME NEW t, t.stem = s, t.args[2] = MemoffPlus(b, v)
        PROVE  Memory(t) = <<b, v, "pre">>
    <2>1. t.args[2][1] = "[+]" /\ t.args[2][2] = b /\ t.args[2][3] = v
      BY <1>1 DEF MemoffPlus
    <2> QED
      BY <1>1, <2>1 DEF Memory
  <1>2. LET t == Text(s, 15, suf, <<R(d), MemoffPlus(b, v)>>)
        IN  t.stem = s /\ t.args[2] = MemoffPlus(b, v)
    BY DEF Text
  <1> QED
    BY <1>1, <1>2

LEMMA PostShown ==
    ASSUME NEW s, s \notin Basic, NEW suf, NEW d, NEW b, NEW v
    PROVE  Memory(Text(s, 15, suf, <<R(d), MemPlus(b), Immd(v)>>)) = <<b, v, "post">>
  <1>1. ASSUME NEW t, t.stem = s, t.args[2] = MemPlus(b), t.args[3] = Immd(v)
        PROVE  Memory(t) = <<b, v, "post">>
    BY <1>1 DEF Memory, MemPlus, Immd
  <1>2. LET t == Text(s, 15, suf, <<R(d), MemPlus(b), Immd(v)>>)
        IN  t.stem = s /\ t.args[2] = MemPlus(b) /\ t.args[3] = Immd(v)
    BY DEF Text
  <1> QED
    BY <1>1, <1>2

LEMMA BasicShown ==
    ASSUME NEW s, s \in Basic, NEW suf, NEW d, NEW v
    PROVE  Memory(Text(s, 15, suf, <<R(d), Immd(v)>>)) = <<2, v, "offset">>
  <1>1. ASSUME NEW t, t.stem = s, t.args[2] = Immd(v)
        PROVE  Memory(t) = <<2, v, "offset">>
    BY <1>1 DEF Memory, Immd
  <1>2. LET t == Text(s, 15, suf, <<R(d), Immd(v)>>)
        IN  t.stem = s /\ t.args[2] = Immd(v)
    BY DEF Text
  <1> QED
    BY <1>1, <1>2

(* The eight accesses of each mode.                                         *)
LEMMA AccessTable ==
    /\ AccessName(0) = "lw" /\ AccessName(1) = "lh" /\ AccessName(2) = "lhu"
    /\ AccessName(3) = "lb" /\ AccessName(4) = "sw" /\ AccessName(5) = "sh"
    /\ AccessName(6) = "lbu" /\ AccessName(7) = "sb"
    /\ \A d, b, v, mode :
         /\ Access(0, d, b, v, mode) = Loads(4, FALSE, d, b, v, mode)
         /\ Access(1, d, b, v, mode) = Loads(2, TRUE, d, b, v, mode)
         /\ Access(2, d, b, v, mode) = Loads(2, FALSE, d, b, v, mode)
         /\ Access(3, d, b, v, mode) = Loads(1, TRUE, d, b, v, mode)
         /\ Access(4, d, b, v, mode) = Stores(4, d, b, v, mode)
         /\ Access(5, d, b, v, mode) = Stores(2, d, b, v, mode)
         /\ Access(6, d, b, v, mode) = Loads(1, FALSE, d, b, v, mode)
         /\ Access(7, d, b, v, mode) = Stores(1, d, b, v, mode)
  <1>1. /\ AccessName(0) = "lw" /\ AccessName(1) = "lh" /\ AccessName(2) = "lhu"
        /\ AccessName(3) = "lb" /\ AccessName(4) = "sw" /\ AccessName(5) = "sh"
        /\ AccessName(6) = "lbu" /\ AccessName(7) = "sb"
    BY DEF AccessName
  <1>2. ASSUME NEW d, NEW b, NEW v, NEW mode
        PROVE  /\ Access(0, d, b, v, mode) = Loads(4, FALSE, d, b, v, mode)
               /\ Access(1, d, b, v, mode) = Loads(2, TRUE, d, b, v, mode)
               /\ Access(2, d, b, v, mode) = Loads(2, FALSE, d, b, v, mode)
               /\ Access(3, d, b, v, mode) = Loads(1, TRUE, d, b, v, mode)
               /\ Access(4, d, b, v, mode) = Stores(4, d, b, v, mode)
               /\ Access(5, d, b, v, mode) = Stores(2, d, b, v, mode)
               /\ Access(6, d, b, v, mode) = Loads(1, FALSE, d, b, v, mode)
               /\ Access(7, d, b, v, mode) = Stores(1, d, b, v, mode)
    BY DEF Access
  <1> QED
    BY <1>1, <1>2

LEMMA AccessAgrees ==
    ASSUME NEW k \in 0 .. 7, NEW d \in RegNum, NEW b \in RegNum, NEW v \in Int,
           NEW suf, NEW args, args[1] = R(d), NEW mode \in Modes,
           Memory(Text(AccessName(k), 15, suf, args)) = <<b, v, mode>>
    PROVE  Agrees(Text(AccessName(k), 15, suf, args), Access(k, d, b, v, mode))
  <1> DEFINE s == AccessName(k)
  <1>1. CASE s \in DOMAIN Loading
    <2>1. Access(k, d, b, v, mode) = Loads(Loading[s][1], Loading[s][2], d, b, v, mode)
      <3>1. k \in {0, 1, 2, 3, 6}
        BY <1>1, AccessTable, LoadingTable
      <3>2. CASE k = 0
        BY <3>2, AccessTable, LoadingTable
      <3>3. CASE k = 1
        BY <3>3, AccessTable, LoadingTable
      <3>4. CASE k = 2
        BY <3>4, AccessTable, LoadingTable
      <3>5. CASE k = 3
        BY <3>5, AccessTable, LoadingTable
      <3>6. CASE k = 6
        BY <3>6, AccessTable, LoadingTable
      <3> QED
        BY <3>1, <3>2, <3>3, <3>4, <3>5, <3>6
    <2> QED
      BY <1>1, <2>1, LoadAgrees
  <1>2. CASE s \notin DOMAIN Loading
    <2>1. s \in DOMAIN Storing /\ Access(k, d, b, v, mode) = Stores(Storing[s], d, b, v, mode)
      <3>1. k \in {4, 5, 7}
        BY <1>2, AccessTable, LoadingTable
      <3>2. CASE k = 4
        BY <3>2, AccessTable DEF Storing
      <3>3. CASE k = 5
        BY <3>3, AccessTable DEF Storing
      <3>4. CASE k = 7
        BY <3>4, AccessTable DEF Storing
      <3> QED
        BY <3>1, <3>2, <3>3, <3>4
    <2> QED
      BY <2>1, StoreAgrees
  <1> QED
    BY <1>1, <1>2

LEMMA AccessForms ==
    ASSUME NEW k \in 0 .. 7, NEW d \in RegNum, NEW b \in RegNum, NEW v \in Int
    PROVE  /\ Agrees(Says(AccessName(k), <<R(d), MemoffPlus(b, v)>>), Access(k, d, b, v, "pre"))
           /\ Agrees(Says(AccessName(k), <<R(d), MemPlus(b), Immd(v)>>), Access(k, d, b, v, "post"))
           /\ Agrees(Says(AccessName(k), <<R(d), Memoff(b, v)>>), Access(k, d, b, v, "offset"))
  <1> DEFINE s == AccessName(k)
  <1>1. s \notin Basic
    BY DEF AccessName, Basic
  <1> HIDE DEF s
  <1>2. {"pre", "post", "offset"} \subseteq Modes
    BY DEF Modes
  <1>3. ASSUME NEW args, args[1] = R(d), NEW mode \in Modes,
               Memory(Text(s, 15, {}, args)) = <<b, v, mode>>
        PROVE  Agrees(Says(s, args), Access(k, d, b, v, mode))
    BY <1>3, AccessAgrees DEF Says, s
  <1>4. Agrees(Says(s, <<R(d), MemoffPlus(b, v)>>), Access(k, d, b, v, "pre"))
    <2>1. <<R(d), MemoffPlus(b, v)>>[1] = R(d)
      OBVIOUS
    <2>2. Memory(Text(s, 15, {}, <<R(d), MemoffPlus(b, v)>>)) = <<b, v, "pre">>
      BY <1>1, PreShown
    <2> QED
      BY <1>2, <1>3, <2>1, <2>2
  <1>5. Agrees(Says(s, <<R(d), MemPlus(b), Immd(v)>>), Access(k, d, b, v, "post"))
    <2>1. <<R(d), MemPlus(b), Immd(v)>>[1] = R(d)
      OBVIOUS
    <2>2. Memory(Text(s, 15, {}, <<R(d), MemPlus(b), Immd(v)>>)) = <<b, v, "post">>
      BY <1>1, PostShown
    <2> QED
      BY <1>2, <1>3, <2>1, <2>2
  <1>6. Agrees(Says(s, <<R(d), Memoff(b, v)>>), Access(k, d, b, v, "offset"))
    <2>1. <<R(d), Memoff(b, v)>>[1] = R(d)
      OBVIOUS
    <2>2. Memory(Text(s, 15, {}, <<R(d), Memoff(b, v)>>)) = <<b, v, "offset">>
      BY <1>1, OffsetShown
    <2> QED
      BY <1>2, <1>3, <2>1, <2>2
  <1> QED
    BY <1>4, <1>5, <1>6 DEF s

(* lhp! is where the two are known to part.                                 *)
LEMMA HalfwordAgrees ==
    ASSUME NEW suf, NEW d \in RegNum, NEW v \in Int, NEW args
    PROVE  Agrees(Text("lhp", 15, suf, args), Loads(2, FALSE, d, 2, v, "offset"))
  <1> DEFINE t == Text("lhp", 15, suf, args)
             i == Loads(2, FALSE, d, 2, v, "offset")
  <1>1. t.stem = "lhp"
    BY DEF Text
  <1>2. i \in InstructionOn(Int) /\ i.op = "load"
    BY DEF InstructionOn, Loads, RegNum
  <1> HIDE DEF t, i
  <1>3. t # Garbage /\ t # Unknown /\ i.op # "dump" /\ Parted(t)
    BY <1>1, <1>2 DEF Garbage, Unknown, Parted
  <1>4. Agrees(t, i)
    BY <1>2, <1>3, Zenon DEF Agrees, Shown
  <1> QED
    BY <1>4 DEF t, i

(* Arithmetic and logic on registers, with three operands or two.           *)
Register2 == {"add", "addc", "sub", "subc", "and", "or", "xor", "sll", "srl", "sra"}

LEMMA RegistersAgree ==
    ASSUME NEW s \in Register2, NEW d \in RegNum, NEW b \in RegNum, NEW cu \in BOOLEAN, NEW suf,
           (suf \cap {"c", "!"} # {}) = cu
    PROVE  /\ \A a \in RegNum : Agrees(Text(s, 15, suf, <<R(d), R(a), R(b)>>), Arith(s, d, R(a), R(b), cu))
           /\ Agrees(Text(s, 15, suf, <<R(d), R(b)>>), Arith(s, d, R(d), R(b), cu))
  <1>1. s \in DOMAIN Arithmetics /\ Arithmetics[s] = s
    BY DEF Arithmetics, Register2
  <1>2. Operation(R(b)) = R(b) /\ R(b) \in OperandOn(Int)
    BY OperandType
  <1> QED
    BY <1>1, <1>2, ArithAgrees

(* and with an immediate                                                    *)
LEMMA ImmediateAgrees ==
    ASSUME NEW s \in DOMAIN Arithmetics, NEW d \in RegNum, NEW v \in Int,
           NEW cu \in BOOLEAN, NEW suf, (suf \cap {"c", "!"} # {}) = cu
    PROVE  /\ \A a \in RegNum : Agrees(Text(s, 15, suf, <<R(d), R(a), Immd(v)>>),
                                      Arith(Arithmetics[s], d, R(a), I(v), cu))
           /\ Agrees(Text(s, 15, suf, <<R(d), Immd(v)>>), Arith(Arithmetics[s], d, R(d), I(v), cu))
  <1>1. Operation(Immd(v)) = I(v) /\ I(v) \in OperandOn(Int)
    BY OperandType
  <1> QED
    BY <1>1, ArithAgrees

LEMMA FlagSuffix ==
    ASSUME NEW s, NEW cu \in BOOLEAN, NEW args
    PROVE  \E suf : Opc(s, cu, args) = Text(s, 15, suf, args) /\ (suf \cap {"c", "!"} # {}) = cu
  <1> DEFINE suf == IF cu THEN {"c"} ELSE {}
  <1>1. (suf \cap {"c", "!"} # {}) = cu
    BY Suffixes
  <1>2. Opc(s, cu, args) = Text(s, 15, suf, args)
    BY DEF Opc
  <1> HIDE DEF suf
  <1> QED
    BY <1>1, <1>2

LEMMA LongArithAgrees ==
    ASSUME NEW s \in Register2, NEW d \in RegNum, NEW a \in RegNum, NEW b \in RegNum,
           NEW cu \in BOOLEAN
    PROVE  Agrees(Opc(s, cu, <<R(d), R(a), R(b)>>), Arith(s, d, R(a), R(b), cu))
  <1>1. PICK suf : /\ Opc(s, cu, <<R(d), R(a), R(b)>>) = Text(s, 15, suf, <<R(d), R(a), R(b)>>)
                   /\ (suf \cap {"c", "!"} # {}) = cu
    BY FlagSuffix
  <1> QED
    BY <1>1, RegistersAgree

LEMMA LongImmediateAgrees ==
    ASSUME NEW s \in DOMAIN Arithmetics, NEW d \in RegNum, NEW a \in RegNum, NEW v \in Int,
           NEW cu \in BOOLEAN
    PROVE  Agrees(Opc(s, cu, <<R(d), R(a), Immd(v)>>), Arith(Arithmetics[s], d, R(a), I(v), cu))
  <1>1. PICK suf : /\ Opc(s, cu, <<R(d), R(a), Immd(v)>>) = Text(s, 15, suf, <<R(d), R(a), Immd(v)>>)
                   /\ (suf \cap {"c", "!"} # {}) = cu
    BY FlagSuffix
  <1> QED
    BY <1>1, ImmediateAgrees

LEMMA LongOneImmediateAgrees ==
    ASSUME NEW s \in DOMAIN Arithmetics, NEW d \in RegNum, NEW z, NEW cu \in BOOLEAN,
           NEW y \in OperandOn(Int), Operation(z) = y
    PROVE  Agrees(Opc(s, cu, <<R(d), z>>), Arith(Arithmetics[s], d, R(d), y, cu))
  <1>1. PICK suf : /\ Opc(s, cu, <<R(d), z>>) = Text(s, 15, suf, <<R(d), z>>)
                   /\ (suf \cap {"c", "!"} # {}) = cu
    BY FlagSuffix
  <1> QED
    BY <1>1, ArithAgrees

LEMMA LongBitAgrees ==
    ASSUME NEW d \in RegNum, NEW a \in RegNum, NEW k \in 0 .. 31, NEW cu \in BOOLEAN
    PROVE  /\ Agrees(Opc("bitclr", cu, <<R(d), R(a), Immd(k)>>), Arith("and", d, R(a), I(-1 - BitMask(k)), cu))
           /\ Agrees(Opc("bitset", cu, <<R(d), R(a), Immd(k)>>), Arith("or", d, R(a), I(BitMask(k)), cu))
           /\ Agrees(Opc("bittgl", cu, <<R(d), R(a), Immd(k)>>), Arith("xor", d, R(a), I(BitMask(k)), cu))
  <1> DEFINE suf == IF cu THEN {"c"} ELSE {}
             three == <<R(d), R(a), Immd(k)>>
  <1>1. (suf \cap {"c", "!"} # {}) = cu
    BY Suffixes
  <1>2. \A s, args : Opc(s, cu, args) = Text(s, 15, suf, args)
    BY DEF Opc
  <1>3. three[1] = R(d) /\ three[Len(three) - 1] = R(a) /\ three[Len(three)] = Immd(k)
    OBVIOUS
  <1> HIDE DEF suf, three
  <1>4. Agrees(Text("bitclr", 15, suf, three), Arith("and", d, R(a), I(-1 - BitMask(k)), cu))
    BY <1>1, <1>3, BitAgrees
  <1>5. Agrees(Text("bitset", 15, suf, three), Arith("or", d, R(a), I(BitMask(k)), cu))
    BY <1>1, <1>3, BitAgrees
  <1>6. Agrees(Text("bittgl", 15, suf, three), Arith("xor", d, R(a), I(BitMask(k)), cu))
    BY <1>1, <1>3, BitAgrees
  <1> QED
    BY <1>2, <1>4, <1>5, <1>6, Zenon DEF three

LEMMA LongBitTestAgrees ==
    ASSUME NEW a \in RegNum, NEW k \in 0 .. 31, NEW cu \in BOOLEAN
    PROVE  Agrees(Opc("bittst", cu, <<R(a), Immd(k)>>), Arith("and", Discard, R(a), I(BitMask(k)), cu))
  <1> DEFINE suf == IF cu THEN {"c"} ELSE {}
             two == <<R(a), Immd(k)>>
  <1>1. (suf \cap {"c", "!"} # {}) = cu
    BY Suffixes
  <1>2. \A s, args : Opc(s, cu, args) = Text(s, 15, suf, args)
    BY DEF Opc
  <1>3. /\ two[1] = R(a) /\ two[2] = Immd(k)
        /\ two[Len(two) - 1] = R(a) /\ two[Len(two)] = Immd(k)
    OBVIOUS
  <1> HIDE DEF suf, two
  <1>4. Agrees(Text("bittst", 15, suf, two), Arith("and", Discard, R(a), I(BitMask(k)), cu))
    BY <1>1, <1>3, BitAgrees
  <1> QED
    BY <1>2, <1>4, Zenon DEF two

(* What the instructions with one source are carried out as.                *)
LEMMA ConvertedForms ==
    ASSUME NEW d, NEW v, NEW cu
    PROVE  /\ Converted("neg", d, v, cu) = Arith("sub", d, I(0), v, cu)
           /\ Converted("not", d, v, cu) = Arith("xor", d, v, I(-1), cu)
           /\ Converted("extzb", d, v, cu) = Arith("and", d, v, I(255), cu)
           /\ Converted("extzh", d, v, cu) = Arith("and", d, v, I(65535), cu)
           /\ Converted("extsb", d, v, cu) = Arith("extsb", d, v, I(0), cu)
           /\ Converted("extsh", d, v, cu) = Arith("extsh", d, v, I(0), cu)
  BY DEF Converted

Sources1 == {"neg", "not", "extsb", "extsh", "extzb", "extzh"}

LEMMA LongConvertedAgrees ==
    ASSUME NEW s \in Sources1, NEW d \in RegNum, NEW x \in RegNum, NEW cu \in BOOLEAN
    PROVE  Agrees(Opc(s, cu, <<R(d), R(x)>>), Converted(s, d, R(x), cu))
  <1>1. PICK suf : /\ Opc(s, cu, <<R(d), R(x)>>) = Text(s, 15, suf, <<R(d), R(x)>>)
                   /\ (suf \cap {"c", "!"} # {}) = cu
    BY FlagSuffix
  <1> QED
    BY <1>1, ConvertedAgrees DEF Sources1

(* A condition is a field of five bits, of which only 16 values have a      *)
(* name.                                                                    *)
LEMMA ConditionSuffix ==
    ASSUME NEW s, NEW cond \in 0 .. 31, NEW link \in BOOLEAN, NEW args
    PROVE  \/ Opb(s, cond, link, args) = Garbage
           \/ \E suf : Opb(s, cond, link, args) = Text(s, cond, suf, args) /\ ("l" \in suf) = link
  <1> DEFINE suf == IF link THEN {"l"} ELSE {}
  <1>1. ("l" \in suf) = link
    BY Suffixes
  <1>2. Opb(s, cond, link, args) \in {Garbage, Text(s, cond, suf, args)}
    BY DEF Opb
  <1> HIDE DEF suf
  <1> QED
    BY <1>1, <1>2

LEMMA LongBranchAgrees ==
    ASSUME NEW cond \in 0 .. 31, NEW link \in BOOLEAN, NEW a \in RegNum
    PROVE  Agrees(Opb("br", cond, link, <<R(a)>>), Goes(cond, <<"reg", a>>, link))
  <1>1. Goes(cond, <<"reg", a>>, link) \in InstructionOn(Int)
    BY DEF InstructionOn, Goes, TargetOn
  <1> QED
    BY <1>1, ConditionSuffix, GarbageAgrees, BranchToRegisterAgrees

LEMMA LongTestAgrees ==
    ASSUME NEW cond \in 0 .. 31, NEW link \in BOOLEAN
    PROVE  Agrees(Opb("t", cond, link, <<>>), [op |-> "t", cond |-> cond])
  <1> DEFINE args == <<>>
             t == Opb("t", cond, link, args)
  <1>1. [op |-> "t", cond |-> cond] \in InstructionOn(Int)
    BY DEF InstructionOn
  <1> HIDE DEF args
  <1>2. t = Garbage \/ \E suf : t = Text("t", cond, suf, args)
    BY ConditionSuffix
  <1>3. Agrees(t, [op |-> "t", cond |-> cond])
    BY <1>1, <1>2, GarbageAgrees, TestAgrees
  <1> QED
    BY <1>3 DEF args

LEMMA LongMoveAgrees ==
    ASSUME NEW cond \in 0 .. 31, NEW link \in BOOLEAN, NEW d \in RegNum, NEW a \in RegNum
    PROVE  Agrees(Opb("mv", cond, link, <<R(d), R(a)>>), Moved(cond, d, R(a)))
  <1> DEFINE t == Opb("mv", cond, link, <<R(d), R(a)>>)
  <1>1. R(a) \in OperandOn(Int) /\ Operation(R(a)) = R(a) /\ "mv" \in Moving
    BY OperandType DEF Moving
  <1>2. Moved(cond, d, R(a)) \in InstructionOn(Int)
    BY <1>1 DEF InstructionOn, Moved
  <1>3. t = Garbage \/ \E suf : t = Text("mv", cond, suf, <<R(d), R(a)>>)
    BY ConditionSuffix
  <1> QED
    BY <1>1, <1>2, <1>3, GarbageAgrees, MoveAgrees

LEMMA LongCompareAgrees ==
    ASSUME NEW a \in RegNum, NEW b \in RegNum, NEW tcs \in RegNum, NEW cu \in BOOLEAN
    PROVE  Agrees(Opt("cmp", tcs, cu, <<R(a), R(b)>>), Compared(R(a), R(b), CompareField(tcs), cu))
  <1> DEFINE args == <<R(a), R(b)>>
  <1>1. R(b) \in OperandOn(Int) /\ Operation(R(b)) = R(b) /\ tcs \in 0 .. 31
    BY OperandType DEF RegNum
  <1>2. args[1] = R(a) /\ args[2] = R(b)
    OBVIOUS
  <1> HIDE DEF args
  <1>3. Agrees(Opt("cmp", tcs, cu, args), Compared(R(a), R(b), CompareField(tcs), cu))
    BY <1>1, <1>2, CompareAgrees
  <1> QED
    BY <1>3 DEF args

LEMMA LongCompareZeroAgrees ==
    ASSUME NEW a \in RegNum, NEW tcs \in RegNum, NEW cu \in BOOLEAN
    PROVE  Agrees(Opt("cmpz", tcs, cu, <<R(a)>>), Compared(R(a), I(0), CompareField(tcs), cu))
  <1> DEFINE args == <<R(a)>>
  <1>1. I(0) \in OperandOn(Int) /\ tcs \in 0 .. 31
    BY OperandType DEF RegNum
  <1>2. args[1] = R(a)
    OBVIOUS
  <1> HIDE DEF args
  <1>3. Agrees(Opt("cmpz", tcs, cu, args), Compared(R(a), I(0), CompareField(tcs), cu))
    BY <1>1, <1>2, CompareAgrees
  <1> QED
    BY <1>3 DEF args

(* Each function code of OP = 0, to 0x1B.                                 *)
LEMMA SpecialFormAgrees ==
    ASSUME NEW func \in 0 .. 31, NEW rD \in RegNum, NEW rA \in RegNum, NEW rB \in RegNum,
           NEW cu \in BOOLEAN
    PROVE  Agrees(ShowSpecial(func, rD, rA, rB, cu), SpecialForm(func, rD, rA, rB, cu))
  <1>1. CASE func = 0
    <2>1. /\ ShowSpecial(func, rD, rA, rB, cu) = Says("nop", <<>>)
          /\ SpecialForm(func, rD, rA, rB, cu) = Nothing
      BY <1>1 DEF ShowSpecial, SpecialForm
    <2> QED
      BY <2>1, NothingAgrees DEF Says
  <1>2. CASE func = 4
    <2>1. /\ ShowSpecial(func, rD, rA, rB, cu) = Opb("br", rB, cu, <<R(rA)>>)
          /\ SpecialForm(func, rD, rA, rB, cu) = Goes(rB, <<"reg", rA>>, cu)
      BY <1>2 DEF ShowSpecial, SpecialForm
    <2> QED
      BY <2>1, LongBranchAgrees DEF RegNum
  <1>3. CASE func = 8
    <2>1. /\ ShowSpecial(func, rD, rA, rB, cu) = Opc("add", cu, <<R(rD), R(rA), R(rB)>>)
          /\ SpecialForm(func, rD, rA, rB, cu) = Arith("add", rD, R(rA), R(rB), cu)
      BY <1>3 DEF ShowSpecial, SpecialForm
    <2> QED
      BY <2>1, LongArithAgrees DEF Register2
  <1>4. CASE func = 9
    <2>1. /\ ShowSpecial(func, rD, rA, rB, cu) = Opc("addc", cu, <<R(rD), R(rA), R(rB)>>)
          /\ SpecialForm(func, rD, rA, rB, cu) = Arith("addc", rD, R(rA), R(rB), cu)
      BY <1>4 DEF ShowSpecial, SpecialForm
    <2> QED
      BY <2>1, LongArithAgrees DEF Register2
  <1>5. CASE func = 10
    <2>1. /\ ShowSpecial(func, rD, rA, rB, cu) = Opc("sub", cu, <<R(rD), R(rA), R(rB)>>)
          /\ SpecialForm(func, rD, rA, rB, cu) = Arith("sub", rD, R(rA), R(rB), cu)
      BY <1>5 DEF ShowSpecial, SpecialForm
    <2> QED
      BY <2>1, LongArithAgrees DEF Register2
  <1>6. CASE func = 11
    <2>1. /\ ShowSpecial(func, rD, rA, rB, cu) = Opc("subc", cu, <<R(rD), R(rA), R(rB)>>)
          /\ SpecialForm(func, rD, rA, rB, cu) = Arith("subc", rD, R(rA), R(rB), cu)
      BY <1>6 DEF ShowSpecial, SpecialForm
    <2> QED
      BY <2>1, LongArithAgrees DEF Register2
  <1>7. CASE func = 12
    <2>1. /\ ShowSpecial(func, rD, rA, rB, cu) = Opt("cmp", rD, cu, <<R(rA), R(rB)>>)
          /\ SpecialForm(func, rD, rA, rB, cu) = Compared(R(rA), R(rB), CompareField(rD), cu)
      BY <1>7 DEF ShowSpecial, SpecialForm
    <2> QED
      BY <2>1, LongCompareAgrees
  <1>8. CASE func = 13
    <2>1. /\ ShowSpecial(func, rD, rA, rB, cu) = Opt("cmpz", rD, cu, <<R(rA)>>)
          /\ SpecialForm(func, rD, rA, rB, cu) = Compared(R(rA), I(0), CompareField(rD), cu)
      BY <1>8 DEF ShowSpecial, SpecialForm
    <2> QED
      BY <2>1, LongCompareZeroAgrees
  <1>9. CASE func = 15
    <2>1. /\ ShowSpecial(func, rD, rA, rB, cu) = Opc("neg", cu, <<R(rD), R(rB)>>)
          /\ SpecialForm(func, rD, rA, rB, cu) = Converted("neg", rD, R(rB), cu)
      BY <1>9, ConvertedForms DEF ShowSpecial, SpecialForm
    <2> QED
      BY <2>1, LongConvertedAgrees DEF Sources1
  <1>10. CASE func = 16
    <2>1. /\ ShowSpecial(func, rD, rA, rB, cu) = Opc("and", cu, <<R(rD), R(rA), R(rB)>>)
          /\ SpecialForm(func, rD, rA, rB, cu) = Arith("and", rD, R(rA), R(rB), cu)
      BY <1>10 DEF ShowSpecial, SpecialForm
    <2> QED
      BY <2>1, LongArithAgrees DEF Register2
  <1>11. CASE func = 17
    <2>1. /\ ShowSpecial(func, rD, rA, rB, cu) = Opc("or", cu, <<R(rD), R(rA), R(rB)>>)
          /\ SpecialForm(func, rD, rA, rB, cu) = Arith("or", rD, R(rA), R(rB), cu)
      BY <1>11 DEF ShowSpecial, SpecialForm
    <2> QED
      BY <2>1, LongArithAgrees DEF Register2
  <1>12. CASE func = 18
    <2>1. /\ ShowSpecial(func, rD, rA, rB, cu) = Opc("not", cu, <<R(rD), R(rA)>>)
          /\ SpecialForm(func, rD, rA, rB, cu) = Converted("not", rD, R(rA), cu)
      BY <1>12, ConvertedForms DEF ShowSpecial, SpecialForm
    <2> QED
      BY <2>1, LongConvertedAgrees DEF Sources1
  <1>13. CASE func = 19
    <2>1. /\ ShowSpecial(func, rD, rA, rB, cu) = Opc("xor", cu, <<R(rD), R(rA), R(rB)>>)
          /\ SpecialForm(func, rD, rA, rB, cu) = Arith("xor", rD, R(rA), R(rB), cu)
      BY <1>13 DEF ShowSpecial, SpecialForm
    <2> QED
      BY <2>1, LongArithAgrees DEF Register2
  <1>14. CASE func = 20
    <2>1. /\ ShowSpecial(func, rD, rA, rB, cu) = Opc("bitclr", cu, <<R(rD), R(rA), Immd(rB)>>)
          /\ SpecialForm(func, rD, rA, rB, cu) = Arith("and", rD, R(rA), I(-1 - BitMask(rB)), cu)
      BY <1>14 DEF ShowSpecial, SpecialForm
    <2> QED
      BY <2>1, LongBitAgrees DEF RegNum
  <1>15. CASE func = 21
    <2>1. /\ ShowSpecial(func, rD, rA, rB, cu) = Opc("bitset", cu, <<R(rD), R(rA), Immd(rB)>>)
          /\ SpecialForm(func, rD, rA, rB, cu) = Arith("or", rD, R(rA), I(BitMask(rB)), cu)
      BY <1>15 DEF ShowSpecial, SpecialForm
    <2> QED
      BY <2>1, LongBitAgrees DEF RegNum
  <1>16. CASE func = 22
    <2>1. /\ ShowSpecial(func, rD, rA, rB, cu) = Opc("bittst", cu, <<R(rA), Immd(rB)>>)
          /\ SpecialForm(func, rD, rA, rB, cu) = Arith("and", Discard, R(rA), I(BitMask(rB)), cu)
      BY <1>16 DEF ShowSpecial, SpecialForm
    <2> QED
      BY <2>1, LongBitTestAgrees DEF RegNum
  <1>17. CASE func = 23
    <2>1. /\ ShowSpecial(func, rD, rA, rB, cu) = Opc("bittgl", cu, <<R(rD), R(rA), Immd(rB)>>)
          /\ SpecialForm(func, rD, rA, rB, cu) = Arith("xor", rD, R(rA), I(BitMask(rB)), cu)
      BY <1>17 DEF ShowSpecial, SpecialForm
    <2> QED
      BY <2>1, LongBitAgrees DEF RegNum
  <1>18. CASE func = 24
    <2>1. /\ ShowSpecial(func, rD, rA, rB, cu) = Opc("sll", cu, <<R(rD), R(rA), R(rB)>>)
          /\ SpecialForm(func, rD, rA, rB, cu) = Arith("sll", rD, R(rA), R(rB), cu)
      BY <1>18 DEF ShowSpecial, SpecialForm
    <2> QED
      BY <2>1, LongArithAgrees DEF Register2
  <1>19. CASE func = 26
    <2>1. /\ ShowSpecial(func, rD, rA, rB, cu) = Opc("srl", cu, <<R(rD), R(rA), R(rB)>>)
          /\ SpecialForm(func, rD, rA, rB, cu) = Arith("srl", rD, R(rA), R(rB), cu)
      BY <1>19 DEF ShowSpecial, SpecialForm
    <2> QED
      BY <2>1, LongArithAgrees DEF Register2
  <1>20. CASE func = 27
    <2>1. /\ ShowSpecial(func, rD, rA, rB, cu) = Opc("sra", cu, <<R(rD), R(rA), R(rB)>>)
          /\ SpecialForm(func, rD, rA, rB, cu) = Arith("sra", rD, R(rA), R(rB), cu)
      BY <1>20 DEF ShowSpecial, SpecialForm
    <2> QED
      BY <2>1, LongArithAgrees DEF Register2
  <1>21. CASE func \notin {0, 4, 8, 9, 10, 11, 12, 13, 15, 16, 17, 18, 19, 20, 21, 22, 23, 24, 26, 27}
    <2>1. ShowSpecial(func, rD, rA, rB, cu) = Unknown
      BY <1>21 DEF ShowSpecial
    <2>2. SpecialForm(func, rD, rA, rB, cu) = Dumped
      BY <1>21 DEF SpecialForm
    <2> QED
      BY <2>1, <2>2, UnknownAgrees
  <1> QED
    BY <1>1, <1>2, <1>3, <1>4, <1>5, <1>6, <1>7, <1>8, <1>9, <1>10, <1>11, <1>12, <1>13, <1>14, <1>15, <1>16, <1>17, <1>18, <1>19, <1>20, <1>21

LEMMA ArithmeticsTable ==
    /\ DOMAIN Arithmetics = {"add", "addc", "sub", "subc", "and", "or", "xor", "sll", "srl", "sra",
                             "addi", "addri", "addis", "andi", "andri", "andis", "ori", "orri",
                             "oris", "slli", "srli", "srai"}
    /\ Arithmetics["addi"] = "add" /\ Arithmetics["addri"] = "add" /\ Arithmetics["addis"] = "add"
    /\ Arithmetics["andi"] = "and" /\ Arithmetics["andri"] = "and" /\ Arithmetics["andis"] = "and"
    /\ Arithmetics["ori"] = "or" /\ Arithmetics["orri"] = "or" /\ Arithmetics["oris"] = "or"
    /\ Arithmetics["slli"] = "sll" /\ Arithmetics["srli"] = "srl" /\ Arithmetics["srai"] = "sra"
  BY DEF Arithmetics

LEMMA EngineTable ==
    /\ DOMAIN EngineNames = {"mfcel", "mfceh", "mfcehl", "mtcel", "mtceh", "mtcehl"}
    /\ EngineNames["mfcel"] = <<"mfce", "lo">> /\ EngineNames["mtcel"] = <<"mtce", "lo">>
    /\ EngineNames["mfceh"] = <<"mfce", "hi">> /\ EngineNames["mtceh"] = <<"mtce", "hi">>
    /\ EngineNames["mfcehl"] = <<"mfce", "both">> /\ EngineNames["mtcehl"] = <<"mtce", "both">>
  BY DEF EngineNames

(* One half of the engine's register, or both.                              *)
LEMMA HalfAgrees ==
    ASSUME NEW suf, NEW d \in RegNum, NEW a \in RegNum
    PROVE  /\ Agrees(Text("mfcel", 15, suf, <<R(d)>>), Engine("mfce", "lo", d, a))
           /\ Agrees(Text("mfceh", 15, suf, <<R(d)>>), Engine("mfce", "hi", d, a))
           /\ Agrees(Text("mtcel", 15, suf, <<R(d)>>), Engine("mtce", "lo", d, a))
           /\ Agrees(Text("mtceh", 15, suf, <<R(d)>>), Engine("mtce", "hi", d, a))
  <1> DEFINE args == <<R(d)>>
  <1>1. args[1] = R(d) /\ Len(args) # 2
    OBVIOUS
  <1> HIDE DEF args
  <1>2. Agrees(Text("mfcel", 15, suf, args), Engine("mfce", "lo", d, a))
    BY <1>1, EngineAgrees, EngineTable
  <1>3. Agrees(Text("mfceh", 15, suf, args), Engine("mfce", "hi", d, a))
    BY <1>1, EngineAgrees, EngineTable
  <1>4. Agrees(Text("mtcel", 15, suf, args), Engine("mtce", "lo", d, a))
    BY <1>1, EngineAgrees, EngineTable
  <1>5. Agrees(Text("mtceh", 15, suf, args), Engine("mtce", "hi", d, a))
    BY <1>1, EngineAgrees, EngineTable
  <1> QED
    BY <1>2, <1>3, <1>4, <1>5 DEF args

LEMMA BothAgree ==
    ASSUME NEW suf, NEW d \in RegNum, NEW a \in RegNum
    PROVE  /\ Agrees(Text("mfcehl", 15, suf, <<R(d), R(a)>>), Engine("mfce", "both", d, a))
           /\ Agrees(Text("mtcehl", 15, suf, <<R(d), R(a)>>), Engine("mtce", "both", d, a))
  <1> DEFINE args == <<R(d), R(a)>>
  <1>1. args[1] = R(d) /\ Len(args) = 2 /\ args[2] = R(a)
    OBVIOUS
  <1> HIDE DEF args
  <1>2. Agrees(Text("mfcehl", 15, suf, args), Engine("mfce", "both", d, a))
    BY <1>1, EngineAgrees, EngineTable
  <1>3. Agrees(Text("mtcehl", 15, suf, args), Engine("mtce", "both", d, a))
    BY <1>1, EngineAgrees, EngineTable
  <1> QED
    BY <1>2, <1>3 DEF args

(* Each function code of OP = 0, from 0x20.                                 *)
LEMMA FurtherFormAgrees ==
    ASSUME NEW func \in 32 .. 63, NEW rD \in RegNum, NEW rA \in RegNum, NEW rB \in RegNum,
           NEW cu \in BOOLEAN
    PROVE  Agrees(ShowFurther(func, rD, rA, rB, cu), SpecialForm(func, rD, rA, rB, cu))
  <1>1. CASE func = 32
    <2>1. /\ ShowFurther(func, rD, rA, rB, cu) = Opc("mul", cu, <<R(rA), R(rB)>>)
          /\ SpecialForm(func, rD, rA, rB, cu) = [op |-> "mul", a |-> rA, b |-> rB]
      BY <1>1 DEF ShowFurther, SpecialForm
    <2> QED
      BY <2>1, ProductAgrees
  <1>2. CASE func = 33
    <2>1. /\ ShowFurther(func, rD, rA, rB, cu) = Opc("mulu", cu, <<R(rA), R(rB)>>)
          /\ SpecialForm(func, rD, rA, rB, cu) = [op |-> "mulu", a |-> rA, b |-> rB]
      BY <1>2 DEF ShowFurther, SpecialForm
    <2> QED
      BY <2>1, ProductAgrees
  <1>3. CASE func = 34
    <2>1. /\ ShowFurther(func, rD, rA, rB, cu) = Opc("div", cu, <<R(rA), R(rB)>>)
          /\ SpecialForm(func, rD, rA, rB, cu) = [op |-> "div", a |-> rA, b |-> rB]
      BY <1>3 DEF ShowFurther, SpecialForm
    <2> QED
      BY <2>1, ProductAgrees
  <1>4. CASE func = 35
    <2>1. /\ ShowFurther(func, rD, rA, rB, cu) = Opc("divu", cu, <<R(rA), R(rB)>>)
          /\ SpecialForm(func, rD, rA, rB, cu) = [op |-> "divu", a |-> rA, b |-> rB]
      BY <1>4 DEF ShowFurther, SpecialForm
    <2> QED
      BY <2>1, ProductAgrees
  <1>5. CASE func = 36
    <2>1. CASE rB = 1
      <3>1. ShowFurther(func, rD, rA, rB, cu) = Says("mfcel", <<R(rD)>>)
        BY <1>5, <2>1 DEF ShowFurther
      <3>2. SpecialForm(func, rD, rA, rB, cu) = Engine("mfce", "lo", rD, rA)
        BY <1>5, <2>1 DEF SpecialForm, Select
      <3> QED
        BY <3>1, <3>2, HalfAgrees DEF Says
    <2>2. CASE rB = 2
      <3>1. ShowFurther(func, rD, rA, rB, cu) = Says("mfceh", <<R(rD)>>)
        BY <1>5, <2>2 DEF ShowFurther
      <3>2. SpecialForm(func, rD, rA, rB, cu) = Engine("mfce", "hi", rD, rA)
        BY <1>5, <2>2 DEF SpecialForm, Select
      <3> QED
        BY <3>1, <3>2, HalfAgrees DEF Says
    <2>3. CASE rB = 3
      <3>1. ShowFurther(func, rD, rA, rB, cu) = Says("mfcehl", <<R(rD), R(rA)>>)
        BY <1>5, <2>3 DEF ShowFurther
      <3>2. SpecialForm(func, rD, rA, rB, cu) = Engine("mfce", "both", rD, rA)
        BY <1>5, <2>3 DEF SpecialForm, Select
      <3> QED
        BY <3>1, <3>2, BothAgree DEF Says
    <2>4. CASE rB \notin {1, 2, 3}
      <3>1. ShowFurther(func, rD, rA, rB, cu) = Unknown
        BY <1>5, <2>4 DEF ShowFurther
      <3>2. SpecialForm(func, rD, rA, rB, cu) = Engine("mfce", "none", rD, rA)
        BY <1>5, <2>4 DEF SpecialForm, Select
      <3> QED
        BY <3>1, <3>2, NoEngineAgrees
    <2> QED
      BY <2>1, <2>2, <2>3, <2>4
  <1>6. CASE func = 37
    <2>1. CASE rB = 1
      <3>1. ShowFurther(func, rD, rA, rB, cu) = Says("mtcel", <<R(rD)>>)
        BY <1>6, <2>1 DEF ShowFurther
      <3>2. SpecialForm(func, rD, rA, rB, cu) = Engine("mtce", "lo", rD, rA)
        BY <1>6, <2>1 DEF SpecialForm, Select
      <3> QED
        BY <3>1, <3>2, HalfAgrees DEF Says
    <2>2. CASE rB = 2
      <3>1. ShowFurther(func, rD, rA, rB, cu) = Says("mtceh", <<R(rD)>>)
        BY <1>6, <2>2 DEF ShowFurther
      <3>2. SpecialForm(func, rD, rA, rB, cu) = Engine("mtce", "hi", rD, rA)
        BY <1>6, <2>2 DEF SpecialForm, Select
      <3> QED
        BY <3>1, <3>2, HalfAgrees DEF Says
    <2>3. CASE rB = 3
      <3>1. ShowFurther(func, rD, rA, rB, cu) = Says("mtcehl", <<R(rD), R(rA)>>)
        BY <1>6, <2>3 DEF ShowFurther
      <3>2. SpecialForm(func, rD, rA, rB, cu) = Engine("mtce", "both", rD, rA)
        BY <1>6, <2>3 DEF SpecialForm, Select
      <3> QED
        BY <3>1, <3>2, BothAgree DEF Says
    <2>4. CASE rB \notin {1, 2, 3}
      <3>1. ShowFurther(func, rD, rA, rB, cu) = Unknown
        BY <1>6, <2>4 DEF ShowFurther
      <3>2. SpecialForm(func, rD, rA, rB, cu) = Engine("mtce", "none", rD, rA)
        BY <1>6, <2>4 DEF SpecialForm, Select
      <3> QED
        BY <3>1, <3>2, NoEngineAgrees
    <2> QED
      BY <2>1, <2>2, <2>3, <2>4
  <1>7. CASE func = 40
    <2>1. /\ ShowFurther(func, rD, rA, rB, cu) = Says("mfsr", <<R(rD), Named("s", rB)>>)
          /\ SpecialForm(func, rD, rA, rB, cu) = Special("mfsr", rD, rB)
      BY <1>7 DEF ShowFurther, SpecialForm
    <2> QED
      BY <2>1, SpecialAgrees
  <1>8. CASE func = 41
    <2>1. /\ ShowFurther(func, rD, rA, rB, cu) = Says("mtsr", <<R(rA), Named("s", rB)>>)
          /\ SpecialForm(func, rD, rA, rB, cu) = Special("mtsr", rA, rB)
      BY <1>8 DEF ShowFurther, SpecialForm
    <2> QED
      BY <2>1, SpecialAgrees
  <1>9. CASE func = 42
    <2>1. /\ ShowFurther(func, rD, rA, rB, cu) = Opb("t", rB, FALSE, <<>>)
          /\ SpecialForm(func, rD, rA, rB, cu) = [op |-> "t", cond |-> rB]
      BY <1>9 DEF ShowFurther, SpecialForm
    <2> QED
      BY <2>1, LongTestAgrees DEF RegNum
  <1>10. CASE func = 43
    <2>1. /\ ShowFurther(func, rD, rA, rB, cu) = Opb("mv", rB, FALSE, <<R(rD), R(rA)>>)
          /\ SpecialForm(func, rD, rA, rB, cu) = Moved(rB, rD, R(rA))
      BY <1>10 DEF ShowFurther, SpecialForm
    <2> QED
      BY <2>1, LongMoveAgrees DEF RegNum
  <1>11. CASE func = 44
    <2>1. /\ ShowFurther(func, rD, rA, rB, cu) = Opc("extsb", cu, <<R(rD), R(rA)>>)
          /\ SpecialForm(func, rD, rA, rB, cu) = Converted("extsb", rD, R(rA), cu)
      BY <1>11, ConvertedForms DEF ShowFurther, SpecialForm
    <2> QED
      BY <2>1, LongConvertedAgrees DEF Sources1
  <1>12. CASE func = 45
    <2>1. /\ ShowFurther(func, rD, rA, rB, cu) = Opc("extsh", cu, <<R(rD), R(rA)>>)
          /\ SpecialForm(func, rD, rA, rB, cu) = Converted("extsh", rD, R(rA), cu)
      BY <1>12, ConvertedForms DEF ShowFurther, SpecialForm
    <2> QED
      BY <2>1, LongConvertedAgrees DEF Sources1
  <1>13. CASE func = 46
    <2>1. /\ ShowFurther(func, rD, rA, rB, cu) = Opc("extzb", cu, <<R(rD), R(rA)>>)
          /\ SpecialForm(func, rD, rA, rB, cu) = Converted("extzb", rD, R(rA), cu)
      BY <1>13, ConvertedForms DEF ShowFurther, SpecialForm
    <2> QED
      BY <2>1, LongConvertedAgrees DEF Sources1
  <1>14. CASE func = 47
    <2>1. /\ ShowFurther(func, rD, rA, rB, cu) = Opc("extzh", cu, <<R(rD), R(rA)>>)
          /\ SpecialForm(func, rD, rA, rB, cu) = Converted("extzh", rD, R(rA), cu)
      BY <1>14, ConvertedForms DEF ShowFurther, SpecialForm
    <2> QED
      BY <2>1, LongConvertedAgrees DEF Sources1
  <1>15. CASE func = 56
    <2>1. /\ ShowFurther(func, rD, rA, rB, cu) = Opc("slli", cu, <<R(rD), R(rA), Immd(rB)>>)
          /\ SpecialForm(func, rD, rA, rB, cu) = Arith(Arithmetics["slli"], rD, R(rA), I(rB), cu)
      BY <1>15, ArithmeticsTable DEF ShowFurther, SpecialForm
    <2>2. rB \in Int /\ "slli" \in DOMAIN Arithmetics
      BY ArithmeticsTable DEF RegNum
    <2> QED
      BY <2>1, <2>2, LongImmediateAgrees
  <1>16. CASE func = 58
    <2>1. /\ ShowFurther(func, rD, rA, rB, cu) = Opc("srli", cu, <<R(rD), R(rA), Immd(rB)>>)
          /\ SpecialForm(func, rD, rA, rB, cu) = Arith(Arithmetics["srli"], rD, R(rA), I(rB), cu)
      BY <1>16, ArithmeticsTable DEF ShowFurther, SpecialForm
    <2>2. rB \in Int /\ "srli" \in DOMAIN Arithmetics
      BY ArithmeticsTable DEF RegNum
    <2> QED
      BY <2>1, <2>2, LongImmediateAgrees
  <1>17. CASE func = 59
    <2>1. /\ ShowFurther(func, rD, rA, rB, cu) = Opc("srai", cu, <<R(rD), R(rA), Immd(rB)>>)
          /\ SpecialForm(func, rD, rA, rB, cu) = Arith(Arithmetics["srai"], rD, R(rA), I(rB), cu)
      BY <1>17, ArithmeticsTable DEF ShowFurther, SpecialForm
    <2>2. rB \in Int /\ "srai" \in DOMAIN Arithmetics
      BY ArithmeticsTable DEF RegNum
    <2> QED
      BY <2>1, <2>2, LongImmediateAgrees
  <1>18. CASE func \notin {32, 33, 34, 35, 36, 37, 40, 41, 42, 43, 44, 45, 46, 47, 56, 58, 59}
    <2>1. ShowFurther(func, rD, rA, rB, cu) = Unknown
      BY <1>18 DEF ShowFurther
    <2>2. SpecialForm(func, rD, rA, rB, cu) = Dumped
      BY <1>18 DEF SpecialForm
    <2> QED
      BY <2>1, <2>2, UnknownAgrees
  <1> QED
    BY <1>1, <1>2, <1>3, <1>4, <1>5, <1>6, <1>7, <1>8, <1>9, <1>10, <1>11, <1>12, <1>13, <1>14, <1>15, <1>16, <1>17, <1>18

LEMMA LongCompareImmediateAgrees ==
    ASSUME NEW s \in {"cmpi", "cmpis"}, NEW a \in RegNum, NEW z, NEW y \in OperandOn(Int),
           Operation(z) = y, NEW cu \in BOOLEAN
    PROVE  Agrees(Opc(s, cu, <<R(a), z>>), Compared(R(a), y, 3, cu))
  <1> DEFINE args == <<R(a), z>>
  <1>1. args[1] = R(a) /\ args[2] = z
    OBVIOUS
  <1> HIDE DEF args
  <1>2. Agrees(Opc(s, cu, args), Compared(R(a), y, 3, cu))
    BY <1>1, CompareAgrees
  <1> QED
    BY <1>2 DEF args

LEMMA LongLoadImmediateAgrees ==
    ASSUME NEW s \in {"ldi", "ldis"}, NEW d \in RegNum, NEW z, NEW y \in OperandOn(Int),
           Operation(z) = y, NEW cu \in BOOLEAN
    PROVE  /\ Agrees(Opc(s, cu, <<R(d), z>>), Moved(15, d, y))
           /\ Agrees(Says(s, <<R(d), z>>), Moved(15, d, y))
  <1>1. s \in Moving
    BY DEF Moving
  <1>2. ASSUME NEW suf
        PROVE  Agrees(Text(s, 15, suf, <<R(d), z>>), Moved(15, d, y))
    <2>1. 15 \in 0 .. 31
      OBVIOUS
    <2> QED
      BY <1>1, <2>1, MoveAgrees
  <1>3. Agrees(Opc(s, cu, <<R(d), z>>), Moved(15, d, y))
    BY <1>2, FlagSuffix
  <1>4. Agrees(Says(s, <<R(d), z>>), Moved(15, d, y))
    BY <1>2 DEF Says
  <1> QED
    BY <1>3, <1>4

(* The immediate forms, in the width of OP = 1 and in that of OP = 5.       *)
LEMMA ImmediateFormAgrees ==
    ASSUME NEW func \in 0 .. 7, NEW rD \in RegNum, NEW imm \in Int, NEW cu \in BOOLEAN,
           Extended(imm, 16) \in Int
    PROVE  Agrees(ShowImmediate(func, rD, imm, cu), ImmediateForm(func, rD, Extended(imm, 16), imm, cu))
  <1> DEFINE v == Extended(imm, 16)
  <1>1. /\ I(v) \in OperandOn(Int) /\ Operation(Immd(v)) = I(v)
        /\ I(imm) \in OperandOn(Int) /\ Operation(Immd(imm)) = I(imm)
    BY OperandType
  <1> SUFFICES Agrees(ShowImmediate(func, rD, imm, cu), ImmediateForm(func, rD, v, imm, cu))
    OBVIOUS
  <1>2. CASE func = 0
    <2>1. /\ ShowImmediate(func, rD, imm, cu) = Opc("addi", cu, <<R(rD), Immd(v)>>)
          /\ ImmediateForm(func, rD, v, imm, cu) = Arith(Arithmetics["addi"], rD, R(rD), I(v), cu)
      BY <1>2, ArithmeticsTable DEF ShowImmediate, ImmediateForm
    <2>2. "addi" \in DOMAIN Arithmetics
      BY ArithmeticsTable
    <2> HIDE DEF v
    <2> QED
      BY <1>1, <2>1, <2>2, LongOneImmediateAgrees
  <1>3. CASE func = 2
    <2>1. /\ ShowImmediate(func, rD, imm, cu) = Opc("cmpi", cu, <<R(rD), Immd(v)>>)
          /\ ImmediateForm(func, rD, v, imm, cu) = Compared(R(rD), I(v), 3, cu)
      BY <1>3 DEF ShowImmediate, ImmediateForm
    <2> HIDE DEF v
    <2> QED
      BY <1>1, <2>1, LongCompareImmediateAgrees
  <1>4. CASE func = 4
    <2>1. /\ ShowImmediate(func, rD, imm, cu) = Opc("andi", cu, <<R(rD), Immd(imm)>>)
          /\ ImmediateForm(func, rD, v, imm, cu) = Arith(Arithmetics["andi"], rD, R(rD), I(imm), cu)
      BY <1>4, ArithmeticsTable DEF ShowImmediate, ImmediateForm
    <2>2. "andi" \in DOMAIN Arithmetics
      BY ArithmeticsTable
    <2> HIDE DEF v
    <2> QED
      BY <1>1, <2>1, <2>2, LongOneImmediateAgrees
  <1>5. CASE func = 5
    <2>1. /\ ShowImmediate(func, rD, imm, cu) = Opc("ori", cu, <<R(rD), Immd(imm)>>)
          /\ ImmediateForm(func, rD, v, imm, cu) = Arith(Arithmetics["ori"], rD, R(rD), I(imm), cu)
      BY <1>5, ArithmeticsTable DEF ShowImmediate, ImmediateForm
    <2>2. "ori" \in DOMAIN Arithmetics
      BY ArithmeticsTable
    <2> HIDE DEF v
    <2> QED
      BY <1>1, <2>1, <2>2, LongOneImmediateAgrees
  <1>6. CASE func = 6
    <2>1. /\ ShowImmediate(func, rD, imm, cu) = Says("ldi", <<R(rD), Immd(v)>>)
          /\ ImmediateForm(func, rD, v, imm, cu) = Moved(15, rD, I(v))
      BY <1>6 DEF ShowImmediate, ImmediateForm
    <2> HIDE DEF v
    <2> QED
      BY <1>1, <2>1, LongLoadImmediateAgrees
  <1>7. CASE func \notin {0, 2, 4, 5, 6}
    <2>1. ShowImmediate(func, rD, imm, cu) = Unknown
      BY <1>7 DEF ShowImmediate
    <2>2. ImmediateForm(func, rD, v, imm, cu) = Dumped
      BY <1>7 DEF ImmediateForm
    <2> QED
      BY <2>1, <2>2, UnknownAgrees
  <1> HIDE DEF v
  <1> QED
    BY <1>2, <1>3, <1>4, <1>5, <1>6, <1>7

LEMMA UpperFormAgrees ==
    ASSUME NEW func \in 0 .. 7, NEW rD \in RegNum, NEW imm \in Int, NEW cu \in BOOLEAN,
           Upper(imm) \in Int
    PROVE  Agrees(ShowUpper(func, rD, imm, cu), ImmediateForm(func, rD, Upper(imm), Upper(imm), cu))
  <1> DEFINE v == Upper(imm)
             z == Immx32(<<imm, 0>>)
  <1>1. I(v) \in OperandOn(Int) /\ Operation(z) = I(v)
    BY OperandType
  <1> SUFFICES Agrees(ShowUpper(func, rD, imm, cu), ImmediateForm(func, rD, v, v, cu))
    OBVIOUS
  <1>2. CASE func = 0
    <2>1. /\ ShowUpper(func, rD, imm, cu) = Opc("addis", cu, <<R(rD), z>>)
          /\ ImmediateForm(func, rD, v, v, cu) = Arith(Arithmetics["addis"], rD, R(rD), I(v), cu)
      BY <1>2, ArithmeticsTable DEF ShowUpper, ImmediateForm
    <2>2. "addis" \in DOMAIN Arithmetics
      BY ArithmeticsTable
    <2> HIDE DEF v, z
    <2> QED
      BY <1>1, <2>1, <2>2, LongOneImmediateAgrees
  <1>3. CASE func = 2
    <2>1. /\ ShowUpper(func, rD, imm, cu) = Opc("cmpis", cu, <<R(rD), z>>)
          /\ ImmediateForm(func, rD, v, v, cu) = Compared(R(rD), I(v), 3, cu)
      BY <1>3 DEF ShowUpper, ImmediateForm
    <2> HIDE DEF v, z
    <2> QED
      BY <1>1, <2>1, LongCompareImmediateAgrees
  <1>4. CASE func = 4
    <2>1. /\ ShowUpper(func, rD, imm, cu) = Opc("andis", cu, <<R(rD), z>>)
          /\ ImmediateForm(func, rD, v, v, cu) = Arith(Arithmetics["andis"], rD, R(rD), I(v), cu)
      BY <1>4, ArithmeticsTable DEF ShowUpper, ImmediateForm
    <2>2. "andis" \in DOMAIN Arithmetics
      BY ArithmeticsTable
    <2> HIDE DEF v, z
    <2> QED
      BY <1>1, <2>1, <2>2, LongOneImmediateAgrees
  <1>5. CASE func = 5
    <2>1. /\ ShowUpper(func, rD, imm, cu) = Opc("oris", cu, <<R(rD), z>>)
          /\ ImmediateForm(func, rD, v, v, cu) = Arith(Arithmetics["oris"], rD, R(rD), I(v), cu)
      BY <1>5, ArithmeticsTable DEF ShowUpper, ImmediateForm
    <2>2. "oris" \in DOMAIN Arithmetics
      BY ArithmeticsTable
    <2> HIDE DEF v, z
    <2> QED
      BY <1>1, <2>1, <2>2, LongOneImmediateAgrees
  <1>6. CASE func = 6
    <2>1. /\ ShowUpper(func, rD, imm, cu) = Opc("ldis", cu, <<R(rD), z>>)
          /\ ImmediateForm(func, rD, v, v, cu) = Moved(15, rD, I(v))
      BY <1>6 DEF ShowUpper, ImmediateForm
    <2> HIDE DEF v, z
    <2> QED
      BY <1>1, <2>1, LongLoadImmediateAgrees
  <1>7. CASE func \notin {0, 2, 4, 5, 6}
    <2>1. ShowUpper(func, rD, imm, cu) = Unknown
      BY <1>7 DEF ShowUpper
    <2>2. ImmediateForm(func, rD, v, v, cu) = Dumped
      BY <1>7 DEF ImmediateForm
    <2> QED
      BY <2>1, <2>2, UnknownAgrees
  <1> HIDE DEF v
  <1> QED
    BY <1>2, <1>3, <1>4, <1>5, <1>6, <1>7

(* Control registers, and the return from an exception.                     *)
LEMMA ControlFormAgrees ==
    ASSUME NEW crOp \in Nat, NEW rD \in RegNum, NEW crA \in RegNum
    PROVE  Agrees(ShowControl(crOp, rD, crA), ControlForm(crOp, rD, crA))
  <1>1. CASE crOp = 0
    <2>1. /\ ShowControl(crOp, rD, crA) = Says("mtcr", <<R(rD), Named("c", crA)>>)
          /\ ControlForm(crOp, rD, crA) = Special("mtcr", rD, crA)
      BY <1>1 DEF ShowControl, ControlForm
    <2> QED
      BY <2>1, SpecialAgrees
  <1>2. CASE crOp = 1
    <2>1. /\ ShowControl(crOp, rD, crA) = Says("mfcr", <<R(rD), Named("c", crA)>>)
          /\ ControlForm(crOp, rD, crA) = Special("mfcr", rD, crA)
      BY <1>2 DEF ShowControl, ControlForm
    <2> QED
      BY <2>1, SpecialAgrees
  <1>3. CASE crOp = 132
    <2>1. /\ ShowControl(crOp, rD, crA) = Says("rte", <<>>)
          /\ ControlForm(crOp, rD, crA) = Goes(15, <<"epc", 0>>, FALSE)
      BY <1>3 DEF ShowControl, ControlForm
    <2> QED
      BY <2>1, ReturnAgrees
  <1>4. CASE crOp \notin {0, 1, 132}
    <2>1. ShowControl(crOp, rD, crA) = Unknown
      BY <1>4 DEF ShowControl
    <2>2. ControlForm(crOp, rD, crA) = Dumped
      BY <1>4 DEF ControlForm
    <2> QED
      BY <2>1, <2>2, UnknownAgrees
  <1> QED
    BY <1>1, <1>2, <1>3, <1>4

Halves == 0 .. 2^16 - 1

LEMMA HalfType == \A n \in Halves : n \in Nat
  BY DEF Halves

(* b: to the same address the processor computes.                           *)
LEMMA RelativeAgrees ==
    ASSUME NEW cond \in 0 .. 31, NEW link \in BOOLEAN, NEW d \in Int, NEW suf,
           ("l" \in suf) = link, address \in Halves \X Halves
    PROVE  Agrees(Text("b", cond, suf, <<Immx32(Plus(address, d))>>), Goes(cond, <<"rel", d>>, link))
  <1> DEFINE s == address[2] + d
             x == (address[1] + (s \div 2^16)) % 2^16
             y == s % 2^16
  <1>1. x \in Int /\ y \in Int
    <2>1. s \in Int /\ address[1] \in Int
      BY HalfType
    <2> HIDE DEF s
    <2>2. s \div 2^16 \in Int
      BY <2>1
    <2> QED
      BY <2>1, <2>2
  <1>2. Plus(address, d) = <<x, y>>
    BY DEF Plus
  <1>3. TakenTarget(<<"rel", d>>, address) = <<"at">> \o Plus(address, d)
    BY DEF TakenTarget
  <1>4. <<"rel", d>> \in TargetOn(Int)
    BY DEF TargetOn
  <1> HIDE DEF x, y
  <1> QED
    BY <1>1, <1>2, <1>3, <1>4, BranchToAddressAgrees

LEMMA RelativeType ==
    ASSUME NEW cond \in 0 .. 31, NEW link \in BOOLEAN, NEW d \in Int
    PROVE  Goes(cond, <<"rel", d>>, link) \in InstructionOn(Int)
  BY DEF InstructionOn, Goes, TargetOn

LEMMA LongRelativeAgrees ==
    ASSUME NEW cond \in 0 .. 31, NEW link \in BOOLEAN, NEW d \in Int,
           address \in Halves \X Halves
    PROVE  Agrees(Opb("b", cond, link, <<Immx32(Plus(address, d))>>), Goes(cond, <<"rel", d>>, link))
  <1> DEFINE args == <<Immx32(Plus(address, d))>>
             t == Opb("b", cond, link, args)
  <1>1. t = Garbage \/ \E suf : t = Text("b", cond, suf, args) /\ ("l" \in suf) = link
    <2> HIDE DEF args
    <2> QED
      BY ConditionSuffix
  <1>2. CASE t = Garbage
    <2> HIDE DEF t
    <2> QED
      BY <1>2, RelativeType, GarbageAgrees DEF t
  <1>3. ASSUME NEW suf, t = Text("b", cond, suf, args), ("l" \in suf) = link
        PROVE  Agrees(t, Goes(cond, <<"rel", d>>, link))
    <2> HIDE DEF t
    <2> QED
      BY <1>3, RelativeAgrees
  <1> HIDE DEF t
  <1> QED
    BY <1>1, <1>2, <1>3 DEF t

LEMMA HalfOfSpan ==
    ASSUME NEW n \in Nat, ~(n % 2^10 >= 2^9)
    PROVE  n % 2^9 = n % 2^10
  <1> DEFINE q == n \div 2^10
             m == n % 2^10
  <1>1. n = 1024 * q + m /\ q \in Nat /\ m \in 0 .. 511
    OBVIOUS
  <1> HIDE DEF q, m
  <1>2. (1024 * q + m) % 512 = m
    BY <1>1
  <1> QED
    BY <1>1, <1>2 DEF m

(* j: in the lower half of each 64 MiB, where the disassembler's mask does  *)
(* not matter, to the same address; in the upper half the two part.         *)
LEMMA FarAgrees ==
    ASSUME NEW link \in BOOLEAN, NEW disp \in 0 .. 2^24 - 1, address \in Halves \X Halves
    PROVE  Agrees(ShowJump(link, address, disp), Goes(15, <<"far", 2 * disp>>, link))
  <1> DEFINE h == address[1]
             x == h - (h % 2^10) + (disp \div 2^15)
             y == (2 * disp) % 2^16
             p == h - (h % 2^9) + ((2 * disp) \div 2^16)
             suf == IF link THEN {"l"} ELSE {}
  <1>1. x \in Int /\ y \in Int /\ h \in Halves
    <2>1. h \in Halves
      OBVIOUS
    <2>2. h \in Int /\ disp \div 2^15 \in Int
      BY <2>1, HalfType
    <2> HIDE DEF h
    <2> QED
      BY <2>1, <2>2
  <1>2. ShowJump(link, address, disp) = Text("j", 15, suf, <<Immx32(<<x, y>>)>>)
    BY DEF ShowJump, Opl, Opb
  <1>3. ("l" \in suf) = link
    BY Suffixes
  <1>4. TakenTarget(<<"far", 2 * disp>>, address) = <<"at">> \o <<p, y>>
    BY DEF TakenTarget
  <1>5. h % 2^10 >= 2^9 \/ p = x
    <2>1. ~(h % 2^10 >= 2^9) => h % 2^9 = h % 2^10
      <3>1. h \in Nat
        BY <1>1, HalfType
      <3> QED
        BY <3>1, HalfOfSpan
    <2>2. (2 * disp) \div 2^16 = disp \div 2^15
      OBVIOUS
    <2> QED
      BY <2>1, <2>2
  <1>6. <<"far", 2 * disp>> \in TargetOn(Int)
    BY DEF TargetOn
  <1> HIDE DEF x, y, p, suf
  <1>7. \/ address[1] % 2^10 >= 2^9
        \/ TakenTarget(<<"far", 2 * disp>>, address) = <<"at">> \o <<x, y>>
    BY <1>4, <1>5
  <1>8. 15 \in 0 .. 31
    OBVIOUS
  <1> QED
    BY <1>1, <1>2, <1>3, <1>6, <1>7, <1>8, BranchToAddressAgrees

(* The ranges of the fields of a 32-bit instruction.                        *)
LEMMA LongFields ==
    ASSUME NEW w \in Nat
    PROVE  /\ Bits(w, 25, 5) \in 0 .. 31
           /\ Bits(w, 20, 5) \in RegNum
           /\ Bits(w, 15, 5) \in RegNum
           /\ Bits(w, 10, 5) \in RegNum
           /\ Bits(w, 1, 6) \in 0 .. 63
           /\ Bits(w, 17, 3) \in 0 .. 7
           /\ Bits(w, 0, 3) \in 0 .. 7
           /\ Bits(w, 0, 8) \in Nat
           /\ Bits(w, 1, 16) \in 0 .. 2^16 - 1
           /\ Bits(w, 1, 14) \in 0 .. 2^14 - 1
           /\ Bits(w, 1, 24) \in 0 .. 2^24 - 1
           /\ Bits(w, 3, 12) \in 0 .. 2^12 - 1
           /\ Bits(w, 0, 15) \in 0 .. 2^15 - 1
           /\ Bits(w, 15, 10) \in 0 .. 2^10 - 1
           /\ Bits(w, 1, 9) \in 0 .. 2^9 - 1
  <1>1. Bits(w, 25, 5) \in 0 .. 31
    BY DEF Bits
  <1>2. Bits(w, 20, 5) \in RegNum
    BY DEF Bits, RegNum
  <1>3. Bits(w, 15, 5) \in RegNum
    BY DEF Bits, RegNum
  <1>4. Bits(w, 10, 5) \in RegNum
    BY DEF Bits, RegNum
  <1>5. Bits(w, 1, 6) \in 0 .. 63
    BY DEF Bits
  <1>6. Bits(w, 17, 3) \in 0 .. 7
    BY DEF Bits
  <1>7. Bits(w, 0, 3) \in 0 .. 7
    BY DEF Bits
  <1>8. Bits(w, 0, 8) \in Nat
    BY DEF Bits
  <1>9. Bits(w, 1, 16) \in 0 .. 2^16 - 1
    BY DEF Bits
  <1>10. Bits(w, 1, 14) \in 0 .. 2^14 - 1
    BY DEF Bits
  <1>11. Bits(w, 1, 24) \in 0 .. 2^24 - 1
    BY DEF Bits
  <1>12. Bits(w, 3, 12) \in 0 .. 2^12 - 1
    BY DEF Bits
  <1>13. Bits(w, 0, 15) \in 0 .. 2^15 - 1
    BY DEF Bits
  <1>14. Bits(w, 15, 10) \in 0 .. 2^10 - 1
    BY DEF Bits
  <1>15. Bits(w, 1, 9) \in 0 .. 2^9 - 1
    BY DEF Bits
  <1> QED
    BY <1>1, <1>2, <1>3, <1>4, <1>5, <1>6, <1>7, <1>8, <1>9, <1>10, <1>11, <1>12, <1>13, <1>14, <1>15

(* The function code's upper bit chooses between the two halves of OP = 0.  *)
LEMMA FunctionBit ==
    ASSUME NEW w \in Nat
    PROVE  Bits(w, 6, 1) = 0 <=> Bits(w, 1, 6) < 32
  <1> DEFINE q == w \div 2
             e == q \div 32
             f == q % 32
             g == e \div 2
             h == e % 2
  <1>1. w \div 64 = e
    OBVIOUS
  <1>2. q = 64 * g + 32 * h + f /\ g \in Nat /\ h \in 0 .. 1 /\ f \in 0 .. 31
    OBVIOUS
  <1>3. Bits(w, 6, 1) = h /\ Bits(w, 1, 6) = q % 64
    BY <1>1 DEF Bits
  <1> HIDE DEF q, e, f, g, h
  <1>4. q % 64 = 32 * h + f
    BY <1>2
  <1> QED
    BY <1>2, <1>3, <1>4

LEMMA SignExtensions ==
    /\ \A x \in Int : Extended(x, 16) \in Int /\ Extended(x, 14) \in Int
    /\ \A x \in Int : Extended(x, 12) \in Int /\ Extended(x, 15) \in Int
    /\ \A x \in Int : Extended(x, 20) \in Int /\ Extended(x, 8) \in Int
    /\ \A x \in Int : Upper(x) \in Int
  <1>1. \A x \in Int : Extended(x, 16) \in Int /\ Extended(x, 14) \in Int
    BY DEF Extended
  <1>2. \A x \in Int : Extended(x, 12) \in Int /\ Extended(x, 15) \in Int
    BY DEF Extended
  <1>3. \A x \in Int : Extended(x, 20) \in Int /\ Extended(x, 8) \in Int
    BY DEF Extended
  <1>4. \A x \in Int : Upper(x) \in Int
    BY <1>1 DEF Upper
  <1> QED
    BY <1>1, <1>2, <1>3, <1>4

(* What disasm32 shows is what exec32 does, for every encoding.             *)
LEMMA LongAgrees ==
    ASSUME NEW w \in Nat, address \in Halves \X Halves
    PROVE  Agrees(Disasm32(w, address), Decode32(w))
  <1> DEFINE OP    == Bits(w, 25, 5)
             rD    == Bits(w, 20, 5)
             rA    == Bits(w, 15, 5)
             rB    == Bits(w, 10, 5)
             cu    == Bits(w, 0, 1) = 1
             func3 == Bits(w, 0, 3)
             Imm16 == Bits(w, 1, 16)
             Imm14 == Bits(w, 1, 14)
             Imm14s == Extended(Imm14, 14)
             Imm12 == Extended(Bits(w, 3, 12), 12)
             Imm15 == Extended(Bits(w, 0, 15), 15)
             Disp  == Extended(2 * (512 * Bits(w, 15, 10) + Bits(w, 1, 9)), 20)
  <1>a. /\ OP \in 0 .. 31 /\ rD \in RegNum /\ rA \in RegNum /\ rB \in RegNum /\ rB \in 0 .. 31
        /\ func3 \in 0 .. 7 /\ Imm16 \in Int /\ Imm14 \in Int /\ Bits(w, 17, 3) \in 0 .. 7
        /\ Bits(w, 0, 8) \in Nat /\ Bits(w, 1, 24) \in 0 .. 2^24 - 1
    <2>1. OP \in 0 .. 31 /\ rD \in RegNum /\ rA \in RegNum /\ rB \in RegNum /\ func3 \in 0 .. 7
      BY LongFields
    <2>2. rB \in 0 .. 31
      BY <2>1 DEF RegNum
    <2>3. Imm16 \in Int /\ Imm14 \in Int
      <3>1. Imm16 \in 0 .. 2^16 - 1 /\ Imm14 \in 0 .. 2^14 - 1
        BY LongFields
      <3> HIDE DEF Imm16, Imm14
      <3> QED
        BY <3>1
    <2>4. /\ Bits(w, 17, 3) \in 0 .. 7 /\ Bits(w, 0, 8) \in Nat
          /\ Bits(w, 1, 24) \in 0 .. 2^24 - 1
      BY LongFields
    <2> QED
      BY <2>1, <2>2, <2>3, <2>4
  <1>b. /\ Extended(Imm16, 16) \in Int /\ Upper(Imm16) \in Int /\ Imm14s \in Int
        /\ Imm12 \in Int /\ Imm15 \in Int /\ Disp \in Int
    <2>1. 2 * (512 * Bits(w, 15, 10) + Bits(w, 1, 9)) \in Int
      BY LongFields
    <2> QED
      BY <1>a, <2>1, LongFields, SignExtensions
  <1>c. cu \in BOOLEAN
    OBVIOUS
  <1>1. CASE OP = 0 /\ Bits(w, 6, 1) = 0
    <2>1. Disasm32(w, address) = ShowSpecial(Bits(w, 1, 6), rD, rA, rB, cu)
      BY <1>1 DEF Disasm32
    <2>2. Decode32(w) = SpecialForm(Bits(w, 1, 6), rD, rA, rB, cu)
      BY <1>1 DEF Decode32
    <2>3. Bits(w, 1, 6) \in 0 .. 31
      <3>1. Bits(w, 1, 6) \in 0 .. 63
        BY LongFields
      <3>2. Bits(w, 1, 6) < 32
        BY <1>1, FunctionBit
      <3> QED
        BY <3>1, <3>2
    <2> HIDE DEF OP, rD, rA, rB, cu, func3, Imm16, Imm14, Imm14s, Imm12, Imm15, Disp
    <2> QED
      BY <1>a, <1>b, <1>c, <2>1, <2>2, <2>3, SpecialFormAgrees
  <1>2. CASE OP = 0 /\ Bits(w, 6, 1) # 0
    <2>1. Disasm32(w, address) = ShowFurther(Bits(w, 1, 6), rD, rA, rB, cu)
      BY <1>2 DEF Disasm32
    <2>2. Decode32(w) = SpecialForm(Bits(w, 1, 6), rD, rA, rB, cu)
      BY <1>2 DEF Decode32
    <2>3. Bits(w, 1, 6) \in 32 .. 63
      <3>1. Bits(w, 1, 6) \in 0 .. 63
        BY LongFields
      <3>2. ~(Bits(w, 1, 6) < 32)
        BY <1>2, FunctionBit
      <3> QED
        BY <3>1, <3>2
    <2> HIDE DEF OP, rD, rA, rB, cu, func3, Imm16, Imm14, Imm14s, Imm12, Imm15, Disp
    <2> QED
      BY <1>a, <1>b, <1>c, <2>1, <2>2, <2>3, FurtherFormAgrees
  <1>3. CASE OP = 1
    <2>1. Disasm32(w, address) = ShowImmediate(Bits(w, 17, 3), rD, Imm16, cu)
      BY <1>3 DEF Disasm32
    <2>2. Decode32(w) = ImmediateForm(Bits(w, 17, 3), rD, Extended(Imm16, 16), Imm16, cu)
      BY <1>3 DEF Decode32
    <2> HIDE DEF OP, rD, rA, rB, cu, func3, Imm16, Imm14, Imm14s, Imm12, Imm15, Disp
    <2> QED
      BY <1>a, <1>b, <1>c, <2>1, <2>2, ImmediateFormAgrees
  <1>4. CASE OP = 2
    <2>1. Disasm32(w, address) = ShowJump(cu, address, Bits(w, 1, 24))
      BY <1>4 DEF Disasm32
    <2>2. Decode32(w) = Goes(15, <<"far", 2 * Bits(w, 1, 24)>>, cu)
      BY <1>4 DEF Decode32
    <2> HIDE DEF OP, rD, rA, rB, cu, func3, Imm16, Imm14, Imm14s, Imm12, Imm15, Disp
    <2> QED
      BY <1>a, <1>b, <1>c, <2>1, <2>2, FarAgrees
  <1>5. CASE OP = 3
    <2>1. Disasm32(w, address) = Says(AccessName(func3), <<R(rD), MemoffPlus(rA, Imm12)>>)
      BY <1>5 DEF Disasm32
    <2>2. Decode32(w) = Access(func3, rD, rA, Imm12, "pre")
      BY <1>5 DEF Decode32
    <2> HIDE DEF OP, rD, rA, rB, cu, func3, Imm16, Imm14, Imm14s, Imm12, Imm15, Disp
    <2> QED
      BY <1>a, <1>b, <1>c, <2>1, <2>2, AccessForms
  <1>6. CASE OP = 4
    <2>1. Disasm32(w, address) = Opb("b", rB, cu, <<Immx32(Plus(address, Disp))>>)
      BY <1>6 DEF Disasm32
    <2>2. Decode32(w) = Goes(rB, <<"rel", Disp>>, cu)
      BY <1>6 DEF Decode32
    <2> HIDE DEF OP, rD, rA, rB, cu, func3, Imm16, Imm14, Imm14s, Imm12, Imm15, Disp
    <2> QED
      BY <1>a, <1>b, <1>c, <2>1, <2>2, LongRelativeAgrees
  <1>7. CASE OP = 5
    <2>1. Disasm32(w, address) = ShowUpper(Bits(w, 17, 3), rD, Imm16, cu)
      BY <1>7 DEF Disasm32
    <2>2. Decode32(w) = ImmediateForm(Bits(w, 17, 3), rD, Upper(Imm16), Upper(Imm16), cu)
      BY <1>7 DEF Decode32
    <2> HIDE DEF OP, rD, rA, rB, cu, func3, Imm16, Imm14, Imm14s, Imm12, Imm15, Disp
    <2> QED
      BY <1>a, <1>b, <1>c, <2>1, <2>2, UpperFormAgrees
  <1>8. CASE OP = 6
    <2>1. Disasm32(w, address) = ShowControl(Bits(w, 0, 8), rD, rA)
      BY <1>8 DEF Disasm32
    <2>2. Decode32(w) = ControlForm(Bits(w, 0, 8), rD, rA)
      BY <1>8 DEF Decode32
    <2> HIDE DEF OP, rD, rA, rB, cu, func3, Imm16, Imm14, Imm14s, Imm12, Imm15, Disp
    <2> QED
      BY <1>a, <1>b, <1>c, <2>1, <2>2, ControlFormAgrees
  <1>9. CASE OP = 7
    <2>1. Disasm32(w, address) = Says(AccessName(func3), <<R(rD), MemPlus(rA), Immd(Imm12)>>)
      BY <1>9 DEF Disasm32
    <2>2. Decode32(w) = Access(func3, rD, rA, Imm12, "post")
      BY <1>9 DEF Decode32
    <2> HIDE DEF OP, rD, rA, rB, cu, func3, Imm16, Imm14, Imm14s, Imm12, Imm15, Disp
    <2> QED
      BY <1>a, <1>b, <1>c, <2>1, <2>2, AccessForms
  <1>10. CASE OP = 8
    <2>1. Disasm32(w, address) = Opc("addri", cu, <<R(rD), R(rA), Immd(Imm14s)>>)
      BY <1>10 DEF Disasm32
    <2>2. Decode32(w) = Arith(Arithmetics["addri"], rD, R(rA), I(Imm14s), cu)
      BY <1>10, ArithmeticsTable DEF Decode32
    <2> HIDE DEF OP, rD, rA, rB, cu, func3, Imm16, Imm14, Imm14s, Imm12, Imm15, Disp
    <2>3. "addri" \in DOMAIN Arithmetics
      BY ArithmeticsTable
    <2> QED
      BY <1>a, <1>b, <1>c, <2>1, <2>2, <2>3, LongImmediateAgrees
  <1>11. CASE OP = 12
    <2>1. Disasm32(w, address) = Opc("andri", cu, <<R(rD), R(rA), Immd(Imm14)>>)
      BY <1>11 DEF Disasm32
    <2>2. Decode32(w) = Arith(Arithmetics["andri"], rD, R(rA), I(Imm14), cu)
      BY <1>11, ArithmeticsTable DEF Decode32
    <2> HIDE DEF OP, rD, rA, rB, cu, func3, Imm16, Imm14, Imm14s, Imm12, Imm15, Disp
    <2>3. "andri" \in DOMAIN Arithmetics
      BY ArithmeticsTable
    <2> QED
      BY <1>a, <1>b, <1>c, <2>1, <2>2, <2>3, LongImmediateAgrees
  <1>12. CASE OP = 13
    <2>1. Disasm32(w, address) = Opc("orri", cu, <<R(rD), R(rA), Immd(Imm14)>>)
      BY <1>12 DEF Disasm32
    <2>2. Decode32(w) = Arith(Arithmetics["orri"], rD, R(rA), I(Imm14), cu)
      BY <1>12, ArithmeticsTable DEF Decode32
    <2> HIDE DEF OP, rD, rA, rB, cu, func3, Imm16, Imm14, Imm14s, Imm12, Imm15, Disp
    <2>3. "orri" \in DOMAIN Arithmetics
      BY ArithmeticsTable
    <2> QED
      BY <1>a, <1>b, <1>c, <2>1, <2>2, <2>3, LongImmediateAgrees
  <1>13. CASE OP \in 16 .. 23
    <2>1. Disasm32(w, address) = Says(AccessName(OP - 16), <<R(rD), Memoff(rA, Imm15)>>)
      BY <1>13 DEF Disasm32
    <2>2. Decode32(w) = Access(OP - 16, rD, rA, Imm15, "offset")
      BY <1>13 DEF Decode32
    <2> HIDE DEF OP, rD, rA, rB, cu, func3, Imm16, Imm14, Imm14s, Imm12, Imm15, Disp
    <2>3. OP - 16 \in 0 .. 7
      BY <1>13
    <2> QED
      BY <1>a, <1>b, <1>c, <2>1, <2>2, <2>3, AccessForms
  <1>14. CASE OP = 24
    <2>1. Disasm32(w, address) = Says("cache", <<Immd(rD), Memoff(rA, Imm15)>>)
      BY <1>14 DEF Disasm32
    <2>2. Decode32(w) = Nothing
      BY <1>14 DEF Decode32
    <2> HIDE DEF OP, rD, rA, rB, cu, func3, Imm16, Imm14, Imm14s, Imm12, Imm15, Disp
    <2> QED
      BY <1>a, <1>b, <1>c, <2>1, <2>2, NothingAgrees DEF Says
  <1>15. CASE OP \notin 0 .. 8 \cup {12, 13} \cup 16 .. 24
    <2>1. Disasm32(w, address) = Unknown
      BY <1>15 DEF Disasm32
    <2>2. Decode32(w) = Dumped
      BY <1>15 DEF Decode32
    <2> HIDE DEF OP, rD, rA, rB, cu, func3, Imm16, Imm14, Imm14s, Imm12, Imm15, Disp
    <2> QED
      BY <1>a, <1>b, <1>c, <2>1, <2>2, UnknownAgrees
  <1> QED
    BY <1>a, <1>1, <1>2, <1>3, <1>4, <1>5, <1>6, <1>7, <1>8, <1>9, <1>10, <1>11, <1>12, <1>13, <1>14, <1>15

(* 16-bit instructions: their texts end in "!".                             *)
Banged(t) == IF t = Unknown THEN t ELSE Bang(t)

Quarter == 0 .. 15

LEMMA Quarters == \A k \in Quarter : k \in RegNum /\ k + 16 \in RegNum /\ k \in 0 .. 31 /\ k < 16
  BY DEF Quarter, RegNum

LEMMA BangedText ==
    ASSUME NEW s, s \notin {"any", "unknown"}, NEW args
    PROVE  /\ Banged(Says(s, args)) = Text(s, 15, {"!"}, args)
           /\ \A cond \in Quarter : Banged(Opb(s, cond, FALSE, args)) = Text(s, cond, {"!"}, args)
           /\ \A cond \in Quarter : Banged(Opb(s, cond, TRUE, args)) = Text(s, cond, {"l", "!"}, args)
  <1>1. ASSUME NEW cond, NEW suf
        PROVE  Banged(Text(s, cond, suf, args)) = Text(s, cond, suf \cup {"!"}, args)
    <2>1. Text(s, cond, suf, args) # Unknown
      BY DEF Text, Unknown
    <2> QED
      BY <2>1, BangText DEF Banged
  <1>2. {} \cup {"!"} = {"!"} /\ {"l"} \cup {"!"} = {"l", "!"}
    OBVIOUS
  <1>3. \A cond \in Quarter : /\ Opb(s, cond, FALSE, args) = Text(s, cond, {}, args)
                              /\ Opb(s, cond, TRUE, args) = Text(s, cond, {"l"}, args)
    BY Quarters DEF Opb
  <1>4. Banged(Says(s, args)) = Text(s, 15, {"!"}, args)
    BY <1>1, <1>2 DEF Says
  <1>5. ASSUME NEW cond \in Quarter
        PROVE  /\ Banged(Opb(s, cond, FALSE, args)) = Text(s, cond, {"!"}, args)
               /\ Banged(Opb(s, cond, TRUE, args)) = Text(s, cond, {"l", "!"}, args)
    BY <1>1, <1>2, <1>3
  <1> QED
    BY <1>4, <1>5

LEMMA BangedUnknown == Agrees(Banged(Unknown), Dumped)
  BY UnknownAgrees DEF Banged

LEMMA BangFlags ==
    /\ ({"!"} \cap {"c", "!"} # {}) = TRUE
    /\ ("l" \in {"!"}) = FALSE
    /\ ("l" \in {"l", "!"}) = TRUE
  OBVIOUS

LEMMA ShortMoveAgrees ==
    ASSUME NEW s \in {"mlfh", "mhfl", "mv"}, NEW d \in RegNum, NEW a \in RegNum
    PROVE  Agrees(Text(s, 15, {"!"}, <<R(d), R(a)>>), Moved(15, d, R(a)))
  <1>1. s \in Moving /\ 15 \in 0 .. 31
    BY DEF Moving
  <1>2. R(a) \in OperandOn(Int) /\ Operation(R(a)) = R(a)
    BY OperandType
  <1> QED
    BY <1>1, <1>2, MoveAgrees

(* Each function code of the 16-bit OP = 0.                               *)
LEMMA MoveFormAgrees ==
    ASSUME NEW func \in Quarter, NEW rD \in Quarter, NEW rA \in Quarter
    PROVE  Agrees(Banged(ShowMove(func, rD, rA)), MoveForm(func, rD, rA))
  <1>a. /\ rD \in RegNum /\ rA \in RegNum /\ rD + 16 \in RegNum /\ rA + 16 \in RegNum
        /\ rD \in 0 .. 31
    BY Quarters
  <1>1. CASE func = 0
    <2>1. ShowMove(func, rD, rA) = Says("nop", <<>>)
      BY <1>1 DEF ShowMove
    <2>2. MoveForm(func, rD, rA) = Nothing
      BY <1>1 DEF MoveForm
    <2>3. Banged(Says("nop", <<>>)) = Text("nop", 15, {"!"}, <<>>)
      BY BangedText
    <2> QED
      BY <2>1, <2>2, <2>3, NothingAgrees
  <1>2. CASE func = 1
    <2>1. ShowMove(func, rD, rA) = Says("mlfh", <<R(rD), R(rA + 16)>>)
      BY <1>2 DEF ShowMove
    <2>2. MoveForm(func, rD, rA) = Moved(15, rD, R(rA + 16))
      BY <1>2 DEF MoveForm
    <2>3. Banged(Says("mlfh", <<R(rD), R(rA + 16)>>)) = Text("mlfh", 15, {"!"}, <<R(rD), R(rA + 16)>>)
      BY BangedText
    <2> QED
      BY <2>1, <2>2, <2>3, <1>a, ShortMoveAgrees
  <1>3. CASE func = 2
    <2>1. ShowMove(func, rD, rA) = Says("mhfl", <<R(rD + 16), R(rA)>>)
      BY <1>3 DEF ShowMove
    <2>2. MoveForm(func, rD, rA) = Moved(15, rD + 16, R(rA))
      BY <1>3 DEF MoveForm
    <2>3. Banged(Says("mhfl", <<R(rD + 16), R(rA)>>)) = Text("mhfl", 15, {"!"}, <<R(rD + 16), R(rA)>>)
      BY BangedText
    <2> QED
      BY <2>1, <2>2, <2>3, <1>a, ShortMoveAgrees
  <1>4. CASE func = 3
    <2>1. ShowMove(func, rD, rA) = Says("mv", <<R(rD), R(rA)>>)
      BY <1>4 DEF ShowMove
    <2>2. MoveForm(func, rD, rA) = Moved(15, rD, R(rA))
      BY <1>4 DEF MoveForm
    <2>3. Banged(Says("mv", <<R(rD), R(rA)>>)) = Text("mv", 15, {"!"}, <<R(rD), R(rA)>>)
      BY BangedText
    <2> QED
      BY <2>1, <2>2, <2>3, <1>a, ShortMoveAgrees
  <1>5. CASE func = 4
    <2>1. ShowMove(func, rD, rA) = Opb("br", rD, FALSE, <<R(rA)>>)
      BY <1>5 DEF ShowMove
    <2>2. MoveForm(func, rD, rA) = Goes(rD, <<"reg", rA>>, FALSE)
      BY <1>5 DEF MoveForm
    <2>3. Banged(Opb("br", rD, FALSE, <<R(rA)>>)) = Text("br", rD, {"!"}, <<R(rA)>>)
      BY BangedText
    <2> QED
      BY <2>1, <2>2, <2>3, <1>a, BangFlags, BranchToRegisterAgrees
  <1>6. CASE func = 5
    <2>1. ShowMove(func, rD, rA) = Opb("t", rD, FALSE, <<>>)
      BY <1>6 DEF ShowMove
    <2>2. MoveForm(func, rD, rA) = [op |-> "t", cond |-> rD]
      BY <1>6 DEF MoveForm
    <2>3. Banged(Opb("t", rD, FALSE, <<>>)) = Text("t", rD, {"!"}, <<>>)
      BY BangedText
    <2> QED
      BY <2>1, <2>2, <2>3, <1>a, TestAgrees
  <1>7. CASE func = 12
    <2>1. ShowMove(func, rD, rA) = Opb("br", rD, TRUE, <<R(rA)>>)
      BY <1>7 DEF ShowMove
    <2>2. MoveForm(func, rD, rA) = Goes(rD, <<"reg", rA>>, TRUE)
      BY <1>7 DEF MoveForm
    <2>3. Banged(Opb("br", rD, TRUE, <<R(rA)>>)) = Text("br", rD, {"l", "!"}, <<R(rA)>>)
      BY BangedText
    <2> QED
      BY <2>1, <2>2, <2>3, <1>a, BangFlags, BranchToRegisterAgrees
  <1>8. CASE func \notin {0, 1, 2, 3, 4, 5, 12}
    <2>1. ShowMove(func, rD, rA) = Unknown
      BY <1>8 DEF ShowMove
    <2>2. MoveForm(func, rD, rA) = Dumped
      BY <1>8 DEF MoveForm
    <2> QED
      BY <2>1, <2>2, BangedUnknown
  <1> QED
    BY <1>1, <1>2, <1>3, <1>4, <1>5, <1>6, <1>7, <1>8

(* The 16-bit OP = 1.                                                       *)
LEMMA EngineFormAgrees ==
    ASSUME NEW func \in Quarter, NEW rD \in Quarter, NEW rA \in Quarter
    PROVE  Agrees(Banged(ShowEngine(func, rD, rA)), EngineForm(func, rD, rA))
  <1>a. rA \in RegNum /\ 0 \in RegNum
    BY Quarters DEF RegNum
  <1>1. CASE func = 0 /\ rD = 0
    <2>1. ShowEngine(func, rD, rA) = Says("mtcel", <<R(rA)>>)
      BY <1>1 DEF ShowEngine
    <2>2. EngineForm(func, rD, rA) = Engine("mtce", "lo", rA, 0)
      BY <1>1 DEF EngineForm
    <2>3. Banged(Says("mtcel", <<R(rA)>>)) = Text("mtcel", 15, {"!"}, <<R(rA)>>)
      BY BangedText
    <2> QED
      BY <1>a, <2>1, <2>2, <2>3, HalfAgrees
  <1>2. CASE func = 0 /\ rD = 1
    <2>1. ShowEngine(func, rD, rA) = Says("mtceh", <<R(rA)>>)
      BY <1>2 DEF ShowEngine
    <2>2. EngineForm(func, rD, rA) = Engine("mtce", "hi", rA, 0)
      BY <1>2 DEF EngineForm
    <2>3. Banged(Says("mtceh", <<R(rA)>>)) = Text("mtceh", 15, {"!"}, <<R(rA)>>)
      BY BangedText
    <2> QED
      BY <1>a, <2>1, <2>2, <2>3, HalfAgrees
  <1>3. CASE func = 0 /\ rD \notin {0, 1}
    <2>1. ShowEngine(func, rD, rA) = Unknown
      BY <1>3 DEF ShowEngine
    <2>2. EngineForm(func, rD, rA) = Engine("mtce", "none", rA, 0)
      BY <1>3 DEF EngineForm
    <2> QED
      BY <1>a, <2>1, <2>2, NoEngineAgrees DEF Banged
  <1>4. CASE func = 1 /\ rD = 0
    <2>1. ShowEngine(func, rD, rA) = Says("mfcel", <<R(rA)>>)
      BY <1>4 DEF ShowEngine
    <2>2. EngineForm(func, rD, rA) = Engine("mfce", "lo", rA, 0)
      BY <1>4 DEF EngineForm
    <2>3. Banged(Says("mfcel", <<R(rA)>>)) = Text("mfcel", 15, {"!"}, <<R(rA)>>)
      BY BangedText
    <2> QED
      BY <1>a, <2>1, <2>2, <2>3, HalfAgrees
  <1>5. CASE func = 1 /\ rD = 1
    <2>1. ShowEngine(func, rD, rA) = Says("mfceh", <<R(rA)>>)
      BY <1>5 DEF ShowEngine
    <2>2. EngineForm(func, rD, rA) = Engine("mfce", "hi", rA, 0)
      BY <1>5 DEF EngineForm
    <2>3. Banged(Says("mfceh", <<R(rA)>>)) = Text("mfceh", 15, {"!"}, <<R(rA)>>)
      BY BangedText
    <2> QED
      BY <1>a, <2>1, <2>2, <2>3, HalfAgrees
  <1>6. CASE func = 1 /\ rD \notin {0, 1}
    <2>1. ShowEngine(func, rD, rA) = Unknown
      BY <1>6 DEF ShowEngine
    <2>2. EngineForm(func, rD, rA) = Engine("mfce", "none", rA, 0)
      BY <1>6 DEF EngineForm
    <2> QED
      BY <1>a, <2>1, <2>2, NoEngineAgrees DEF Banged
  <1>7. CASE func \notin {0, 1}
    <2>1. ShowEngine(func, rD, rA) = Unknown
      BY <1>7 DEF ShowEngine
    <2>2. EngineForm(func, rD, rA) = Dumped
      BY <1>7 DEF EngineForm
    <2> QED
      BY <2>1, <2>2, BangedUnknown
  <1> QED
    BY <1>1, <1>2, <1>3, <1>4, <1>5, <1>6, <1>7

LEMMA ShortArithAgrees ==
    ASSUME NEW s \in Register2, NEW d \in RegNum, NEW b \in RegNum
    PROVE  Agrees(Text(s, 15, {"!"}, <<R(d), R(b)>>), Arith(s, d, R(d), R(b), TRUE))
  BY BangFlags, RegistersAgree

LEMMA ShortConvertedAgrees ==
    ASSUME NEW s \in Sources1, NEW d \in RegNum, NEW x \in RegNum
    PROVE  Agrees(Text(s, 15, {"!"}, <<R(d), R(x)>>), Converted(s, d, R(x), TRUE))
  BY BangFlags, ConvertedAgrees DEF Sources1

LEMMA ShortAccessAgrees ==
    ASSUME NEW k \in 0 .. 7, NEW d \in RegNum, NEW b \in RegNum
    PROVE  Agrees(Text(AccessName(k), 15, {"!"}, <<R(d), Mem(b)>>), Access(k, d, b, 0, "offset"))
  <1> DEFINE s == AccessName(k)
             args == <<R(d), Mem(b)>>
  <1>1. s \notin Basic /\ "offset" \in Modes
    BY DEF AccessName, Basic, Modes
  <1>2. args[1] = R(d)
    OBVIOUS
  <1>3. Memory(Text(s, 15, {"!"}, args)) = <<b, 0, "offset">>
    <2> HIDE DEF s
    <2> QED
      BY <1>1, PlainShown
  <1> HIDE DEF args
  <1>4. Agrees(Text(AccessName(k), 15, {"!"}, args), Access(k, d, b, 0, "offset"))
    BY <1>1, <1>2, <1>3, AccessAgrees
  <1> QED
    BY <1>4 DEF args

(* Each function code of the 16-bit OP = 2.                               *)
LEMMA RegisterFormAgrees ==
    ASSUME NEW func \in Quarter, NEW rD \in Quarter, NEW rA \in Quarter
    PROVE  Agrees(Banged(ShowRegister(func, rD, rA)), RegisterForm(func, rD, rA))
  <1>a. rD \in RegNum /\ rA \in RegNum
    BY Quarters
  <1>1. CASE func = 0
    <2>1. ShowRegister(func, rD, rA) = Says("add", <<R(rD), R(rA)>>)
      BY <1>1 DEF ShowRegister
    <2>2. RegisterForm(func, rD, rA) = Arith("add", rD, R(rD), R(rA), TRUE)
      BY <1>1 DEF RegisterForm
    <2>3. Banged(Says("add", <<R(rD), R(rA)>>)) = Text("add", 15, {"!"}, <<R(rD), R(rA)>>)
      BY BangedText
    <2> QED
      BY <2>1, <2>2, <2>3, <1>a, ShortArithAgrees DEF Register2
  <1>2. CASE func = 1
    <2>1. ShowRegister(func, rD, rA) = Says("sub", <<R(rD), R(rA)>>)
      BY <1>2 DEF ShowRegister
    <2>2. RegisterForm(func, rD, rA) = Arith("sub", rD, R(rD), R(rA), TRUE)
      BY <1>2 DEF RegisterForm
    <2>3. Banged(Says("sub", <<R(rD), R(rA)>>)) = Text("sub", 15, {"!"}, <<R(rD), R(rA)>>)
      BY BangedText
    <2> QED
      BY <2>1, <2>2, <2>3, <1>a, ShortArithAgrees DEF Register2
  <1>3. CASE func = 2
    <2>1. ShowRegister(func, rD, rA) = Says("neg", <<R(rD), R(rA)>>)
      BY <1>3 DEF ShowRegister
    <2>2. RegisterForm(func, rD, rA) = Converted("neg", rD, R(rA), TRUE)
      <3>1. RegisterForm(func, rD, rA) = Arith("sub", rD, I(0), R(rA), TRUE)
        BY <1>3 DEF RegisterForm
      <3>2. Converted("neg", rD, R(rA), TRUE) = Arith("sub", rD, I(0), R(rA), TRUE)
        BY DEF Converted
      <3> QED
        BY <3>1, <3>2, Zenon
    <2>3. Banged(Says("neg", <<R(rD), R(rA)>>)) = Text("neg", 15, {"!"}, <<R(rD), R(rA)>>)
      BY BangedText
    <2> QED
      BY <2>1, <2>2, <2>3, <1>a, ShortConvertedAgrees DEF Sources1
  <1>4. CASE func = 3
    <2>1. ShowRegister(func, rD, rA) = Says("cmp", <<R(rD), R(rA)>>)
      BY <1>4 DEF ShowRegister
    <2>2. RegisterForm(func, rD, rA) = Arith("sub", Discard, R(rD), R(rA), TRUE)
      BY <1>4 DEF RegisterForm
    <2>3. Banged(Says("cmp", <<R(rD), R(rA)>>)) = Text("cmp", 15, {"!"}, <<R(rD), R(rA)>>)
      BY BangedText
    <2> QED
      BY <2>1, <2>2, <2>3, <1>a, ShortCompareAgrees
  <1>5. CASE func = 4
    <2>1. ShowRegister(func, rD, rA) = Says("and", <<R(rD), R(rA)>>)
      BY <1>5 DEF ShowRegister
    <2>2. RegisterForm(func, rD, rA) = Arith("and", rD, R(rD), R(rA), TRUE)
      BY <1>5 DEF RegisterForm
    <2>3. Banged(Says("and", <<R(rD), R(rA)>>)) = Text("and", 15, {"!"}, <<R(rD), R(rA)>>)
      BY BangedText
    <2> QED
      BY <2>1, <2>2, <2>3, <1>a, ShortArithAgrees DEF Register2
  <1>6. CASE func = 5
    <2>1. ShowRegister(func, rD, rA) = Says("or", <<R(rD), R(rA)>>)
      BY <1>6 DEF ShowRegister
    <2>2. RegisterForm(func, rD, rA) = Arith("or", rD, R(rD), R(rA), TRUE)
      BY <1>6 DEF RegisterForm
    <2>3. Banged(Says("or", <<R(rD), R(rA)>>)) = Text("or", 15, {"!"}, <<R(rD), R(rA)>>)
      BY BangedText
    <2> QED
      BY <2>1, <2>2, <2>3, <1>a, ShortArithAgrees DEF Register2
  <1>7. CASE func = 6
    <2>1. ShowRegister(func, rD, rA) = Says("not", <<R(rD), R(rA)>>)
      BY <1>7 DEF ShowRegister
    <2>2. RegisterForm(func, rD, rA) = Converted("not", rD, R(rA), TRUE)
      <3>1. RegisterForm(func, rD, rA) = Arith("xor", rD, R(rA), I(-1), TRUE)
        BY <1>7 DEF RegisterForm
      <3>2. Converted("not", rD, R(rA), TRUE) = Arith("xor", rD, R(rA), I(-1), TRUE)
        BY DEF Converted
      <3> QED
        BY <3>1, <3>2, Zenon
    <2>3. Banged(Says("not", <<R(rD), R(rA)>>)) = Text("not", 15, {"!"}, <<R(rD), R(rA)>>)
      BY BangedText
    <2> QED
      BY <2>1, <2>2, <2>3, <1>a, ShortConvertedAgrees DEF Sources1
  <1>8. CASE func = 7
    <2>1. ShowRegister(func, rD, rA) = Says("xor", <<R(rD), R(rA)>>)
      BY <1>8 DEF ShowRegister
    <2>2. RegisterForm(func, rD, rA) = Arith("xor", rD, R(rD), R(rA), TRUE)
      BY <1>8 DEF RegisterForm
    <2>3. Banged(Says("xor", <<R(rD), R(rA)>>)) = Text("xor", 15, {"!"}, <<R(rD), R(rA)>>)
      BY BangedText
    <2> QED
      BY <2>1, <2>2, <2>3, <1>a, ShortArithAgrees DEF Register2
  <1>9. CASE func = 8
    <2>1. ShowRegister(func, rD, rA) = Says("lw", <<R(rD), Mem(rA)>>)
      BY <1>9 DEF ShowRegister
    <2>2. RegisterForm(func, rD, rA) = Access(0, rD, rA, 0, "offset")
      <3>1. RegisterForm(func, rD, rA) = Loads(4, FALSE, rD, rA, 0, "offset")
        BY <1>9 DEF RegisterForm
      <3>2. Access(0, rD, rA, 0, "offset") = Loads(4, FALSE, rD, rA, 0, "offset")
        BY AccessTable, Zenon
      <3> QED
        BY <3>1, <3>2, Zenon
    <2>3. Banged(Says("lw", <<R(rD), Mem(rA)>>)) = Text("lw", 15, {"!"}, <<R(rD), Mem(rA)>>)
      BY BangedText
    <2>4. AccessName(0) = "lw" /\ 0 \in 0 .. 7
      BY AccessTable
    <2> QED
      BY <2>1, <2>2, <2>3, <1>a, <2>4, ShortAccessAgrees
  <1>10. CASE func = 9
    <2>1. ShowRegister(func, rD, rA) = Says("lh", <<R(rD), Mem(rA)>>)
      BY <1>10 DEF ShowRegister
    <2>2. RegisterForm(func, rD, rA) = Access(1, rD, rA, 0, "offset")
      <3>1. RegisterForm(func, rD, rA) = Loads(2, TRUE, rD, rA, 0, "offset")
        BY <1>10 DEF RegisterForm
      <3>2. Access(1, rD, rA, 0, "offset") = Loads(2, TRUE, rD, rA, 0, "offset")
        BY AccessTable, Zenon
      <3> QED
        BY <3>1, <3>2, Zenon
    <2>3. Banged(Says("lh", <<R(rD), Mem(rA)>>)) = Text("lh", 15, {"!"}, <<R(rD), Mem(rA)>>)
      BY BangedText
    <2>4. AccessName(1) = "lh" /\ 1 \in 0 .. 7
      BY AccessTable
    <2> QED
      BY <2>1, <2>2, <2>3, <1>a, <2>4, ShortAccessAgrees
  <1>11. CASE func = 10
    <2>1. ShowRegister(func, rD, rA) = Says("pop", <<R(rD + (rA \div 8) * 16), Mem(rA % 8)>>)
      BY <1>11 DEF ShowRegister
    <2>2. RegisterForm(func, rD, rA) = [op |-> "pop", d |-> rD + 16 * (rA \div 8), base |-> rA % 8]
      BY <1>11 DEF RegisterForm
    <2>3. Banged(Says("pop", <<R(rD + (rA \div 8) * 16), Mem(rA % 8)>>)) = Text("pop", 15, {"!"}, <<R(rD + (rA \div 8) * 16), Mem(rA % 8)>>)
      BY BangedText
    <2>4. /\ rD + (rA \div 8) * 16 = rD + 16 * (rA \div 8)
          /\ rD + (rA \div 8) * 16 \in RegNum /\ rA % 8 \in RegNum
      BY DEF Quarter, RegNum
    <2> QED
      BY <2>1, <2>2, <2>3, <1>a, <2>4, StackAgrees
  <1>12. CASE func = 11
    <2>1. ShowRegister(func, rD, rA) = Says("lbu", <<R(rD), Mem(rA)>>)
      BY <1>12 DEF ShowRegister
    <2>2. RegisterForm(func, rD, rA) = Access(6, rD, rA, 0, "offset")
      <3>1. RegisterForm(func, rD, rA) = Loads(1, FALSE, rD, rA, 0, "offset")
        BY <1>12 DEF RegisterForm
      <3>2. Access(6, rD, rA, 0, "offset") = Loads(1, FALSE, rD, rA, 0, "offset")
        BY AccessTable, Zenon
      <3> QED
        BY <3>1, <3>2, Zenon
    <2>3. Banged(Says("lbu", <<R(rD), Mem(rA)>>)) = Text("lbu", 15, {"!"}, <<R(rD), Mem(rA)>>)
      BY BangedText
    <2>4. AccessName(6) = "lbu" /\ 6 \in 0 .. 7
      BY AccessTable
    <2> QED
      BY <2>1, <2>2, <2>3, <1>a, <2>4, ShortAccessAgrees
  <1>13. CASE func = 12
    <2>1. ShowRegister(func, rD, rA) = Says("sw", <<R(rD), Mem(rA)>>)
      BY <1>13 DEF ShowRegister
    <2>2. RegisterForm(func, rD, rA) = Access(4, rD, rA, 0, "offset")
      <3>1. RegisterForm(func, rD, rA) = Stores(4, rD, rA, 0, "offset")
        BY <1>13 DEF RegisterForm
      <3>2. Access(4, rD, rA, 0, "offset") = Stores(4, rD, rA, 0, "offset")
        BY AccessTable, Zenon
      <3> QED
        BY <3>1, <3>2, Zenon
    <2>3. Banged(Says("sw", <<R(rD), Mem(rA)>>)) = Text("sw", 15, {"!"}, <<R(rD), Mem(rA)>>)
      BY BangedText
    <2>4. AccessName(4) = "sw" /\ 4 \in 0 .. 7
      BY AccessTable
    <2> QED
      BY <2>1, <2>2, <2>3, <1>a, <2>4, ShortAccessAgrees
  <1>14. CASE func = 13
    <2>1. ShowRegister(func, rD, rA) = Says("sh", <<R(rD), Mem(rA)>>)
      BY <1>14 DEF ShowRegister
    <2>2. RegisterForm(func, rD, rA) = Access(5, rD, rA, 0, "offset")
      <3>1. RegisterForm(func, rD, rA) = Stores(2, rD, rA, 0, "offset")
        BY <1>14 DEF RegisterForm
      <3>2. Access(5, rD, rA, 0, "offset") = Stores(2, rD, rA, 0, "offset")
        BY AccessTable, Zenon
      <3> QED
        BY <3>1, <3>2, Zenon
    <2>3. Banged(Says("sh", <<R(rD), Mem(rA)>>)) = Text("sh", 15, {"!"}, <<R(rD), Mem(rA)>>)
      BY BangedText
    <2>4. AccessName(5) = "sh" /\ 5 \in 0 .. 7
      BY AccessTable
    <2> QED
      BY <2>1, <2>2, <2>3, <1>a, <2>4, ShortAccessAgrees
  <1>15. CASE func = 14
    <2>1. ShowRegister(func, rD, rA) = Says("push", <<R(rD + (rA \div 8) * 16), Mem(rA % 8)>>)
      BY <1>15 DEF ShowRegister
    <2>2. RegisterForm(func, rD, rA) = [op |-> "push", d |-> rD + 16 * (rA \div 8), base |-> rA % 8]
      BY <1>15 DEF RegisterForm
    <2>3. Banged(Says("push", <<R(rD + (rA \div 8) * 16), Mem(rA % 8)>>)) = Text("push", 15, {"!"}, <<R(rD + (rA \div 8) * 16), Mem(rA % 8)>>)
      BY BangedText
    <2>4. /\ rD + (rA \div 8) * 16 = rD + 16 * (rA \div 8)
          /\ rD + (rA \div 8) * 16 \in RegNum /\ rA % 8 \in RegNum
      BY DEF Quarter, RegNum
    <2> QED
      BY <2>1, <2>2, <2>3, <1>a, <2>4, StackAgrees
  <1>16. CASE func = 15
    <2>1. ShowRegister(func, rD, rA) = Says("sb", <<R(rD), Mem(rA)>>)
      BY <1>16 DEF ShowRegister
    <2>2. RegisterForm(func, rD, rA) = Access(7, rD, rA, 0, "offset")
      <3>1. RegisterForm(func, rD, rA) = Stores(1, rD, rA, 0, "offset")
        BY <1>16 DEF RegisterForm
      <3>2. Access(7, rD, rA, 0, "offset") = Stores(1, rD, rA, 0, "offset")
        BY AccessTable, Zenon
      <3> QED
        BY <3>1, <3>2, Zenon
    <2>3. Banged(Says("sb", <<R(rD), Mem(rA)>>)) = Text("sb", 15, {"!"}, <<R(rD), Mem(rA)>>)
      BY BangedText
    <2>4. AccessName(7) = "sb" /\ 7 \in 0 .. 7
      BY AccessTable
    <2> QED
      BY <2>1, <2>2, <2>3, <1>a, <2>4, ShortAccessAgrees
  <1>z. func \in 0 .. 15
    BY DEF Quarter
  <1> QED
    BY <1>z, <1>1, <1>2, <1>3, <1>4, <1>5, <1>6, <1>7, <1>8, <1>9, <1>10, <1>11, <1>12, <1>13, <1>14, <1>15, <1>16

LEMMA ShortBitAgrees ==
    ASSUME NEW d \in RegNum, NEW k \in 0 .. 31
    PROVE  /\ Agrees(Text("bitclr", 15, {"!"}, <<R(d), Immd(k)>>), Arith("and", d, R(d), I(-1 - BitMask(k)), TRUE))
           /\ Agrees(Text("bitset", 15, {"!"}, <<R(d), Immd(k)>>), Arith("or", d, R(d), I(BitMask(k)), TRUE))
           /\ Agrees(Text("bittst", 15, {"!"}, <<R(d), Immd(k)>>), Arith("and", Discard, R(d), I(BitMask(k)), TRUE))
  <1> DEFINE two == <<R(d), Immd(k)>>
             suf == {"!"}
  <1>1. /\ two[1] = R(d) /\ two[2] = Immd(k)
        /\ two[Len(two) - 1] = R(d) /\ two[Len(two)] = Immd(k)
    OBVIOUS
  <1>2. (suf \cap {"c", "!"} # {}) = TRUE
    BY BangFlags
  <1> HIDE DEF two, suf
  <1>3. Agrees(Text("bitclr", 15, suf, two), Arith("and", d, R(d), I(-1 - BitMask(k)), TRUE))
    BY <1>1, <1>2, BitAgrees
  <1>4. Agrees(Text("bitset", 15, suf, two), Arith("or", d, R(d), I(BitMask(k)), TRUE))
    BY <1>1, <1>2, BitAgrees
  <1>5. Agrees(Text("bittst", 15, suf, two), Arith("and", Discard, R(d), I(BitMask(k)), TRUE))
    BY <1>1, <1>2, BitAgrees
  <1> QED
    BY <1>3, <1>4, <1>5, Zenon DEF two, suf

LEMMA ShortShiftAgrees ==
    ASSUME NEW d \in RegNum, NEW k \in Int
    PROVE  Agrees(Text("srli", 15, {"!"}, <<R(d), Immd(k)>>), Arith("srl", d, R(d), I(k), TRUE))
  <1>1. "srli" \in DOMAIN Arithmetics /\ Arithmetics["srli"] = "srl"
    BY ArithmeticsTable
  <1>2. Agrees(Text("srli", 15, {"!"}, <<R(d), Immd(k)>>), Arith(Arithmetics["srli"], d, R(d), I(k), TRUE))
    BY <1>1, BangFlags, ImmediateAgrees
  <1> QED
    BY <1>1, <1>2

(* Loads and stores from the base pointer.                                  *)
LEMMA BaseAgrees ==
    ASSUME NEW d \in RegNum, NEW v \in Int
    PROVE  /\ Agrees(Text("lwp", 15, {"!"}, <<R(d), Immd(v)>>), Loads(4, FALSE, d, 2, v, "offset"))
           /\ Agrees(Text("lhp", 15, {"!"}, <<R(d), Immd(v)>>), Loads(2, FALSE, d, 2, v, "offset"))
           /\ Agrees(Text("lbup", 15, {"!"}, <<R(d), Immd(v)>>), Loads(1, FALSE, d, 2, v, "offset"))
           /\ Agrees(Text("swp", 15, {"!"}, <<R(d), Immd(v)>>), Stores(4, d, 2, v, "offset"))
           /\ Agrees(Text("shp", 15, {"!"}, <<R(d), Immd(v)>>), Stores(2, d, 2, v, "offset"))
           /\ Agrees(Text("sbp", 15, {"!"}, <<R(d), Immd(v)>>), Stores(1, d, 2, v, "offset"))
  <1> DEFINE args == <<R(d), Immd(v)>>
  <1>1. args[1] = R(d) /\ 2 \in RegNum /\ "offset" \in Modes
    BY DEF RegNum, Modes
  <1>2. ASSUME NEW s \in Basic
        PROVE  Memory(Text(s, 15, {"!"}, args)) = <<2, v, "offset">>
    BY BasicShown
  <1>3. {"lwp", "lbup", "swp", "shp", "sbp"} \subseteq Basic
    BY DEF Basic
  <1>4. /\ "swp" \in DOMAIN Storing /\ "shp" \in DOMAIN Storing /\ "sbp" \in DOMAIN Storing
        /\ Storing["swp"] = 4 /\ Storing["shp"] = 2 /\ Storing["sbp"] = 1
    BY DEF Storing
  <1> HIDE DEF args
  <1>5. ASSUME NEW s \in DOMAIN Loading, s \in Basic
        PROVE  Agrees(Text(s, 15, {"!"}, args), Loads(Loading[s][1], Loading[s][2], d, 2, v, "offset"))
    BY <1>1, <1>2, <1>5, LoadAgrees
  <1>6. Agrees(Text("lwp", 15, {"!"}, args), Loads(4, FALSE, d, 2, v, "offset"))
    <2>1. Loading["lwp"][1] = 4 /\ Loading["lwp"][2] = FALSE /\ "lwp" \in DOMAIN Loading
      BY LoadingTable
    <2>2. Agrees(Text("lwp", 15, {"!"}, args), Loads(Loading["lwp"][1], Loading["lwp"][2], d, 2, v, "offset"))
      BY <1>3, <1>5, <2>1
    <2> QED
      BY <2>1, <2>2, Zenon
  <1>7. Agrees(Text("lbup", 15, {"!"}, args), Loads(1, FALSE, d, 2, v, "offset"))
    <2>1. Loading["lbup"][1] = 1 /\ Loading["lbup"][2] = FALSE /\ "lbup" \in DOMAIN Loading
      BY LoadingTable
    <2>2. Agrees(Text("lbup", 15, {"!"}, args), Loads(Loading["lbup"][1], Loading["lbup"][2], d, 2, v, "offset"))
      BY <1>3, <1>5, <2>1
    <2> QED
      BY <2>1, <2>2, Zenon
  <1>8. Agrees(Text("lhp", 15, {"!"}, args), Loads(2, FALSE, d, 2, v, "offset"))
    BY HalfwordAgrees
  <1>9. ASSUME NEW s \in DOMAIN Storing, s \in Basic
        PROVE  Agrees(Text(s, 15, {"!"}, args), Stores(Storing[s], d, 2, v, "offset"))
    BY <1>1, <1>2, <1>9, StoreAgrees
  <1>10. /\ Agrees(Text("swp", 15, {"!"}, args), Stores(4, d, 2, v, "offset"))
         /\ Agrees(Text("shp", 15, {"!"}, args), Stores(2, d, 2, v, "offset"))
         /\ Agrees(Text("sbp", 15, {"!"}, args), Stores(1, d, 2, v, "offset"))
    BY <1>3, <1>4, <1>9
  <1> QED
    BY <1>6, <1>7, <1>8, <1>10, Zenon DEF args

(* The 16-bit OP = 6.                                                     *)
LEMMA BitFormAgrees ==
    ASSUME NEW func \in 0 .. 7, NEW rD \in Quarter, NEW k \in 0 .. 31
    PROVE  Agrees(Banged(ShowBit(func, rD, k)), BitForm(func, rD, k))
  <1>a. rD \in RegNum /\ k \in Int
    BY Quarters
  <1>1. CASE func = 3
    <2>1. ShowBit(func, rD, k) = Says("srli", <<R(rD), Immd(k)>>)
      BY <1>1 DEF ShowBit
    <2>2. BitForm(func, rD, k) = Arith("srl", rD, R(rD), I(k), TRUE)
      BY <1>1 DEF BitForm
    <2>3. Banged(Says("srli", <<R(rD), Immd(k)>>)) = Text("srli", 15, {"!"}, <<R(rD), Immd(k)>>)
      BY BangedText
    <2> QED
      BY <2>1, <2>2, <2>3, <1>a, ShortShiftAgrees
  <1>2. CASE func = 4
    <2>1. ShowBit(func, rD, k) = Says("bitclr", <<R(rD), Immd(k)>>)
      BY <1>2 DEF ShowBit
    <2>2. BitForm(func, rD, k) = Arith("and", rD, R(rD), I(-1 - BitMask(k)), TRUE)
      BY <1>2 DEF BitForm
    <2>3. Banged(Says("bitclr", <<R(rD), Immd(k)>>)) = Text("bitclr", 15, {"!"}, <<R(rD), Immd(k)>>)
      BY BangedText
    <2> QED
      BY <2>1, <2>2, <2>3, <1>a, ShortBitAgrees
  <1>3. CASE func = 5
    <2>1. ShowBit(func, rD, k) = Says("bitset", <<R(rD), Immd(k)>>)
      BY <1>3 DEF ShowBit
    <2>2. BitForm(func, rD, k) = Arith("or", rD, R(rD), I(BitMask(k)), TRUE)
      BY <1>3 DEF BitForm
    <2>3. Banged(Says("bitset", <<R(rD), Immd(k)>>)) = Text("bitset", 15, {"!"}, <<R(rD), Immd(k)>>)
      BY BangedText
    <2> QED
      BY <2>1, <2>2, <2>3, <1>a, ShortBitAgrees
  <1>4. CASE func = 6
    <2>1. ShowBit(func, rD, k) = Says("bittst", <<R(rD), Immd(k)>>)
      BY <1>4 DEF ShowBit
    <2>2. BitForm(func, rD, k) = Arith("and", Discard, R(rD), I(BitMask(k)), TRUE)
      BY <1>4 DEF BitForm
    <2>3. Banged(Says("bittst", <<R(rD), Immd(k)>>)) = Text("bittst", 15, {"!"}, <<R(rD), Immd(k)>>)
      BY BangedText
    <2> QED
      BY <2>1, <2>2, <2>3, <1>a, ShortBitAgrees
  <1>5. CASE func \notin {3, 4, 5, 6}
    <2>1. ShowBit(func, rD, k) = Unknown
      BY <1>5 DEF ShowBit
    <2>2. BitForm(func, rD, k) = Dumped
      BY <1>5 DEF BitForm
    <2> QED
      BY <2>1, <2>2, BangedUnknown
  <1> QED
    BY <1>1, <1>2, <1>3, <1>4, <1>5

(* The 16-bit OP = 7.                                                     *)
LEMMA BaseFormAgrees ==
    ASSUME NEW func \in 0 .. 7, NEW rD \in Quarter, NEW k \in 0 .. 31
    PROVE  Agrees(Banged(ShowBase(func, rD, k)), BaseForm(func, rD, k))
  <1>a. rD \in RegNum /\ k \in Int /\ 2 * k \in Int /\ 4 * k \in Int
    BY Quarters
  <1>1. CASE func = 0
    <2>1. ShowBase(func, rD, k) = Says("lwp", <<R(rD), Immd(4 * k)>>)
      BY <1>1 DEF ShowBase
    <2>2. BaseForm(func, rD, k) = Loads(4, FALSE, rD, 2, 4 * k, "offset")
      BY <1>1 DEF BaseForm
    <2>3. Banged(Says("lwp", <<R(rD), Immd(4 * k)>>)) = Text("lwp", 15, {"!"}, <<R(rD), Immd(4 * k)>>)
      BY BangedText
    <2> QED
      BY <2>1, <2>2, <2>3, <1>a, BaseAgrees
  <1>2. CASE func = 1
    <2>1. ShowBase(func, rD, k) = Says("lhp", <<R(rD), Immd(2 * k)>>)
      BY <1>2 DEF ShowBase
    <2>2. BaseForm(func, rD, k) = Loads(2, FALSE, rD, 2, 2 * k, "offset")
      BY <1>2 DEF BaseForm
    <2>3. Banged(Says("lhp", <<R(rD), Immd(2 * k)>>)) = Text("lhp", 15, {"!"}, <<R(rD), Immd(2 * k)>>)
      BY BangedText
    <2> QED
      BY <2>1, <2>2, <2>3, <1>a, BaseAgrees
  <1>3. CASE func = 3
    <2>1. ShowBase(func, rD, k) = Says("lbup", <<R(rD), Immd(k)>>)
      BY <1>3 DEF ShowBase
    <2>2. BaseForm(func, rD, k) = Loads(1, FALSE, rD, 2, k, "offset")
      BY <1>3 DEF BaseForm
    <2>3. Banged(Says("lbup", <<R(rD), Immd(k)>>)) = Text("lbup", 15, {"!"}, <<R(rD), Immd(k)>>)
      BY BangedText
    <2> QED
      BY <2>1, <2>2, <2>3, <1>a, BaseAgrees
  <1>4. CASE func = 4
    <2>1. ShowBase(func, rD, k) = Says("swp", <<R(rD), Immd(4 * k)>>)
      BY <1>4 DEF ShowBase
    <2>2. BaseForm(func, rD, k) = Stores(4, rD, 2, 4 * k, "offset")
      BY <1>4 DEF BaseForm
    <2>3. Banged(Says("swp", <<R(rD), Immd(4 * k)>>)) = Text("swp", 15, {"!"}, <<R(rD), Immd(4 * k)>>)
      BY BangedText
    <2> QED
      BY <2>1, <2>2, <2>3, <1>a, BaseAgrees
  <1>5. CASE func = 5
    <2>1. ShowBase(func, rD, k) = Says("shp", <<R(rD), Immd(2 * k)>>)
      BY <1>5 DEF ShowBase
    <2>2. BaseForm(func, rD, k) = Stores(2, rD, 2, 2 * k, "offset")
      BY <1>5 DEF BaseForm
    <2>3. Banged(Says("shp", <<R(rD), Immd(2 * k)>>)) = Text("shp", 15, {"!"}, <<R(rD), Immd(2 * k)>>)
      BY BangedText
    <2> QED
      BY <2>1, <2>2, <2>3, <1>a, BaseAgrees
  <1>6. CASE func = 7
    <2>1. ShowBase(func, rD, k) = Says("sbp", <<R(rD), Immd(k)>>)
      BY <1>6 DEF ShowBase
    <2>2. BaseForm(func, rD, k) = Stores(1, rD, 2, k, "offset")
      BY <1>6 DEF BaseForm
    <2>3. Banged(Says("sbp", <<R(rD), Immd(k)>>)) = Text("sbp", 15, {"!"}, <<R(rD), Immd(k)>>)
      BY BangedText
    <2> QED
      BY <2>1, <2>2, <2>3, <1>a, BaseAgrees
  <1>7. CASE func \notin {0, 1, 3, 4, 5, 7}
    <2>1. ShowBase(func, rD, k) = Unknown
      BY <1>7 DEF ShowBase
    <2>2. BaseForm(func, rD, k) = Dumped
      BY <1>7 DEF BaseForm
    <2> QED
      BY <2>1, <2>2, BangedUnknown
  <1> QED
    BY <1>1, <1>2, <1>3, <1>4, <1>5, <1>6, <1>7

(* The ranges of the fields of a 16-bit instruction.                        *)
LEMMA ShortFields ==
    ASSUME NEW w \in Nat
    PROVE  /\ Bits(w, 12, 3) \in 0 .. 7
           /\ Bits(w, 8, 4) \in Quarter
           /\ Bits(w, 4, 4) \in Quarter
           /\ Bits(w, 0, 4) \in Quarter
           /\ Bits(w, 0, 3) \in 0 .. 7
           /\ Bits(w, 3, 5) \in 0 .. 31
           /\ Bits(w, 0, 8) \in 0 .. 2^8 - 1
           /\ Bits(w, 1, 11) \in 0 .. 2^11 - 1
  <1>1. Bits(w, 12, 3) \in 0 .. 7
    BY DEF Bits
  <1>2. Bits(w, 8, 4) \in Quarter
    BY DEF Bits, Quarter
  <1>3. Bits(w, 4, 4) \in Quarter
    BY DEF Bits, Quarter
  <1>4. Bits(w, 0, 4) \in Quarter
    BY DEF Bits, Quarter
  <1>5. Bits(w, 0, 3) \in 0 .. 7
    BY DEF Bits
  <1>6. Bits(w, 3, 5) \in 0 .. 31
    BY DEF Bits
  <1>7. Bits(w, 0, 8) \in 0 .. 2^8 - 1
    BY DEF Bits
  <1>8. Bits(w, 1, 11) \in 0 .. 2^11 - 1
    BY DEF Bits
  <1> QED
    BY <1>1, <1>2, <1>3, <1>4, <1>5, <1>6, <1>7, <1>8

(* j!: within 4 KiB, to the same address.                                   *)
LEMMA NearAgrees ==
    ASSUME NEW link \in BOOLEAN, NEW disp \in Nat, address \in Halves \X Halves,
           NEW x, x = address[1], NEW y, y = address[2] - (address[2] % 2^12) + disp
    PROVE  Agrees(Banged(Opl("j", link, <<Immx32(<<x, y>>)>>)), Goes(15, <<"near", disp>>, link))
  <1> DEFINE suf == IF link THEN {"l", "!"} ELSE {"!"}
             args == <<Immx32(<<x, y>>)>>
  <1>1. x \in Int /\ y \in Int
    BY HalfType
  <1>2. Banged(Opl("j", link, args)) = Text("j", 15, suf, args)
    <2>1. 15 \in Quarter
      BY DEF Quarter
    <2>2. CASE link
      <3>1. Banged(Opb("j", 15, TRUE, args)) = Text("j", 15, {"l", "!"}, args)
        <4> HIDE DEF args
        <4> QED
          BY <2>1, BangedText
      <3> QED
        BY <2>2, <3>1 DEF Opl
    <2>3. CASE ~link
      <3>1. Banged(Opb("j", 15, FALSE, args)) = Text("j", 15, {"!"}, args)
        <4> HIDE DEF args
        <4> QED
          BY <2>1, BangedText
      <3> QED
        BY <2>3, <3>1 DEF Opl
    <2> QED
      BY <2>2, <2>3
  <1>3. ("l" \in suf) = link
    BY BangFlags
  <1>4. TakenTarget(<<"near", disp>>, address) = <<"at">> \o <<x, y>>
    BY DEF TakenTarget
  <1>5. <<"near", disp>> \in TargetOn(Int) /\ 15 \in 0 .. 31
    BY DEF TargetOn
  <1> HIDE DEF suf
  <1> QED
    BY <1>1, <1>2, <1>3, <1>4, <1>5, BranchToAddressAgrees

LEMMA ShortRelativeAgrees ==
    ASSUME NEW cond \in Quarter, NEW d \in Int, address \in Halves \X Halves
    PROVE  Agrees(Banged(Opb("b", cond, FALSE, <<Immx32(Plus(address, d))>>)), Goes(cond, <<"rel", d>>, FALSE))
  <1> DEFINE args == <<Immx32(Plus(address, d))>>
  <1>1. cond \in 0 .. 31 /\ ("l" \in {"!"}) = FALSE
    BY Quarters, BangFlags
  <1>2. Agrees(Text("b", cond, {"!"}, args), Goes(cond, <<"rel", d>>, FALSE))
    BY <1>1, RelativeAgrees
  <1> HIDE DEF args
  <1>3. Banged(Opb("b", cond, FALSE, args)) = Text("b", cond, {"!"}, args)
    BY BangedText
  <1> QED
    BY <1>2, <1>3 DEF args

LEMMA ShortLoadImmediateAgrees ==
    ASSUME NEW d \in RegNum, NEW v \in Int
    PROVE  Agrees(Banged(Says("ldiu", <<R(d), Immd(v)>>)), Moved(15, d, I(v)))
  <1>1. "ldiu" \in Moving /\ 15 \in 0 .. 31
    BY DEF Moving
  <1>2. I(v) \in OperandOn(Int) /\ Operation(Immd(v)) = I(v)
    BY OperandType
  <1>3. Banged(Says("ldiu", <<R(d), Immd(v)>>)) = Text("ldiu", 15, {"!"}, <<R(d), Immd(v)>>)
    BY BangedText
  <1> QED
    BY <1>1, <1>2, <1>3, MoveAgrees

(* What disasm16 shows is what exec16 does, for every encoding.             *)
LEMMA ShortAgrees ==
    ASSUME NEW w \in Nat, address \in Halves \X Halves
    PROVE  Agrees(Disasm16(w, address), Decode16(w))
  <1> DEFINE OP   == Bits(w, 12, 3)
             rD   == Bits(w, 8, 4)
             rA   == Bits(w, 4, 4)
             func == Bits(w, 0, 4)
             sub  == Bits(w, 0, 3)
             Imm8 == Bits(w, 0, 8)
             Imm5 == Bits(w, 3, 5)
             near == 2 * Bits(w, 1, 11)
             link == Bits(w, 0, 1) = 1
             disp == 2 * Extended(Imm8, 8)
             x == address[1]
             y == address[2] - (address[2] % 2^12) + near
  <1>a. /\ OP \in 0 .. 7 /\ rD \in Quarter /\ rA \in Quarter /\ func \in Quarter /\ sub \in 0 .. 7
        /\ Imm5 \in 0 .. 31
    BY ShortFields
  <1>b. Imm8 \in Int /\ near \in Nat /\ disp \in Int
    <2>1. Bits(w, 0, 8) \in 0 .. 2^8 - 1 /\ Bits(w, 1, 11) \in 0 .. 2^11 - 1
      BY ShortFields
    <2>2. Imm8 \in Int
      <3> HIDE DEF Imm8
      <3> QED
        BY <2>1 DEF Imm8
    <2> QED
      <3>1. Extended(Imm8, 8) \in Int
        BY <2>2, SignExtensions
      <3> DEFINE e == Extended(Imm8, 8)
                 n == Bits(w, 1, 11)
      <3>2. e \in Int /\ n \in Nat
        BY <2>1, <3>1
      <3> HIDE DEF e, n
      <3>3. 2 * n \in Nat /\ 2 * e \in Int
        BY <3>2
      <3> QED
        BY <2>2, <3>3 DEF e, n
  <1>c. link \in BOOLEAN /\ rD \in RegNum
    BY <1>a, Quarters
  <1> DEFINE t0 == ShowMove(func, rD, rA)
             t1 == ShowEngine(func, rD, rA)
             t2 == ShowRegister(func, rD, rA)
             t3 == Opl("j", link, <<Immx32(<<x, y>>)>>)
             t4 == Opb("b", rD, FALSE, <<Immx32(Plus(address, disp))>>)
             t5 == Says("ldiu", <<R(rD), Immd(Imm8)>>)
             t6 == ShowBit(sub, rD, Imm5)
             t7 == ShowBase(sub, rD, Imm5)
             i0 == MoveForm(func, rD, rA)
             i1 == EngineForm(func, rD, rA)
             i2 == RegisterForm(func, rD, rA)
             i3 == Goes(15, <<"near", near>>, link)
             i4 == Goes(rD, <<"rel", disp>>, FALSE)
             i5 == Moved(15, rD, I(Imm8))
             i6 == BitForm(sub, rD, Imm5)
             i7 == BaseForm(sub, rD, Imm5)
  <1>e0. Agrees(Banged(t0), i0)
    BY <1>a, <1>b, <1>c, MoveFormAgrees
  <1>e1. Agrees(Banged(t1), i1)
    BY <1>a, <1>b, <1>c, EngineFormAgrees
  <1>e2. Agrees(Banged(t2), i2)
    BY <1>a, <1>b, <1>c, RegisterFormAgrees
  <1>e3. Agrees(Banged(t3), i3)
    BY <1>a, <1>b, <1>c, NearAgrees
  <1>e4. Agrees(Banged(t4), i4)
    BY <1>a, <1>b, <1>c, ShortRelativeAgrees
  <1>e5. Agrees(Banged(t5), i5)
    BY <1>a, <1>b, <1>c, ShortLoadImmediateAgrees
  <1>e6. Agrees(Banged(t6), i6)
    BY <1>a, <1>b, <1>c, BitFormAgrees
  <1>e7. Agrees(Banged(t7), i7)
    BY <1>a, <1>b, <1>c, BaseFormAgrees
  <1>f. Disasm16(w, address) = Banged(CASE OP = 0 -> t0 [] OP = 1 -> t1 [] OP = 2 -> t2 [] OP = 3 -> t3
                                        [] OP = 4 -> t4 [] OP = 5 -> t5 [] OP = 6 -> t6 [] OP = 7 -> t7)
    BY Zenon DEF Disasm16, Banged
  <1>g. Decode16(w) = CASE OP = 0 -> i0 [] OP = 1 -> i1 [] OP = 2 -> i2 [] OP = 3 -> i3
                        [] OP = 4 -> i4 [] OP = 5 -> i5 [] OP = 6 -> i6 [] OP = 7 -> i7
    BY Zenon DEF Decode16
  <1> HIDE DEF OP, t0, t1, t2, t3, t4, t5, t6, t7, i0, i1, i2, i3, i4, i5, i6, i7
  <1>1. CASE OP = 0
    <2>1. Disasm16(w, address) = Banged(t0) /\ Decode16(w) = i0
      BY <1>1, <1>f, <1>g
    <2> QED
      BY <1>e0, <2>1
  <1>2. CASE OP = 1
    <2>1. Disasm16(w, address) = Banged(t1) /\ Decode16(w) = i1
      BY <1>2, <1>f, <1>g
    <2> QED
      BY <1>e1, <2>1
  <1>3. CASE OP = 2
    <2>1. Disasm16(w, address) = Banged(t2) /\ Decode16(w) = i2
      BY <1>3, <1>f, <1>g
    <2> QED
      BY <1>e2, <2>1
  <1>4. CASE OP = 3
    <2>1. Disasm16(w, address) = Banged(t3) /\ Decode16(w) = i3
      BY <1>4, <1>f, <1>g
    <2> QED
      BY <1>e3, <2>1
  <1>5. CASE OP = 4
    <2>1. Disasm16(w, address) = Banged(t4) /\ Decode16(w) = i4
      BY <1>5, <1>f, <1>g
    <2> QED
      BY <1>e4, <2>1
  <1>6. CASE OP = 5
    <2>1. Disasm16(w, address) = Banged(t5) /\ Decode16(w) = i5
      BY <1>6, <1>f, <1>g
    <2> QED
      BY <1>e5, <2>1
  <1>7. CASE OP = 6
    <2>1. Disasm16(w, address) = Banged(t6) /\ Decode16(w) = i6
      BY <1>7, <1>f, <1>g
    <2> QED
      BY <1>e6, <2>1
  <1>8. CASE OP = 7
    <2>1. Disasm16(w, address) = Banged(t7) /\ Decode16(w) = i7
      BY <1>8, <1>f, <1>g
    <2> QED
      BY <1>e7, <2>1
  <1> QED
    BY <1>a, <1>1, <1>2, <1>3, <1>4, <1>5, <1>6, <1>7, <1>8
--------------------------------------------------------------------------------
(* What DecodeUnit visits are halves of encodings, at some address.         *)

Visited == /\ hi \in Uppers
           /\ lo # None => lo \in Lowers(hi)
           /\ address \in Addresses

LEMMA VisitedInvariant == Spec => []Visited
  <1>1. Init => Visited
    BY DEF Init, Visited
  <1>2. Visited /\ [Next]_vars => Visited'
    <2> SUFFICES ASSUME Visited, [Next]_vars PROVE Visited'
      OBVIOUS
    <2>1. CASE Look
      BY <2>1 DEF Look, Visited
    <2>2. CASE Forget
      BY <2>2 DEF Forget, Visited
    <2>3. CASE UNCHANGED vars
      BY <2>3 DEF vars, Visited
    <2> QED
      BY <2>1, <2>2, <2>3 DEF Next
  <1> QED
    BY <1>1, <1>2, PTL DEF Spec

LEMMA VisitedAgree == Visited /\ lo # None => Agrees(LongText, Long) /\ Agrees(ShortText, Short)
  <1> SUFFICES ASSUME Visited, lo # None
               PROVE  Agrees(LongText, Long) /\ Agrees(ShortText, Short)
    OBVIOUS
  <1>1. hi \in 0 .. 2^15 - 1 /\ lo \in 0 .. 2^15 - 1
    BY DecodeAssumption DEF Visited
  <1>2. address \in Halves \X Halves
    BY DecodeAssumption DEF Visited, Halves
  <1>3. lo \in Nat /\ hi * 2^15 + lo \in Nat
    BY <1>1
  <1>4. Agrees(LongText, Long)
    BY <1>2, <1>3, LongAgrees DEF LongText, Long
  <1>5. Agrees(ShortText, Short)
    BY <1>2, <1>3, ShortAgrees DEF ShortText, Short
  <1> QED
    BY <1>4, <1>5

(* Whatever halves are looked at, the processor makes one of the            *)
(* instructions Cpu models of them, all registers, conditions and compare   *)
(* fields in their ranges: exec32 and exec16 take no encoding they cannot   *)
(* index registers or choose a condition by.                                *)
THEOREM DecodeTypeCorrect == Spec => []DecodeTypeOK
  <1>1. Visited => DecodeTypeOK
    <2> SUFFICES ASSUME Visited PROVE DecodeTypeOK
      OBVIOUS
    <2>1. lo # None => {Long, Short} \subseteq InstructionOn(Int)
      BY VisitedAgree DEF Agrees
    <2> QED
      BY <2>1, DecodeAssumption DEF Visited, DecodeTypeOK
  <1> QED
    BY <1>1, VisitedInvariant, PTL

(* What disasm32 and disasm16 show, read as the guide reads it, is what     *)
(* exec32 and exec16 do, for any set of encodings and of addresses: jumps   *)
(* in the upper half of each 64 MiB and lhp! excepted (Parted).             *)
THEOREM ShownIsWhatRuns == Spec => []ShownIsExecuted
  <1>1. Visited => ShownIsExecuted
    BY VisitedAgree DEF Agrees, ShownIsExecuted
  <1> QED
    BY <1>1, VisitedInvariant, PTL
================================================================================
