------------------------------- MODULE DecodeUnit -------------------------------
(***************************************************************************)
(* One encoded instruction after another, at one address or another, as    *)
(* the processor decodes it and as the disassembler shows it.  hi and lo   *)
(* are the 15 bits of two halfwords: together a 32-bit instruction, and lo *)
(* alone a 16-bit one.                                                     *)
(***************************************************************************)
EXTENDS Disasm

CONSTANTS Uppers,                \* upper halves that occur
          Lowers(_),             \* lower halves that occur with an upper one
          Addresses              \* pairs of upper and lower 16 bits

ASSUME DecodeAssumption ==
    /\ Uppers \subseteq 0 .. 2^15 - 1
    /\ \A h \in Uppers : Lowers(h) \subseteq 0 .. 2^15 - 1
    /\ Addresses \subseteq (0 .. 2^16 - 1) \X (0 .. 2^16 - 1)

VARIABLES hi, lo, address
vars == <<hi, lo, address>>

None == -1

Init == hi \in Uppers /\ address \in Addresses /\ lo = None

Look == lo = None /\ lo' \in Lowers(hi) /\ UNCHANGED <<hi, address>>

Forget == lo # None /\ lo' = None /\ UNCHANGED <<hi, address>>

Next == Look \/ Forget

Spec == Init /\ [][Next]_vars

Long  == Decode32(hi * 2^15 + lo)
Short == Decode16(lo)
LongText  == Disasm32(hi * 2^15 + lo, address)
ShortText == Disasm16(lo, address)

--------------------------------------------------------------------------------
(* The assembly language of the guide (docs/s_core7.pdf, pages 9 to 270):   *)
(* what an instruction written as a text does.                              *)

Arithmetics ==
    [add |-> "add", addc |-> "addc", sub |-> "sub", subc |-> "subc", and |-> "and",
     or |-> "or", xor |-> "xor", sll |-> "sll", srl |-> "srl", sra |-> "sra",
     addi |-> "add", addri |-> "add", addis |-> "add", andi |-> "and", andri |-> "and",
     andis |-> "and", ori |-> "or", orri |-> "or", oris |-> "or",
     slli |-> "sll", srli |-> "srl", srai |-> "sra"]

(* name to size, sign extension *)
Loading == [lw |-> <<4, FALSE>>, lh |-> <<2, TRUE>>, lhu |-> <<2, FALSE>>,
            lb |-> <<1, TRUE>>, lbu |-> <<1, FALSE>>,
            lwp |-> <<4, FALSE>>, lhp |-> <<2, TRUE>>, lbup |-> <<1, FALSE>>]
Storing == [sw |-> 4, sh |-> 2, sb |-> 1, swp |-> 4, shp |-> 2, sbp |-> 1]

Moving == {"mv", "mlfh", "mhfl", "ldi", "ldis", "ldiu"}
Basic  == {"lwp", "lhp", "lbup", "swp", "shp", "sbp"}       \* from the base pointer r2

Operation(a) ==
    CASE a[1] = "r" -> a
      [] a[1] = "#" -> I(a[2])
      [] a[1] = "word" -> I(Upper(a[2]) + a[3])

Bitwise1(s, a, k, cu) ==
    CASE s = "bitclr" -> Arith("and", a[1][2], a[k], I(-1 - BitMask(a[Len(a)][2])), cu)
      [] s = "bitset" -> Arith("or", a[1][2], a[k], I(BitMask(a[Len(a)][2])), cu)
      [] s = "bittgl" -> Arith("xor", a[1][2], a[k], I(BitMask(a[Len(a)][2])), cu)
      [] s = "bittst" -> Arith("and", Discard, a[1], I(BitMask(a[2][2])), cu)

Converted(s, d, v, cu) ==
    CASE s = "neg" -> Arith("sub", d, I(0), v, cu)
      [] s = "not" -> Arith("xor", d, v, I(-1), cu)
      [] s = "extzb" -> Arith("and", d, v, I(255), cu)
      [] s = "extzh" -> Arith("and", d, v, I(65535), cu)
      [] s \in {"extsb", "extsh"} -> Arith(s, d, v, I(0), cu)

Comparing(t) ==
    Compared(t.args[1], IF t.stem = "cmpz" THEN I(0) ELSE Operation(t.args[2]),
             CASE "teq" \in t.suffixes -> 0 [] "tmi" \in t.suffixes -> 1 [] OTHER -> 3,
             "c" \in t.suffixes)

EngineNames == [mfcel |-> <<"mfce", "lo">>, mfceh |-> <<"mfce", "hi">>,
                mfcehl |-> <<"mfce", "both">>, mtcel |-> <<"mtce", "lo">>,
                mtceh |-> <<"mtce", "hi">>, mtcehl |-> <<"mtce", "both">>]

(* base, displacement and mode of a memory operand *)
Memory(t) ==
    LET a == t.args
    IN  CASE t.stem \in Basic -> <<2, a[2][2], "offset">>
          [] a[2][1] = "[]"   -> <<a[2][2], a[2][3], "offset">>
          [] a[2][1] = "[+]" -> <<a[2][2], a[2][3], "pre">>
          [] a[2][1] = "[]+"  -> <<a[2][2], a[3][2], "post">>

Meaning(t) ==
    LET s == t.stem
        a == t.args
        n == Len(a)
        cu == t.suffixes \cap {"c", "!"} # {}       \* 16-bit ones set the flags
        link == "l" \in t.suffixes
    IN
    CASE s \in {"nop", "cache"} -> Nothing
      [] s \in DOMAIN Arithmetics ->
           Arith(Arithmetics[s], a[1][2], a[n - 1], Operation(a[n]), cu)
      [] s \in {"bitclr", "bitset", "bittgl", "bittst"} -> Bitwise1(s, a, n - 1, cu)
      [] s \in {"neg", "not", "extsb", "extsh", "extzb", "extzh"} ->
           Converted(s, a[1][2], a[2], cu)
      [] s = "cmp" /\ "!" \in t.suffixes -> Arith("sub", Discard, a[1], a[2], TRUE)
      [] s \in {"cmp", "cmpz", "cmpi", "cmpis"} /\ "!" \notin t.suffixes -> Comparing(t)
      [] s \in {"mul", "mulu", "div", "divu"} -> [op |-> s, a |-> a[1][2], b |-> a[2][2]]
      [] s \in DOMAIN EngineNames ->
           Engine(EngineNames[s][1], EngineNames[s][2], a[1][2], IF n = 2 THEN a[2][2] ELSE 0)
      [] s \in {"mfsr", "mtsr", "mfcr", "mtcr"} -> Special(s, a[1][2], a[2][2])
      [] s = "t" -> [op |-> "t", cond |-> t.cond]
      [] s \in Moving -> Moved(t.cond, a[1][2], Operation(a[2]))
      [] s \in DOMAIN Loading ->
           LET m == Memory(t)
           IN  Loads(Loading[s][1], Loading[s][2], a[1][2], m[1], m[2], m[3])
      [] s \in DOMAIN Storing ->
           LET m == Memory(t) IN Stores(Storing[s], a[1][2], m[1], m[2], m[3])
      [] s \in {"push", "pop"} -> [op |-> s, d |-> a[1][2], base |-> a[2][2]]
      [] s = "br" -> Goes(t.cond, <<"reg", a[1][2]>>, link)
      [] s \in {"b", "j"} -> Goes(t.cond, <<"at", a[1][2], a[1][3]>>, link)
      [] s = "rte" -> Goes(15, <<"epc", 0>>, FALSE)

(* What decoded instructions have in common that differ in unused fields,   *)
(* with the address a branch at an address goes to.                         *)
Effect(i) ==
    CASE i.op = "branch" -> [i EXCEPT !.to = TakenTarget(i.to, address)]
      [] i.op = "cmp" /\ i.tcs = 2 -> [i EXCEPT !.tcs = 3]
      [] i.op \in {"mfce", "mtce"} /\ i.sel # "both" -> [i EXCEPT !.a = 0]
      [] OTHER -> i

--------------------------------------------------------------------------------
(* Every encoding is decoded to one of the instructions Cpu models, with    *)
(* its registers, condition and compare field in their ranges.              *)
DecodeTypeOK ==
    /\ hi \in 0 .. 2^15 - 1
    /\ lo \in {None} \cup 0 .. 2^15 - 1
    /\ lo # None => {Long, Short} \subseteq InstructionOn(Int)

(* Where the disassembler and the processor are known to part: jumps in the *)
(* upper half of each 64 MiB, and lhp!.                                     *)
Parted(t) == (t.stem = "j" /\ address[1] % 2^10 >= 2^9) \/ t.stem = "lhp"

Shown(t, i) ==
    CASE t = Garbage -> TRUE
      [] t = Unknown -> i.op = "dump" \/ (i.op \in {"mfce", "mtce"} /\ i.sel = "none")
      [] OTHER -> i.op # "dump" /\ (Parted(t) \/ Effect(i) = Meaning(t))

(* The screen shows what will be executed: the text of disasm32 and of      *)
(* disasm16, read as the guide reads it, does what exec32 and exec16 do     *)
(* with the same bits, to the registers, scaled and extended immediates and *)
(* absolute branch targets; and what one of the two does not know, neither  *)
(* does the other.                                                          *)
ShownIsExecuted ==
    lo # None => Shown(LongText, Long) /\ Shown(ShortText, Short)

(* docs/s_core7.pdf, page 49: j goes to "the high seven bits of the address *)
(* of the jump instruction" with Disp24 << 1.  The disassembler's mask      *)
(* (disasm.cpp:382) keeps six of them.                                      *)
JumpShownWhereItGoes ==
    lo # None /\ LongText.stem = "j" => Effect(Long) = Meaning(LongText)

(* docs/s_core7.pdf, page 158: lhp! "sign-extends the half-word".  exec16   *)
(* (cpu.cpp:520) loads it as it is.                                         *)
LhpExtendsSign ==
    lo # None /\ ShortText.stem = "lhp" => Effect(Short) = Meaning(ShortText)
================================================================================
