--------------------------------- MODULE Decode ---------------------------------
(***************************************************************************)
(* Decoding (src/source/hyperscan/cpu.h, cpu.cpp): from the bits of an     *)
(* instruction to what exec32 or exec16 does.  A 32-bit instruction is the *)
(* number of its 30 bits, a 16-bit one that of its 15 bits, without the    *)
(* top bits p0 and p1 of the halves of a slot.                             *)
(* Immediates are integers, which the processor takes modulo 2^32: fields  *)
(* with the sign extended are negative, and so are words with bit 31 set.  *)
(***************************************************************************)
EXTENDS Isa, Sequences

Bits(w, low, n) == (w \div 2^low) % 2^n

(* sign_extend(field, n) *)
Extended(x, n) == IF x < 2^(n - 1) THEN x ELSE x - 2^n

(* 1 << k, and field << 16, as 32-bit words *)
BitMask(k) == IF k = 31 THEN (-2) * 2^30 ELSE 2^k
Upper(x)   == Extended(x, 16) * 2^16

R(k) == <<"r", k>>
I(v) == <<"i", v>>

Dumped  == [op |-> "dump"]
Nothing == [op |-> "nop"]
Arith(fn, d, a, b, cu) == [op |-> "alu", fn |-> fn, d |-> d, a |-> a, b |-> b, cu |-> cu]
Compared(a, b, tcs, cu) == [op |-> "cmp", a |-> a, b |-> b, tcs |-> tcs, cu |-> cu]
Moved(cond, d, v) == [op |-> "mv", cond |-> cond, d |-> d, v |-> v]
Goes(cond, to, link) == [op |-> "branch", cond |-> cond, to |-> to, link |-> link]
Engine(op, sel, d, a) == [op |-> op, sel |-> sel, d |-> d, a |-> a]
Special(op, d, s) == [op |-> op, d |-> d, s |-> s]
Loads(size, signed, d, base, disp, mode) ==
    [op |-> "load", size |-> size, signed |-> signed, d |-> d,
     base |-> base, disp |-> disp, mode |-> mode]
Stores(size, d, base, disp, mode) ==
    [op |-> "store", size |-> size, d |-> d, base |-> base, disp |-> disp, mode |-> mode]

--------------------------------------------------------------------------------
(* The eight accesses, by func3 or the low bits of OP. *)
Access(k, d, base, disp, mode) ==
    CASE k = 0 -> Loads(4, FALSE, d, base, disp, mode)
      [] k = 1 -> Loads(2, TRUE,  d, base, disp, mode)
      [] k = 2 -> Loads(2, FALSE, d, base, disp, mode)
      [] k = 3 -> Loads(1, TRUE,  d, base, disp, mode)
      [] k = 4 -> Stores(4, d, base, disp, mode)
      [] k = 5 -> Stores(2, d, base, disp, mode)
      [] k = 6 -> Loads(1, FALSE, d, base, disp, mode)
      [] k = 7 -> Stores(1, d, base, disp, mode)

(* Mutation: all of rD counts. *)
CompareFieldWhole(rD) == rD

(* rD & 0x03 *)
CompareField(rD) == rD % 4

Select(rB) == CASE rB = 1 -> "lo" [] rB = 2 -> "hi" [] rB = 3 -> "both" [] OTHER -> "none"

(* OP = 0 *)
SpecialForm(func, rD, rA, rB, cu) ==
    LET Three(fn) == Arith(fn, rD, R(rA), R(rB), cu)
        With(fn, v) == Arith(fn, rD, R(rA), I(v), cu)
    IN
    CASE func =  0 -> Nothing
      [] func =  4 -> Goes(rB, <<"reg", rA>>, cu)
      [] func =  8 -> Three("add")
      [] func =  9 -> Three("addc")
      [] func = 10 -> Three("sub")
      [] func = 11 -> Three("subc")
      [] func = 12 -> Compared(R(rA), R(rB), CompareField(rD), cu)
      [] func = 13 -> Compared(R(rA), I(0), CompareField(rD), cu)
      [] func = 15 -> Arith("sub", rD, I(0), R(rB), cu)
      [] func = 16 -> Three("and")
      [] func = 17 -> Three("or")
      [] func = 18 -> With("xor", -1)
      [] func = 19 -> Three("xor")
      [] func = 20 -> With("and", -1 - BitMask(rB))
      [] func = 21 -> With("or", BitMask(rB))
      [] func = 22 -> Arith("and", Discard, R(rA), I(BitMask(rB)), cu)
      [] func = 23 -> With("xor", BitMask(rB))
      [] func = 24 -> Three("sll")
      [] func = 26 -> Three("srl")
      [] func = 27 -> Three("sra")
      [] func = 32 -> [op |-> "mul",  a |-> rA, b |-> rB]
      [] func = 33 -> [op |-> "mulu", a |-> rA, b |-> rB]
      [] func = 34 -> [op |-> "div",  a |-> rA, b |-> rB]
      [] func = 35 -> [op |-> "divu", a |-> rA, b |-> rB]
      [] func = 36 -> Engine("mfce", Select(rB), rD, rA)
      [] func = 37 -> Engine("mtce", Select(rB), rD, rA)
      [] func = 40 -> Special("mfsr", rD, rB)
      [] func = 41 -> Special("mtsr", rA, rB)
      [] func = 42 -> [op |-> "t", cond |-> rB]
      [] func = 43 -> Moved(rB, rD, R(rA))
      [] func = 44 -> With("extsb", 0)
      [] func = 45 -> With("extsh", 0)
      [] func = 46 -> With("and", 255)
      [] func = 47 -> With("and", 65535)
      [] func = 56 -> With("sll", rB)
      [] func = 58 -> With("srl", rB)
      [] func = 59 -> With("sra", rB)
      [] OTHER -> Dumped

(* OP = 1 and OP = 5: v is the immediate for arithmetic, u for logic. *)
ImmediateForm(func, rD, v, u, cu) ==
    CASE func = 0 -> Arith("add", rD, R(rD), I(v), cu)
      [] func = 2 -> Compared(R(rD), I(v), 3, cu)
      [] func = 4 -> Arith("and", rD, R(rD), I(u), cu)
      [] func = 5 -> Arith("or", rD, R(rD), I(u), cu)
      [] func = 6 -> Moved(15, rD, I(v))
      [] OTHER -> Dumped

(* OP = 6 *)
ControlForm(crOp, rD, crA) ==
    CASE crOp = 0   -> Special("mtcr", rD, crA)
      [] crOp = 1   -> Special("mfcr", rD, crA)
      [] crOp = 132 -> Goes(15, <<"epc", 0>>, FALSE)
      [] OTHER -> Dumped

(* exec32's switches, over the fields of Instruction32 *)
Decode32(w) ==
    LET OP    == Bits(w, 25, 5)
        rD    == Bits(w, 20, 5)
        rA    == Bits(w, 15, 5)
        rB    == Bits(w, 10, 5)
        cu    == Bits(w, 0, 1) = 1
        Imm16 == Bits(w, 1, 16)
        Imm14 == Bits(w, 1, 14)
        Imm12 == Extended(Bits(w, 3, 12), 12)
        Imm15 == Extended(Bits(w, 0, 15), 15)
        Disp  == Extended(2 * (512 * Bits(w, 15, 10) + Bits(w, 1, 9)), 20)
    IN
    CASE OP = 0  -> SpecialForm(Bits(w, 1, 6), rD, rA, rB, cu)
      [] OP = 1  -> ImmediateForm(Bits(w, 17, 3), rD, Extended(Imm16, 16), Imm16, cu)
      [] OP = 2  -> Goes(15, <<"far", 2 * Bits(w, 1, 24)>>, cu)
      [] OP = 3  -> Access(Bits(w, 0, 3), rD, rA, Imm12, "pre")
      [] OP = 4  -> Goes(rB, <<"rel", Disp>>, cu)
      [] OP = 5  -> ImmediateForm(Bits(w, 17, 3), rD, Upper(Imm16), Upper(Imm16), cu)
      [] OP = 6  -> ControlForm(Bits(w, 0, 8), rD, rA)
      [] OP = 7  -> Access(Bits(w, 0, 3), rD, rA, Imm12, "post")
      [] OP = 8  -> Arith("add", rD, R(rA), I(Extended(Imm14, 14)), cu)
      [] OP = 12 -> Arith("and", rD, R(rA), I(Imm14), cu)
      [] OP = 13 -> Arith("or", rD, R(rA), I(Imm14), cu)
      [] OP \in 16 .. 23 -> Access(OP - 16, rD, rA, Imm15, "offset")
      [] OP = 24 -> Nothing
      [] OTHER -> Dumped

--------------------------------------------------------------------------------
(* OP = 0 *)
MoveForm(func, rD, rA) ==
    CASE func = 0  -> Nothing
      [] func = 1  -> Moved(15, rD, R(rA + 16))
      [] func = 2  -> Moved(15, rD + 16, R(rA))
      [] func = 3  -> Moved(15, rD, R(rA))
      [] func = 4  -> Goes(rD, <<"reg", rA>>, FALSE)
      [] func = 5  -> [op |-> "t", cond |-> rD]
      [] func = 12 -> Goes(rD, <<"reg", rA>>, TRUE)
      [] OTHER -> Dumped

(* OP = 1 *)
EngineForm(func, rD, rA) ==
    LET sel == CASE rD = 0 -> "lo" [] rD = 1 -> "hi" [] OTHER -> "none"
    IN  CASE func = 0 -> Engine("mtce", sel, rA, 0)
          [] func = 1 -> Engine("mfce", sel, rA, 0)
          [] OTHER -> Dumped

(* OP = 2; stack operations take eight bases and, by H, all registers *)
RegisterForm(func, rD, rA) ==
    LET H    == rA \div 8
        base == rA % 8
        Two(fn) == Arith(fn, rD, R(rD), R(rA), TRUE)
    IN
    CASE func = 0  -> Two("add")
      [] func = 1  -> Two("sub")
      [] func = 2  -> Arith("sub", rD, I(0), R(rA), TRUE)
      [] func = 3  -> Arith("sub", Discard, R(rD), R(rA), TRUE)
      [] func = 4  -> Two("and")
      [] func = 5  -> Two("or")
      [] func = 6  -> Arith("xor", rD, R(rA), I(-1), TRUE)
      [] func = 7  -> Two("xor")
      [] func = 8  -> Loads(4, FALSE, rD, rA, 0, "offset")
      [] func = 9  -> Loads(2, TRUE, rD, rA, 0, "offset")
      [] func = 10 -> [op |-> "pop", d |-> rD + 16 * H, base |-> base]
      [] func = 11 -> Loads(1, FALSE, rD, rA, 0, "offset")
      [] func = 12 -> Stores(4, rD, rA, 0, "offset")
      [] func = 13 -> Stores(2, rD, rA, 0, "offset")
      [] func = 14 -> [op |-> "push", d |-> rD + 16 * H, base |-> base]
      [] func = 15 -> Stores(1, rD, rA, 0, "offset")

(* OP = 6 *)
BitForm(func, rD, k) ==
    CASE func = 3 -> Arith("srl", rD, R(rD), I(k), TRUE)
      [] func = 4 -> Arith("and", rD, R(rD), I(-1 - BitMask(k)), TRUE)
      [] func = 5 -> Arith("or", rD, R(rD), I(BitMask(k)), TRUE)
      [] func = 6 -> Arith("and", Discard, R(rD), I(BitMask(k)), TRUE)
      [] OTHER -> Dumped

(* Mutation: every displacement from r2 is scaled by four. *)
BaseFormByFour(func, rD, k) ==
    CASE func = 0 -> Loads(4, FALSE, rD, 2, 4 * k, "offset")
      [] func = 1 -> Loads(2, FALSE, rD, 2, 4 * k, "offset")
      [] func = 3 -> Loads(1, FALSE, rD, 2, 4 * k, "offset")
      [] func = 4 -> Stores(4, rD, 2, 4 * k, "offset")
      [] func = 5 -> Stores(2, rD, 2, 4 * k, "offset")
      [] func = 7 -> Stores(1, rD, 2, 4 * k, "offset")
      [] OTHER -> Dumped

(* OP = 7: from the base pointer r2, scaled by the size of the access *)
BaseForm(func, rD, k) ==
    CASE func = 0 -> Loads(4, FALSE, rD, 2, 4 * k, "offset")
      [] func = 1 -> Loads(2, FALSE, rD, 2, 2 * k, "offset")
      [] func = 3 -> Loads(1, FALSE, rD, 2, k, "offset")
      [] func = 4 -> Stores(4, rD, 2, 4 * k, "offset")
      [] func = 5 -> Stores(2, rD, 2, 2 * k, "offset")
      [] func = 7 -> Stores(1, rD, 2, k, "offset")
      [] OTHER -> Dumped

(* exec16's switches, over the fields of Instruction16 *)
Decode16(w) ==
    LET OP   == Bits(w, 12, 3)
        rD   == Bits(w, 8, 4)
        rA   == Bits(w, 4, 4)
        Imm8 == Bits(w, 0, 8)
        Imm5 == Bits(w, 3, 5)
    IN
    CASE OP = 0 -> MoveForm(Bits(w, 0, 4), rD, rA)
      [] OP = 1 -> EngineForm(Bits(w, 0, 4), rD, rA)
      [] OP = 2 -> RegisterForm(Bits(w, 0, 4), rD, rA)
      [] OP = 3 -> Goes(15, <<"near", 2 * Bits(w, 1, 11)>>, Bits(w, 0, 1) = 1)
      [] OP = 4 -> Goes(rD, <<"rel", 2 * Extended(Imm8, 8)>>, FALSE)
      [] OP = 5 -> Moved(15, rD, I(Imm8))
      [] OP = 6 -> BitForm(Bits(w, 0, 3), rD, Imm5)
      [] OP = 7 -> BaseForm(Bits(w, 0, 3), rD, Imm5)

--------------------------------------------------------------------------------
(* Addresses are pairs of their upper and lower 16 bits. *)
Plus(at, d) ==
    LET s == at[2] + d IN <<(at[1] + (s \div 2^16)) % 2^16, s % 2^16>>

(* Where a taken branch at an address goes: pc + disp; the upper seven bits *)
(* of pc with Disp24 << 1 (j); its upper twenty bits with Disp11 << 1 (j!). *)
TakenTarget(to, at) ==
    LET goes == CASE to[1] = "rel"  -> Plus(at, to[2])
                  [] to[1] = "far"  -> <<at[1] - (at[1] % 2^9) + (to[2] \div 2^16),
                                         to[2] % 2^16>>
                  [] to[1] = "near" -> <<at[1], at[2] - (at[2] % 2^12) + to[2]>>
    IN  IF to[1] \in {"reg", "epc"} THEN to ELSE <<"at">> \o goes
================================================================================
