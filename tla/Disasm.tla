--------------------------------- MODULE Disasm ---------------------------------
(***************************************************************************)
(* The disassembler (src/source/hyperscan/disasm.cpp), the second decoder  *)
(* of the same encodings.  A text is a record: the name of the instruction *)
(* without its suffixes, the suffixes, and the operands; how these are     *)
(* spelled, padded and coloured is left out.                               *)
(***************************************************************************)
EXTENDS Decode

Unknown == [stem |-> "unknown"]

(* CONDITIONALS and TCS are indexed by fields wider than the tables: what   *)
(* lies behind them is printed, or the process dies.                        *)
Garbage == [stem |-> "any"]

Text(stem, cond, suffixes, args) ==
    [stem |-> stem, cond |-> cond, suffixes |-> suffixes, args |-> args]

Says(stem, args) == Text(stem, 15, {}, args)                          \* op
Opc(stem, c, args) == Text(stem, 15, IF c THEN {"c"} ELSE {}, args)
Opb(stem, cond, link, args) ==
    IF cond < 16 THEN Text(stem, cond, IF link THEN {"l"} ELSE {}, args) ELSE Garbage
Opl(stem, link, args) == Opb(stem, 15, link, args)
Opt(stem, tcs, c, args) ==
    IF tcs < 4
    THEN Text(stem, 15, (CASE tcs = 0 -> {"teq"} [] tcs = 1 -> {"tmi"} [] OTHER -> {})
                        \cup (IF c THEN {"c"} ELSE {}), args)
    ELSE Garbage

Bang(t) == IF t = Garbage THEN t ELSE [t EXCEPT !.suffixes = @ \cup {"!"}]

(* Operands: registers are R(k); numbers, 32-bit words and addresses (which *)
(* debugger_get_alias may give a name), and the four forms of a memory one. *)
Immd(v)      == <<"#", v>>
Immx32(at)   == <<"word", at[1], at[2]>>
Named(p, k)  == <<p, k>>
Mem(k)       == <<"[]", k, 0>>
MemPlus(k)   == <<"[]+", k>>
Memoff(k, v) == <<"[]", k, v>>
MemoffPlus(k, v) == <<"[+]", k, v>>

AccessName(k) == <<"lw", "lh", "lhu", "lb", "sw", "sh", "lbu", "sb">>[k + 1]

--------------------------------------------------------------------------------
(* OP = 0, to func6 0x1B: control, arithmetic, logic *)
ShowSpecial(func, rD, rA, rB, cu) ==
    LET Three(s) == Opc(s, cu, <<R(rD), R(rA), R(rB)>>)
        Field(s) == Opc(s, cu, <<R(rD), R(rA), Immd(rB)>>)
    IN
    CASE func =  0 -> Says("nop", <<>>)
      [] func =  4 -> Opb("br", rB, cu, <<R(rA)>>)
      [] func =  8 -> Three("add")
      [] func =  9 -> Three("addc")
      [] func = 10 -> Three("sub")
      [] func = 11 -> Three("subc")
      [] func = 12 -> Opt("cmp", rD, cu, <<R(rA), R(rB)>>)
      [] func = 13 -> Opt("cmpz", rD, cu, <<R(rA)>>)
      [] func = 15 -> Opc("neg", cu, <<R(rD), R(rB)>>)
      [] func = 16 -> Three("and")
      [] func = 17 -> Three("or")
      [] func = 18 -> Opc("not", cu, <<R(rD), R(rA)>>)
      [] func = 19 -> Three("xor")
      [] func = 20 -> Field("bitclr")
      [] func = 21 -> Field("bitset")
      [] func = 22 -> Opc("bittst", cu, <<R(rA), Immd(rB)>>)
      [] func = 23 -> Field("bittgl")
      [] func = 24 -> Three("sll")
      [] func = 26 -> Three("srl")
      [] func = 27 -> Three("sra")
      [] OTHER -> Unknown

(* OP = 0, from func6 0x20: engine, special registers, moves, extensions *)
ShowFurther(func, rD, rA, rB, cu) ==
    LET Two(s)    == Opc(s, cu, <<R(rA), R(rB)>>)
        Extend(s) == Opc(s, cu, <<R(rD), R(rA)>>)
        Field(s)  == Opc(s, cu, <<R(rD), R(rA), Immd(rB)>>)
        CE(lo, hi, both) ==
            CASE rB = 1 -> Says(lo, <<R(rD)>>)
              [] rB = 2 -> Says(hi, <<R(rD)>>)
              [] rB = 3 -> Says(both, <<R(rD), R(rA)>>)
              [] OTHER -> Unknown
    IN
    CASE func = 32 -> Two("mul")
      [] func = 33 -> Two("mulu")
      [] func = 34 -> Two("div")
      [] func = 35 -> Two("divu")
      [] func = 36 -> CE("mfcel", "mfceh", "mfcehl")
      [] func = 37 -> CE("mtcel", "mtceh", "mtcehl")
      [] func = 40 -> Says("mfsr", <<R(rD), Named("s", rB)>>)
      [] func = 41 -> Says("mtsr", <<R(rA), Named("s", rB)>>)
      [] func = 42 -> Opb("t", rB, FALSE, <<>>)
      [] func = 43 -> Opb("mv", rB, FALSE, <<R(rD), R(rA)>>)
      [] func = 44 -> Extend("extsb")
      [] func = 45 -> Extend("extsh")
      [] func = 46 -> Extend("extzb")
      [] func = 47 -> Extend("extzh")
      [] func = 56 -> Field("slli")
      [] func = 58 -> Field("srli")
      [] func = 59 -> Field("srai")
      [] OTHER -> Unknown

(* OP = 1 *)
ShowImmediate(func, rD, imm, cu) ==
    CASE func = 0 -> Opc("addi", cu, <<R(rD), Immd(Extended(imm, 16))>>)
      [] func = 2 -> Opc("cmpi", cu, <<R(rD), Immd(Extended(imm, 16))>>)
      [] func = 4 -> Opc("andi", cu, <<R(rD), Immd(imm)>>)
      [] func = 5 -> Opc("ori", cu, <<R(rD), Immd(imm)>>)
      [] func = 6 -> Says("ldi", <<R(rD), Immd(Extended(imm, 16))>>)
      [] OTHER -> Unknown

(* OP = 5 *)
ShowUpper(func, rD, imm, cu) ==
    LET args == <<R(rD), Immx32(<<imm, 0>>)>>
    IN  CASE func = 0 -> Opc("addis", cu, args)
          [] func = 2 -> Opc("cmpis", cu, args)
          [] func = 4 -> Opc("andis", cu, args)
          [] func = 5 -> Opc("oris", cu, args)
          [] func = 6 -> Opc("ldis", cu, args)
          [] OTHER -> Unknown

(* OP = 6 *)
ShowControl(crOp, rD, crA) ==
    CASE crOp = 0   -> Says("mtcr", <<R(rD), Named("c", crA)>>)
      [] crOp = 1   -> Says("mfcr", <<R(rD), Named("c", crA)>>)
      [] crOp = 132 -> Says("rte", <<>>)
      [] OTHER -> Unknown

(* j: the upper six bits of the address with Disp24 << 1 *)
ShowJump(link, address, disp) ==
    Opl("j", link, <<Immx32(<<address[1] - (address[1] % 2^10) + (disp \div 2^15),
                              (2 * disp) % 2^16>>)>>)

Disasm32(w, address) ==
    LET OP    == Bits(w, 25, 5)
        rD    == Bits(w, 20, 5)
        rA    == Bits(w, 15, 5)
        rB    == Bits(w, 10, 5)
        cu    == Bits(w, 0, 1) = 1
        func3 == Bits(w, 0, 3)
        Imm16 == Bits(w, 1, 16)
        Imm14 == Bits(w, 1, 14)
        Imm12 == Extended(Bits(w, 3, 12), 12)
        Imm15 == Extended(Bits(w, 0, 15), 15)
        Disp  == Extended(2 * (512 * Bits(w, 15, 10) + Bits(w, 1, 9)), 20)
        op0   == IF Bits(w, 6, 1) = 0 THEN ShowSpecial(Bits(w, 1, 6), rD, rA, rB, cu)
                                      ELSE ShowFurther(Bits(w, 1, 6), rD, rA, rB, cu)
    IN
    CASE OP = 0  -> op0
      [] OP = 1  -> ShowImmediate(Bits(w, 17, 3), rD, Imm16, cu)
      [] OP = 2  -> ShowJump(cu, address, Bits(w, 1, 24))
      [] OP = 3  -> Says(AccessName(func3), <<R(rD), MemoffPlus(rA, Imm12)>>)
      [] OP = 4  -> Opb("b", rB, cu, <<Immx32(Plus(address, Disp))>>)
      [] OP = 5  -> ShowUpper(Bits(w, 17, 3), rD, Imm16, cu)
      [] OP = 6  -> ShowControl(Bits(w, 0, 8), rD, rA)
      [] OP = 7  -> Says(AccessName(func3), <<R(rD), MemPlus(rA), Immd(Imm12)>>)
      [] OP = 8  -> Opc("addri", cu, <<R(rD), R(rA), Immd(Extended(Imm14, 14))>>)
      [] OP = 12 -> Opc("andri", cu, <<R(rD), R(rA), Immd(Imm14)>>)
      [] OP = 13 -> Opc("orri", cu, <<R(rD), R(rA), Immd(Imm14)>>)
      [] OP \in 16 .. 23 -> Says(AccessName(OP - 16), <<R(rD), Memoff(rA, Imm15)>>)
      [] OP = 24 -> Says("cache", <<Immd(rD), Memoff(rA, Imm15)>>)
      [] OTHER -> Unknown

--------------------------------------------------------------------------------
(* OP = 0 *)
ShowMove(func, rD, rA) ==
    CASE func = 0  -> Says("nop", <<>>)
      [] func = 1  -> Says("mlfh", <<R(rD), R(rA + 16)>>)
      [] func = 2  -> Says("mhfl", <<R(rD + 16), R(rA)>>)
      [] func = 3  -> Says("mv", <<R(rD), R(rA)>>)
      [] func = 4  -> Opb("br", rD, FALSE, <<R(rA)>>)
      [] func = 5  -> Opb("t", rD, FALSE, <<>>)
      [] func = 12 -> Opb("br", rD, TRUE, <<R(rA)>>)
      [] OTHER -> Unknown

(* OP = 1 *)
ShowEngine(func, rD, rA) ==
    CASE func = 0 /\ rD = 0 -> Says("mtcel", <<R(rA)>>)
      [] func = 0 /\ rD = 1 -> Says("mtceh", <<R(rA)>>)
      [] func = 1 /\ rD = 0 -> Says("mfcel", <<R(rA)>>)
      [] func = 1 /\ rD = 1 -> Says("mfceh", <<R(rA)>>)
      [] OTHER -> Unknown

(* OP = 2: the names in the order of func4 *)
ShowRegister(func, rD, rA) ==
    LET name == <<"add", "sub", "neg", "cmp", "and", "or", "not", "xor",
                  "lw", "lh", "pop", "lbu", "sw", "sh", "push", "sb">>[func + 1]
        args == CASE func < 8 -> <<R(rD), R(rA)>>
                  [] func \in {10, 14} -> <<R(rD + (rA \div 8) * 16), Mem(rA % 8)>>
                  [] OTHER -> <<R(rD), Mem(rA)>>
    IN  Says(name, args)

(* OP = 6 *)
ShowBit(func, rD, k) ==
    CASE func = 3 -> Says("srli", <<R(rD), Immd(k)>>)
      [] func = 4 -> Says("bitclr", <<R(rD), Immd(k)>>)
      [] func = 5 -> Says("bitset", <<R(rD), Immd(k)>>)
      [] func = 6 -> Says("bittst", <<R(rD), Immd(k)>>)
      [] OTHER -> Unknown

(* OP = 7 *)
ShowBase(func, rD, k) ==
    CASE func = 0 -> Says("lwp", <<R(rD), Immd(4 * k)>>)
      [] func = 1 -> Says("lhp", <<R(rD), Immd(2 * k)>>)
      [] func = 3 -> Says("lbup", <<R(rD), Immd(k)>>)
      [] func = 4 -> Says("swp", <<R(rD), Immd(4 * k)>>)
      [] func = 5 -> Says("shp", <<R(rD), Immd(2 * k)>>)
      [] func = 7 -> Says("sbp", <<R(rD), Immd(k)>>)
      [] OTHER -> Unknown

Disasm16(w, address) ==
    LET OP   == Bits(w, 12, 3)
        rD   == Bits(w, 8, 4)
        rA   == Bits(w, 4, 4)
        Imm8 == Bits(w, 0, 8)
        Imm5 == Bits(w, 3, 5)
        near == <<address[1], address[2] - (address[2] % 2^12) + 2 * Bits(w, 1, 11)>>
        text ==
            CASE OP = 0 -> ShowMove(Bits(w, 0, 4), rD, rA)
              [] OP = 1 -> ShowEngine(Bits(w, 0, 4), rD, rA)
              [] OP = 2 -> ShowRegister(Bits(w, 0, 4), rD, rA)
              [] OP = 3 -> Opl("j", Bits(w, 0, 1) = 1, <<Immx32(near)>>)
              [] OP = 4 -> Opb("b", rD, FALSE,
                               <<Immx32(Plus(address, 2 * Extended(Imm8, 8)))>>)
              [] OP = 5 -> Says("ldiu", <<R(rD), Immd(Imm8)>>)
              [] OP = 6 -> ShowBit(Bits(w, 0, 3), rD, Imm5)
              [] OP = 7 -> ShowBase(Bits(w, 0, 3), rD, Imm5)
    IN  IF text = Unknown THEN text ELSE Bang(text)
================================================================================
