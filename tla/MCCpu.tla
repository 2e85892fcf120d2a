--------------------------------- MODULE MCCpu ---------------------------------
(***************************************************************************)
(* Small programs for Preemption, on bytes of two bits: words and          *)
(* addresses are below 256.  Each program has a goal: what registers and   *)
(* memory must hold when it ends.                                          *)
(***************************************************************************)
EXTENDS Preemption, Nibbles, TLC

Cells == 104 .. 151              \* data; handlers use those from 120
HandlerCells == 120 .. 151

--------------------------------------------------------------------------------
(* An assembler of sorts. *)

R(k) == <<"r", k>>
I(w) == <<"i", w % 256>>

Nop1              == [op |-> "nop"]
Ldi(d, w)         == [op |-> "mv", cond |-> 15, d |-> d, v |-> I(w)]
Mv(d, a, cond)    == [op |-> "mv", cond |-> cond, d |-> d, v |-> R(a)]
Alu(fn, d, a, b)  == [op |-> "alu", fn |-> fn, d |-> d, a |-> a, b |-> b, cu |-> TRUE]
T(cond)           == [op |-> "t", cond |-> cond]
Mtcr(d, s)        == [op |-> "mtcr", d |-> d, s |-> s]
Mfcr(d, s)        == [op |-> "mfcr", d |-> d, s |-> s]
Mtsr(d, s)        == [op |-> "mtsr", d |-> d, s |-> s]
Mfsr(d, s)        == [op |-> "mfsr", d |-> d, s |-> s]
PushR(d, base)    == [op |-> "push", d |-> d, base |-> base]
PopR(d, base)     == [op |-> "pop", d |-> d, base |-> base]
Br(cond, to, lk)  == [op |-> "branch", cond |-> cond, to |-> to, link |-> lk]
Rel(w)            == <<"rel", w % 256>>
Ld(size, signed, d, base, disp, mode) ==
    [op |-> "load", size |-> size, signed |-> signed, d |-> d, base |-> base,
     disp |-> disp % 256, mode |-> mode]
St(size, d, base, disp, mode) ==
    [op |-> "store", size |-> size, d |-> d, base |-> base, disp |-> disp % 256, mode |-> mode]

L(i)      == [kind |-> "long", insn |-> i, high |-> Nop1]
S(i, j)   == [kind |-> "short", low |-> i, high |-> j]
P(i, j)   == [kind |-> "pair", low |-> i, high |-> j]
End       == L([op |-> "dump"])

(* Stack pointers for the program and its handlers, the vector, and go. *)
Prologue == <<L(Ldi(0, 120)), L(Ldi(1, 152)), L(Ldi(2, 200)), L(Mtcr(2, 3)),
              L(Ldi(2, 1)), L(Mtcr(2, 0))>>

(* The handler, at 156, uses r8 and the flags and saves cr5 as well. *)
Careful == <<S(PushR(8, 1), Nop1), L(Mfcr(8, 1)), S(PushR(8, 1), Nop1),
             L(Mfcr(8, 5)), S(PushR(8, 1), Alu("add", 8, R(8), I(127))),
             S(Alu("sub", 32, R(8), I(3)), PopR(8, 1)), L(Mtcr(8, 5)),
             S(PopR(8, 1), Nop1), L(Mtcr(8, 1)), S(PopR(8, 1), Nop1),
             L(Br(15, <<"epc", 0>>, FALSE))>>

(* From the push of cr5 to before the last instruction that needs it. *)
CarefulWindow == 174 .. 180

Careless == <<S(PushR(8, 1), Nop1), L(Alu("add", 8, R(8), I(127))),
              S(PopR(8, 1), Nop1), L(Br(15, <<"epc", 0>>, FALSE))>>

Place(slots, at) == [a \in {at + 4 * (k - 1) : k \in 1 .. Len(slots)} |-> slots[(a - at) \div 4 + 1]]

Assemble(slots, handler) ==
    Place(Prologue \o slots, 0) @@ (212 :> L(Br(15, Rel(-56), FALSE))) @@ Place(handler, 156)

MCSource == [a \in Cells |-> IF a < 112 THEN (a + 1) % 4 ELSE 0]

Program(slots, handler, regs, cells) ==
    [code |-> Assemble(slots, handler), entry |-> 0, ram |-> MCSource,
     ends |-> "dumped", regs |-> regs, cells |-> cells]

--------------------------------------------------------------------------------
(* Copy n bytes in a loop that counts CNT down; t and mv ask for CNT first, *)
(* and must not count.                                                      *)
Copy(n) ==
    Program(<<L(Ldi(4, 104)), L(Ldi(5, 112)), L(Ldi(6, n)), L(Mtsr(6, 0)),
              S(T(14), Nop1), L(Mv(21, 4, 14)), P(Mv(22, 4, 15), Mv(22, 5, 15)),
              L(Ld(1, FALSE, 7, 4, 1, "post")), L(St(1, 7, 5, 1, "post")),
              L(Br(14, Rel(-8), FALSE)), End>>,
            Careful,
            (4 :> 104 + (IF n = 0 THEN 1 ELSE n)) @@
            (21 :> IF n = 0 THEN 0 ELSE 104) @@ (22 :> IF n = 0 THEN 112 ELSE 104),
            [a \in 112 .. 119 |-> IF a < 112 + (IF n = 0 THEN 1 ELSE n) THEN MCSource[a - 8] ELSE 0])

(* Two-word sum and difference of x and y. *)
Wide(x, y) ==
    Program(<<L(Ldi(4, x % 256)), L(Ldi(5, x \div 256)), L(Ldi(6, y % 256)), L(Ldi(7, y \div 256)),
              L(Alu("add", 8, R(4), R(6))), L(Alu("addc", 9, R(5), R(7))),
              L(Alu("sub", 10, R(4), R(6))), L(Alu("subc", 11, R(5), R(7))), End>>,
            Careful,
            (8 :> (x + y) % 256) @@ (9 :> ((x + y) \div 256) % 256) @@
            (10 :> (x - y) % 256) @@ (11 :> ((x - y) \div 256) % 256),
            <<>>)

(* The larger of x and y, selected by T within one slot. *)
Larger(x, y) ==
    Program(<<L(Ldi(4, x)), L(Ldi(5, y)), S(Alu("sub", 32, R(4), R(5)), T(2)),
              P(Mv(6, 4, 15), Mv(6, 5, 15)), End>>,
            Careful,
            (6 :> IF x > y THEN x ELSE y), <<>>)

(* Calls in every encoding; f keeps its link on the stack and calls g twice. *)
CallsOf ==
    Program(<<L(Ldi(9, 64)), L(Ldi(10, 88)), L(Ldi(4, 0)),
              L(Br(15, Rel(28), TRUE)),
              S(Br(15, <<"reg", 9>>, TRUE), Nop1),
              P(Nop1, Br(15, <<"reg", 10>>, TRUE)),
              L(Br(15, <<"near", 64>>, TRUE)),
              S(Nop1, Br(15, <<"reg", 9>>, TRUE)), End, End,
              S(PushR(3, 0), Alu("add", 4, R(4), I(1))),
              L(Br(15, <<"far", 88>>, TRUE)),
              P(Nop1, Br(15, <<"reg", 10>>, TRUE)),
              S(PopR(3, 0), Br(15, <<"reg", 3>>, FALSE)), End, End,
              S(Alu("add", 4, R(4), I(16)), Br(15, <<"reg", 3>>, FALSE))>>,
            Careful, (4 :> 148) @@ (0 :> 120), <<>>)

(* The rest of the arithmetic on k, with products and quotients through    *)
(* the custom engine, running off into unassigned memory.                   *)
Arithmetic(k) ==
    Program(<<L(Ldi(4, k)), L(Ldi(5, 13)), L([op |-> "mulu", a |-> 4, b |-> 5]),
              L([op |-> "mfce", sel |-> "both", d |-> 6, a |-> 7]),
              L([op |-> "div", a |-> 5, b |-> 4]), L([op |-> "divu", a |-> 4, b |-> 5]),
              S([op |-> "mfce", sel |-> "lo", d |-> 8, a |-> 0],
                [op |-> "mfce", sel |-> "hi", d |-> 9, a |-> 0]),
              L([op |-> "mtce", sel |-> "both", d |-> 4, a |-> 5]),
              S([op |-> "mtce", sel |-> "lo", d |-> 9, a |-> 0],
                [op |-> "mfce", sel |-> "hi", d |-> 10, a |-> 0]),
              L(Alu("sll", 17, R(4), I(1))), L(Alu("srl", 18, R(4), I(1))),
              L(Alu("sra", 19, R(4), I(1))), L(Alu("extsb", 20, R(4), I(0))),
              L(Alu("extsh", 21, R(4), I(0))), L(Alu("xor", 22, R(4), I(255))),
              L(Alu("and", 23, R(4), I(15))), L(Alu("or", 24, R(4), I(15)))>>,
            Careful,
            (6 :> (13 * k) \div 256) @@ (7 :> (13 * k) % 256) @@ (8 :> k \div 13) @@
            (9 :> k % 13) @@ (10 :> k) @@ (17 :> (2 * k) % 256) @@ (18 :> k \div 2) @@
            (22 :> 255 - k) @@ (23 :> k % 16),
            <<>>)

(* A division by zero ends the process: nothing behind it is executed.     *)
DividesByZero ==
    [Arithmetic(0) EXCEPT !.ends = "trapped", !.regs = [k \in 6 .. 24 |-> 0]]

(* Loads and stores of every size at odd addresses, a word from just below *)
(* the memory, bases that are loaded and stored.  The stack pointer is     *)
(* pushed, as it was or as it will be: two values, of which r28 keeps the  *)
(* bits they do not differ in; and a pop into it adds to what is loaded.   *)
Accesses(k) ==
    Program(<<L(Ldi(4, k)), L(Mtsr(4, 1)), L(Mfsr(11, 1)), L(Ldi(12, 107)),
              L(St(2, 4, 12, 4, "pre")), L(Ld(2, TRUE, 13, 12, 0, "offset")),
              L(St(4, 4, 12, -2, "post")), L(Ld(4, FALSE, 14, 12, 2, "offset")),
              L(Ld(1, TRUE, 15, 12, 2, "pre")), L(Ld(4, FALSE, 16, 12, -9, "offset")),
              S(PushR(0, 0), PopR(27, 0)),
              S(Alu("sub", 28, R(27), I(116)), Alu("and", 28, R(28), I(251))),
              S(PushR(12, 0), PopR(0, 0)),
              L(Ldi(25, 104)), L(Ld(1, FALSE, 25, 25, 8, "post")),
              L(Ldi(26, 115)), L(St(1, 26, 26, 1, "pre")), End>>,
            Careful,
            (0 :> 115) @@ (28 :> 0) @@ (11 :> k) @@ (13 :> k % 4) @@ (14 :> k) @@ (16 :> 255) @@
            (25 :> 9) @@ (26 :> 116),
            (116 :> 0))

(* Code that is stored: a function that is replaced, and one that replaces *)
(* the instruction it is about to execute by another.                      *)
StoredCode ==
    (0 :> S(Nop1, Nop1)) @@
    (5 :> S(Alu("add", 4, R(4), I(1)), Br(15, <<"reg", 3>>, FALSE))) @@
    (6 :> S(Alu("add", 4, R(4), I(16)), Br(15, <<"reg", 3>>, FALSE))) @@
    (7 :> S(St(4, 6, 9, 0, "offset"), Alu("add", 4, R(4), I(128))))
MCDecoding ==
    [w \in Word |-> IF w \in DOMAIN StoredCode THEN StoredCode[w] ELSE Unassigned]

Overlay ==
    Program(<<L(Ldi(9, 108)), L(Ldi(4, 0)), L(Ldi(5, 5)), L(Ldi(6, 6)), L(Ldi(7, 7)),
              L(St(4, 5, 9, 0, "offset")), S(Br(15, <<"reg", 9>>, TRUE), Nop1),
              L(St(4, 6, 9, 0, "offset")), L(Br(15, Rel(52), TRUE)),
              L(St(4, 7, 9, 0, "offset")), S(Br(15, <<"reg", 9>>, TRUE), Nop1), End>>,
            Careful, (4 :> 17) @@ (3 :> 66), <<>>)

Values == {0, 213}

WidePairs == {<<255, 1>>, <<256, 1>>, <<65535, 65535>>}

ProgramTable ==
    [n \in {<<"copy", k, 0>> : k \in {0, 1, 3}}
           \cup {<<"wide", p[1], p[2]>> : p \in WidePairs}
           \cup {<<"larger", x, y>> : x, y \in Values}
           \cup {<<"calls", 0, 0>>, <<"overlay", 0, 0>>}
           \cup {<<"arithmetic", k, 0>> : k \in Values}
           \cup {<<"accesses", 213, 0>>} |->
        CASE n[1] = "copy"   -> Copy(n[2])
          [] n[1] = "wide"   -> Wide(n[2], n[3])
          [] n[1] = "larger" -> Larger(n[2], n[3])
          [] n[1] = "calls"  -> CallsOf
          [] n[1] = "overlay" -> Overlay
          [] n[1] = "arithmetic" -> IF n[2] = 0 THEN DividesByZero ELSE Arithmetic(n[2])
          [] n[1] = "accesses" -> Accesses(n[2])]

MCPrograms == ProgramTable

MCLargerPrograms == [n \in {<<"larger", x, y>> : x, y \in Values} |-> Larger(n[2], n[3])]

MCCarelessPrograms ==
    [n \in {<<"larger", x, y>> : x, y \in Values} |->
        [Larger(n[2], n[3]) EXCEPT !.code = Place(Careless, 156) @@ @]]

(* The product of x and y, where it is defined. *)
MCProductPrograms ==
    [n \in {<<"product", 2, 2>>, <<"product", 2, 255>>, <<"product", 255, 2>>} |->
        Program(<<L(Ldi(4, n[2])), L(Ldi(5, n[3])), L([op |-> "mul", a |-> 4, b |-> 5]), End>>,
                Careful, <<>>, <<>>)]

(* A program that ends does so where it should, with its goal reached: the *)
(* loop copied the bytes CNT asked for (one when CNT was zero), the carry  *)
(* joined the words, T chose the larger, every call returned, and nothing  *)
(* was executed behind a division by zero.                                 *)
GoalsReached ==
    status # "running" =>
        LET p == Programs[name]
        IN  /\ status = p.ends
            /\ \A k \in DOMAIN p.regs : r[k] = p.regs[k]
            /\ \A a \in DOMAIN p.cells : ram[a] = p.cells[a]
================================================================================
