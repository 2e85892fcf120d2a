------------------------------- MODULE MCEmulator -------------------------------
(***************************************************************************)
(* A user at the debugger of a program that calls forever, in a long and a *)
(* short encoding, a function that calls another; interrupts are enabled   *)
(* and their handler only returns.                                         *)
(***************************************************************************)
EXTENDS Emulator, Nibbles, TLC

Cells == 64 .. 79

Nop1      == [op |-> "nop"]
Ldi(d, w) == [op |-> "mv", cond |-> 15, d |-> d, v |-> <<"i", w>>]
Br(to, link) == [op |-> "branch", cond |-> 15, to |-> to, link |-> link]
Rel(w)    == <<"rel", w % 256>>
Return    == Br(<<"reg", 3>>, FALSE)
L(i)      == [kind |-> "long", insn |-> i, high |-> Nop1]
S(i, j)   == [kind |-> "short", low |-> i, high |-> j]
P(i, j)   == [kind |-> "pair", low |-> i, high |-> j]

Code ==
    (0  :> L(Ldi(0, 80))) @@ (4  :> L(Ldi(9, 40))) @@
    (8  :> L(Ldi(10, 1))) @@ (12 :> L([op |-> "mtcr", d |-> 10, s |-> 0])) @@
    (16 :> L(Br(Rel(24), TRUE))) @@
    (20 :> S(Br(<<"reg", 9>>, TRUE), Nop1)) @@
    (24 :> P(Nop1, Nop1)) @@
    (28 :> L(Br(Rel(-12), FALSE))) @@
    (40 :> S([op |-> "push", d |-> 3, base |-> 0],
             [op |-> "alu", fn |-> "add", d |-> 4, a |-> <<"r", 4>>, b |-> <<"i", 128>>, cu |-> TRUE])) @@
    (44 :> L(Br(Rel(12), TRUE))) @@
    (48 :> S([op |-> "pop", d |-> 3, base |-> 0], Return)) @@
    (56 :> S(Nop1, Return)) @@
    (64 :> L(Br(<<"epc", 0>>, FALSE)))

CallsForever ==
    "calls" :> [code |-> Code, entry |-> 0, ram |-> [a \in Cells |-> 0]]
MCPrograms == CallsForever

(* Memory that is no code: zeroes are two nop!, the rest is unknown. *)
NoCode == [w \in Word |-> IF w = 0 THEN S(Nop1, Nop1) ELSE Unassigned]

MCArguments == {<<"hex", 24>>, <<"hex", 64>>, <<"reg", 3>>, <<"reg", 35>>, <<"reg", 64>>, <<"word", 0>>}
================================================================================
