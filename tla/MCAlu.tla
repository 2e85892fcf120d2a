--------------------------------- MODULE MCAlu ---------------------------------
(* AluUnit on words of WordBits bits, with and, or and xor computed. *)
EXTENDS AluUnit, Bitwise

Powers == [i \in 0 .. WordBits |-> 2 ^ i]
MCPow2 == Powers
MCAnd(a, b) == a & b
MCOr(a, b)  == a | b
MCXor(a, b) == a ^^ b
================================================================================
