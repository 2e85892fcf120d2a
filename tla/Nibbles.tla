-------------------------------- MODULE Nibbles --------------------------------
(***************************************************************************)
(* Powers of two, and, or and xor on words of eight bits, from tables for  *)
(* four: what the instances of Cpu give for Pow2, BitAnd, BitOr, BitXor.   *)
(* TLC evaluates a table once when it has a name of its own, and at every  *)
(* use when it is substituted for a constant itself.                       *)
(***************************************************************************)
EXTENDS Integers, Bitwise

Powers == [i \in 0 .. 8 |-> 2 ^ i]
MCPow2 == Powers

AndTable == [x \in 0 .. 15 |-> [y \in 0 .. 15 |-> x & y]]
OrTable  == [x \in 0 .. 15 |-> [y \in 0 .. 15 |-> x | y]]
XorTable == [x \in 0 .. 15 |-> [y \in 0 .. 15 |-> x ^^ y]]
By(table, a, b) == table[a % 16][b % 16] + 16 * table[a \div 16][b \div 16]
MCAnd(a, b) == By(AndTable, a, b)
MCOr(a, b)  == By(OrTable, a, b)
MCXor(a, b) == By(XorTable, a, b)
================================================================================
