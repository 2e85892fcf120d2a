---------------------------------- MODULE Isa ----------------------------------
(***************************************************************************)
(* What the cases of exec32 and exec16 (src/source/hyperscan/cpu.cpp) do,  *)
(* as records: cases that differ in their operands only share a record.    *)
(* W is the set of the values immediates and displacements are taken from. *)
(***************************************************************************)
EXTENDS Integers

RegNum == 0 .. 31

(* Operands: register k is <<"r", k>>, and <<"i", w>> stands for w. *)
OperandOn(W) == ({"r"} \X RegNum) \cup ({"i"} \X W)

(* Where branches go: relative to pc, within a span around pc, to the      *)
(* address in a register, or back to where an exception came from.         *)
TargetOn(W) ==
    ({"rel", "near", "far"} \X W) \cup ({"reg"} \X RegNum) \cup {<<"epc", 0>>}

AluNames == {"add", "addc", "sub", "subc", "and", "or", "xor",
             "sll", "srl", "sra", "extsb", "extsh"}

Discard == 32                    \* as a destination: the result is not kept

InstructionOn(W) ==
    [op : {"nop", "dump"}] \cup
    [op : {"alu"}, fn : AluNames, d : RegNum \cup {Discard},
     a : OperandOn(W), b : OperandOn(W), cu : BOOLEAN] \cup
    [op : {"cmp"}, a : OperandOn(W), b : OperandOn(W), tcs : 0 .. 3, cu : BOOLEAN] \cup
    [op : {"mul", "mulu", "div", "divu"}, a : RegNum, b : RegNum] \cup
    [op : {"mfce", "mtce"}, sel : {"lo", "hi", "both", "none"}, d : RegNum, a : RegNum] \cup
    [op : {"mfsr", "mtsr", "mfcr", "mtcr"}, d : RegNum, s : RegNum] \cup
    [op : {"t"}, cond : 0 .. 31] \cup
    [op : {"mv"}, cond : 0 .. 31, d : RegNum, v : OperandOn(W)] \cup
    [op : {"load"}, size : {1, 2, 4}, signed : BOOLEAN, d : RegNum,
     base : RegNum, disp : W, mode : {"offset", "pre", "post"}] \cup
    [op : {"store"}, size : {1, 2, 4}, d : RegNum,
     base : RegNum, disp : W, mode : {"offset", "pre", "post"}] \cup
    [op : {"push", "pop"}, d : RegNum, base : RegNum] \cup
    [op : {"branch"}, cond : 0 .. 31, to : TargetOn(W), link : BOOLEAN]

(* A slot of four bytes holds one 32-bit instruction, two 16-bit ones in   *)
(* sequence, or a pair of which T selects one.  high is what the upper     *)
(* half decodes to as a 16-bit instruction, of a 32-bit instruction too:   *)
(* entered in its middle, that half is executed.                           *)
SlotOn(W) ==
    [kind : {"long"}, insn : InstructionOn(W), high : InstructionOn(W)] \cup
    [kind : {"short", "pair"}, low : InstructionOn(W), high : InstructionOn(W)]
================================================================================
