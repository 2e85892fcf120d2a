------------------------------ MODULE DataMemory -------------------------------
(***************************************************************************)
(* Memory as the processor's loads and stores see it: numbers for words    *)
(* and addresses, and one part, Ram, with storage behind it.  CpuMemory    *)
(* shows that a DRAM segment of the memory map is this.                    *)
(***************************************************************************)
EXTENDS Alu

CONSTANTS ByteBits,              \* a word is four bytes of ByteBits bits
          Ram                    \* the addresses with storage behind them

VARIABLE ram

ByteNumber == 0 .. (Pow2[ByteBits] - 1)

(* Unassigned addresses read all ones and ignore stores.  The first address *)
(* of a word decides whether it is assigned: nothing is said of what a word *)
(* that begins in Ram reads beyond it.                                      *)
ByteAt(a) == IF a \in Ram THEN ram[a] ELSE Pow2[ByteBits] - 1

ReadU8(a) == ByteAt(a)

(* The upper byte of a halfword at byte 3 of a word reads zero. *)
ReadU16(a) ==
    ByteAt(a) + Pow2[ByteBits] * (IF a % 4 = 3 THEN 0 ELSE ByteAt(a + 1))

ReadU32(a) ==
    LET at(i) == ByteAt((a + i) % Modulus)
        base  == Pow2[ByteBits]
    IN  IF a \in Ram THEN at(0) + base * (at(1) + base * (at(2) + base * at(3)))
                     ELSE Modulus - 1

Read(size, a) ==
    CASE size = 1 -> ReadU8(a) [] size = 2 -> ReadU16(a) [] size = 4 -> ReadU32(a)

(* A store of size bytes of v: a halfword at byte 3 stores its low byte. *)
Stored(size, a, v) ==
    LET n == IF a \notin Ram THEN 0 ELSE IF size = 2 /\ a % 4 = 3 THEN 1 ELSE size
    IN  [x \in Ram |-> LET i == (x - a) % Modulus
                       IN  IF i < n THEN (v \div Pow2[ByteBits * i]) % Pow2[ByteBits]
                                    ELSE ram[x]]
================================================================================
