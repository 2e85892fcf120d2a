-------------------------------- MODULE MCMemory --------------------------------
(* A memory of seven segments of two I/O segments each, on a few bytes. *)
EXTENDS CpuMemory

MCByte == {0, 7, 9, 12, 15}

(* Bytes of four bits, as the processor numbers them. *)
MCPow2 == [i \in 0 .. 16 |-> 2 ^ i]
NoBits(a, b) == 0

MCImages == {[c \in 0 .. (SegmentSize + 2) |-> IF c % 2 = 0 THEN 7 ELSE 9]}

MCWords == {[i \in 0 .. 3 |-> <<7, 9, 12, 15>>[i + 1]], [i \in 0 .. 3 |-> 9 * (i % 2)]}

(* One firmware address, and offsets at both ends of the segments, around  *)
(* the UART's registers and at the border between the two I/O segments.    *)
MCTargets ==
    ({1} \X {5}) \cup
    ({3} \X {0, 3, 6, SegmentSize - 4, SegmentSize - 1}) \cup
    ({4} \X {3, SegmentSize - 2}) \cup
    ({5} \X {IoSegmentSize - 1, IoSegmentSize, IoSegmentSize + 2, IoSegmentSize + 17,
             IoSegmentSize + 20, 2 * IoSegmentSize - 1}) \cup
    ({6} \X {IoSegmentSize + 23}) \cup
    ({7} \X {0})
================================================================================
