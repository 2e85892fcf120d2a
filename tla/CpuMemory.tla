-------------------------------- MODULE CpuMemory --------------------------------
(***************************************************************************)
(* What the processor's loads and stores make of the memory map: its data  *)
(* memory (DataMemory) is the DRAM, under any of its segment numbers, and  *)
(* the empty segments are its unassigned addresses.                        *)
(***************************************************************************)
EXTENDS Memory

CONSTANTS WordBits, Pow2, BitAnd(_, _), BitOr(_, _), BitXor(_, _),
          ByteBits,              \* these as in Cpu
          DataSegment            \* the DRAM as programs address it, 0x80 or 0xa0

Base == Pow2[ByteBits]

(* Bytes are numbers, and the powers of Base are in the table. *)
ASSUME CpuMemoryAssumption ==
    /\ ByteBits \in Nat /\ Base \in Nat \ {0}
    /\ Pow2[0] = 1 /\ Pow2[ByteBits * 2] = Base * Base
    /\ Pow2[ByteBits * 3] = Base * (Base * Base)
    /\ Pow2[WordBits] = Base * (Base * (Base * Base))
    /\ Byte \subseteq 0 .. (Base - 1) /\ Zero = 0 /\ AllOnes = Base - 1
    /\ DataSegment \in DramSegments
    /\ \A s \in Segment : s \in Nat /\ (s + 1) * SegmentSize <= Pow2[WordBits]
    /\ SegmentSize + 3 <= Pow2[WordBits]

(* The number that SegmentedMemoryRegion's shift and mask make a of, with *)
(* DRAM under DataSegment whatever the mirror.                            *)
AddressNumber(a) ==
    (IF a[1] \in DramSegments THEN DataSegment ELSE a[1]) * SegmentSize + a[2]

DramAddresses == {DataSegment * SegmentSize + off : off \in 0 .. (SegmentSize - 1)}

DramBytes ==
    [n \in DramAddresses |-> ReadU8(mem, <<DataSegment, n - DataSegment * SegmentSize>>)]

Data == INSTANCE DataMemory WITH Ram <- DramAddresses, ram <- DramBytes

HalfNumber(h) == h[1] + Base * h[2]
WordNumber(w) == w[0] + Base * (w[1] + Base * (w[2] + Base * w[3]))

(* Loads of DataMemory are those of the map, from DRAM through any mirror   *)
(* and from empty segments; only a word that ends beyond the array is not.  *)
LoadsReachMap ==
    \A a \in (DramSegments \cup EmptySegments) \X (0 .. (SegmentSize - 1)) :
        LET n == AddressNumber(a)
        IN  /\ Data!ReadU8(n) = ReadU8(mem, a)
            /\ Data!ReadU16(n) = HalfNumber(ReadU16(mem, a))
            /\ a[1] \in EmptySegments \/ a[2] + 3 < SegmentSize =>
                  Data!ReadU32(n) = WordNumber(ReadU32(mem, a))

(* A store anywhere in the map leaves in DRAM what DataMemory's leaves in   *)
(* Ram: through a mirror, reaching beyond the end, or somewhere else.       *)
StoresReachMap ==
    [][DramBytes' = Data!Stored(last'.size, AddressNumber(last'.at), WordNumber(last'.word))]_vars
================================================================================
