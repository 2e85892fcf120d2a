--------------------------------- MODULE Memory ---------------------------------
(***************************************************************************)
(* The memory map (src/source/hyperscan/memory, io, and the regions main   *)
(* assigns): segments of firmware, DRAM and memory-mapped I/O, each seen   *)
(* at two segment numbers, in an address space that is otherwise empty.    *)
(*                                                                         *)
(* Only words are read and written in a region; bytes and halfwords are    *)
(* made of the aligned word around them (MemoryRegion::readU8 and on).     *)
(* An address is a pair of segment number and offset, what                 *)
(* SegmentedMemoryRegion's shift and mask make of it; a word is a function *)
(* from byte number to byte, the least significant first.                  *)
(***************************************************************************)
EXTENDS Integers, Sequences

CONSTANTS Byte, Zero, AllOnes,   \* bytes; 0x00 and 0xFF
          ReadyByte,             \* 0x90, the low byte of the UART status
          SegmentSize,           \* SEGMENT_SIZE of the memory map, 2^24
          IoSegmentSize,         \* SEGMENT_SIZE inside the I/O region, 2^16
          FirmwareSegments, DramSegments, MmioSegments, EmptySegments,
          UartSegment,           \* the I/O segment of the UART, 0x15
          Images,                \* contents the firmware array can start with
          HeapTail,              \* what can lie beyond an array, see Array
          Words, Targets,        \* words stored, and addresses stored to
          MaxStores

Segment == FirmwareSegments \cup DramSegments \cup MmioSegments \cup EmptySegments
Address == Segment \X (0 .. (SegmentSize - 1))

Word == [0 .. 3 -> Byte]

(* ArrayMemoryRegion::memory.  readU32 and writeU32 do not check that four *)
(* bytes are left, so an unaligned word at the end of the array reaches up *)
(* to three bytes beyond it, undefined in C++: they are part of the array  *)
(* here, with any initial content.                                         *)
Array(size) == [0 .. (size + 2) -> Byte]

ASSUME MemoryAssumption ==
    /\ {Zero, AllOnes, ReadyByte} \subseteq Byte
    /\ SegmentSize \in Nat \ {0} /\ SegmentSize % 4 = 0
    /\ IoSegmentSize \in Nat /\ IoSegmentSize % 4 = 0 /\ IoSegmentSize >= 20
    /\ FirmwareSegments \cap (DramSegments \cup MmioSegments \cup EmptySegments) = {}
    /\ DramSegments \cap (MmioSegments \cup EmptySegments) = {}
    /\ MmioSegments \cap EmptySegments = {}
    /\ Images \subseteq Array(SegmentSize)
    /\ HeapTail \subseteq Byte
    /\ Words \subseteq Word
    /\ Targets \subseteq Address
    /\ MaxStores \in Nat

VARIABLES mem,                   \* the arrays, and the characters the UART printed
          last,                  \* the last store: size, address and word
          stores                 \* number of stores so far
vars == <<mem, last, stores>>

ZeroWord   == [i \in 0 .. 3 |-> Zero]
OnesWord   == [i \in 0 .. 3 |-> AllOnes]
StatusWord == [ZeroWord EXCEPT ![0] = ReadyByte]

NoStore == [size |-> 0]

(* make_shared clears DRAM and the UART; the firmware comes from its file. *)
Cleared(size, tail) == [c \in 0 .. (size + 2) |-> IF c < size THEN Zero ELSE tail]

Init ==
    /\ \E image \in Images, tail \in HeapTail :
          mem = [firmware |-> image,
                 dram     |-> Cleared(SegmentSize, tail),
                 uart     |-> Cleared(IoSegmentSize, tail),
                 tx       |-> <<>>]
    /\ last = NoStore
    /\ stores = 0

--------------------------------------------------------------------------------
ArrayRead(array, off) == [i \in 0 .. 3 |-> array[off + i]]

ArrayWrite(array, off, w) ==
    [c \in DOMAIN array |-> IF c \in off .. (off + 3) THEN w[c - off] ELSE array[c]]

(* The UART's registers: RX or TX, error, control, baud rate, status.  Only *)
(* these exact addresses are registers; any other is plain storage.         *)
TxRegister     == 0
StatusRegister == 16
Registers      == {TxRegister, 4, 8, 12, StatusRegister}

UartRead(array, off) ==
    IF off = StatusRegister THEN StatusWord
    ELSE IF off \in Registers THEN ZeroWord
    ELSE ArrayRead(array, off)

(* Mutation: what is printed is not masked to a byte. *)
UartWriteWord(m, off, w) ==
    IF off = TxRegister THEN [m EXCEPT !.tx = Append(@, w[0] + 256 * w[1])]
    ELSE IF off \in Registers THEN m
    ELSE [m EXCEPT !.uart = ArrayWrite(@, off, w)]

UartWrite(m, off, w) ==
    IF off = TxRegister THEN [m EXCEPT !.tx = Append(@, w[0])]
    ELSE IF off \in Registers THEN m
    ELSE [m EXCEPT !.uart = ArrayWrite(@, off, w)]

IsUart(off) == off \div IoSegmentSize = UartSegment

(* IOMemoryRegion: one segment holds the UART, the others are empty. *)
IoRead(m, off) ==
    IF IsUart(off) THEN UartRead(m.uart, off % IoSegmentSize) ELSE OnesWord

IoWrite(m, off, w) ==
    IF IsUart(off) THEN UartWrite(m, off % IoSegmentSize, w) ELSE m

(* miu->readU32 and miu->writeU32. *)
ReadU32(m, a) ==
    CASE a[1] \in FirmwareSegments -> ArrayRead(m.firmware, a[2])
      [] a[1] \in DramSegments     -> ArrayRead(m.dram, a[2])
      [] a[1] \in MmioSegments     -> IoRead(m, a[2])
      [] OTHER                     -> OnesWord

WriteU32(m, a, w) ==
    CASE a[1] \in FirmwareSegments -> [m EXCEPT !.firmware = ArrayWrite(@, a[2], w)]
      [] a[1] \in DramSegments     -> [m EXCEPT !.dram = ArrayWrite(@, a[2], w)]
      [] a[1] \in MmioSegments     -> IoWrite(m, a[2], w)
      [] OTHER                     -> m

(* Mutation: rounded down to a halfword. *)
HalfAligned(a) == <<a[1], a[2] - (a[2] % 2)>>

(* address & 0xFFFFFFFC, and the byte number that leaves *)
Aligned(a) == <<a[1], a[2] - (a[2] % 4)>>
Lane(a)    == a[2] % 4

ReadU8(m, a) == ReadU32(m, Aligned(a))[Lane(a)]

(* Mutation: the halfword is not shifted down. *)
ReadU16Unshifted(m, a) ==
    LET w == ReadU32(m, Aligned(a)) IN <<w[0], w[1]>>

(* The upper byte of a halfword at byte 3 is shifted in as zero. *)
ReadU16(m, a) ==
    LET w == ReadU32(m, Aligned(a))
    IN  <<w[Lane(a)], IF Lane(a) = 3 THEN Zero ELSE w[Lane(a) + 1]>>

(* Mutation: the word around the bytes is not kept. *)
MergedWithZero(m, a, size, w) ==
    [i \in 0 .. 3 |-> IF i \in Lane(a) .. (Lane(a) + size - 1) THEN w[i - Lane(a)] ELSE Zero]

(* Replace the byte, or the two, at the lane of a in the word around it; a *)
(* halfword's upper byte at byte 3 is shifted out.                         *)
Merged(m, a, size, w) ==
    [i \in 0 .. 3 |-> IF i \in Lane(a) .. (Lane(a) + size - 1)
                      THEN w[i - Lane(a)]
                      ELSE ReadU32(m, Aligned(a))[i]]

WriteU8(m, a, w)  == WriteU32(m, Aligned(a), Merged(m, a, 1, w))
WriteU16(m, a, w) == WriteU32(m, Aligned(a), Merged(m, a, 2, w))

--------------------------------------------------------------------------------
Did(size, a, w) ==
    /\ stores < MaxStores
    /\ stores' = stores + 1
    /\ last' = [size |-> size, at |-> a, word |-> w]

StoreByte(a, w) == Did(1, a, w) /\ mem' = WriteU8(mem, a, w)
StoreHalf(a, w) == Did(2, a, w) /\ mem' = WriteU16(mem, a, w)
StoreWord(a, w) == Did(4, a, w) /\ mem' = WriteU32(mem, a, w)

Next ==
    \E a \in Targets, w \in Words :
        StoreByte(a, w) \/ StoreHalf(a, w) \/ StoreWord(a, w)

Spec == Init /\ [][Next]_vars

--------------------------------------------------------------------------------
Contents == [firmware : Array(SegmentSize), dram : Array(SegmentSize),
             uart : Array(IoSegmentSize), tx : Seq(Byte)]

(* Arrays stay arrays of bytes, and the UART prints bytes. *)
MemoryTypeOK ==
    /\ mem \in Contents
    /\ last \in {NoStore} \cup [size : {1, 2, 4}, at : Address, word : Word]
    /\ stores \in 0 .. MaxStores

(* The cell of storage that a byte access to a reaches, or Nowhere. *)
Nowhere == <<"nowhere">>

Location(a) ==
    LET word == (a[2] - (a[2] % 4)) % IoSegmentSize
    IN  CASE a[1] \in FirmwareSegments -> <<"firmware", a[2]>>
          [] a[1] \in DramSegments     -> <<"dram", a[2]>>
          [] a[1] \in MmioSegments /\ IsUart(a[2]) /\ word \notin Registers
                                       -> <<"uart", a[2] % IoSegmentSize>>
          [] OTHER                     -> Nowhere

IsTransmit(a) ==
    a[1] \in MmioSegments /\ IsUart(a[2]) /\ a[2] % IoSegmentSize < 4

Shown == [x \in Address |-> ReadU8(mem, x)]

Flat == INSTANCE FlatMemory WITH view <- Shown, sent <- mem.tx

(* The memory map is a flat store of bytes: a store of any size through    *)
(* any mirror changes the bytes it covers, in all mirrors, and no other    *)
(* visible byte; stores to the transmit word print one character each.     *)
IsFlatMemory == Flat!Spec

(* A load of the same size and offset, through the same or another mirror, *)
(* gives back what the last store wrote, wherever there is storage.  Of a  *)
(* halfword at byte 3 only the low byte is kept and the rest reads zero.   *)
Mirrors(a) ==
    {b \in Address : /\ b[2] = a[2]
                     /\ \E s \in {FirmwareSegments, DramSegments, MmioSegments} :
                           {a[1], b[1]} \subseteq s}

ReadsBack ==
    last # NoStore /\ Location(last.at) # Nowhere =>
        \A b \in Mirrors(last.at) :
            CASE last.size = 1 -> ReadU8(mem, b) = last.word[0]
              [] last.size = 2 -> ReadU16(mem, b) =
                                     <<last.word[0], IF Lane(b) = 3 THEN Zero ELSE last.word[1]>>
              [] OTHER         -> ReadU32(mem, b) = last.word

(* Bytes and halfwords, aligned or not, never reach beyond an array: only  *)
(* an unaligned word does.                                                 *)
Beyond(m) ==
    <<[i \in 0 .. 2 |-> m.firmware[SegmentSize + i]],
      [i \in 0 .. 2 |-> m.dram[SegmentSize + i]],
      [i \in 0 .. 2 |-> m.uart[IoSegmentSize + i]]>>

OnlyUnalignedWordsOverrun ==
    [][Beyond(mem)' # Beyond(mem) => last'.size = 4 /\ Lane(last'.at) # 0]_vars
================================================================================
