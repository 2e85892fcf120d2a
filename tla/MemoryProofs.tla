------------------------------ MODULE MemoryProofs ------------------------------
(***************************************************************************)
(* Theorems about Memory for every memory map that satisfies               *)
(* MemoryAssumption: stores keep the arrays' types and can be read back,   *)
(* only unaligned words reach beyond an array, together the regions are    *)
(* one flat memory behind their addresses (FlatMemory), and DRAM is the    *)
(* processor's data memory (CpuMemory).  Last, theorems about Boot, which  *)
(* loads the firmware, for regions, offsets and files of any size.         *)
(***************************************************************************)
EXTENDS CpuMemory, Boot, TLAPS

LEMMA ArrayReadType ==
    ASSUME NEW size \in Nat, NEW array \in Array(size), NEW off \in 0 .. (size - 1)
    PROVE  ArrayRead(array, off) \in Word
  BY DEF Array, ArrayRead, Word

LEMMA ArrayWriteType ==
    ASSUME NEW size \in Nat, NEW array \in Array(size), NEW off \in Nat, NEW w \in Word
    PROVE  ArrayWrite(array, off, w) \in Array(size)
  BY DEF Array, ArrayWrite, Word

LEMMA AlignedType ==
    ASSUME NEW a \in Address
    PROVE  /\ a[1] \in Segment /\ a[2] \in 0 .. (SegmentSize - 1) /\ a[2] \in Nat
           /\ Aligned(a) \in Address
           /\ Aligned(a)[1] = a[1]
           /\ Aligned(a)[2] \in Nat /\ Aligned(a)[2] % 4 = 0
           /\ Lane(a) \in 0 .. 3
  BY MemoryAssumption DEF Address, Aligned, Lane

LEMMA IoOffsetType ==
    ASSUME NEW off \in Nat
    PROVE  off % IoSegmentSize \in 0 .. (IoSegmentSize - 1)
  BY MemoryAssumption

LEMMA FixedWords == ZeroWord \in Word /\ OnesWord \in Word /\ StatusWord \in Word
  BY MemoryAssumption DEF ZeroWord, OnesWord, StatusWord, Word

LEMMA ReadType ==
    ASSUME NEW m \in Contents, NEW a \in Address
    PROVE  ReadU32(m, a) \in Word
  <1>1. a[2] \in 0 .. (SegmentSize - 1) /\ a[2] \in Nat /\ SegmentSize \in Nat
    BY AlignedType, MemoryAssumption
  <1>2. /\ m.firmware \in Array(SegmentSize) /\ m.dram \in Array(SegmentSize)
        /\ m.uart \in Array(IoSegmentSize)
    BY DEF Contents
  <1>3. ArrayRead(m.firmware, a[2]) \in Word /\ ArrayRead(m.dram, a[2]) \in Word
    BY <1>1, <1>2, ArrayReadType
  <1>4. ArrayRead(m.uart, a[2] % IoSegmentSize) \in Word
    BY <1>1, <1>2, IoOffsetType, ArrayReadType, MemoryAssumption
  <1>5. IoRead(m, a[2]) \in Word
    BY <1>4, FixedWords DEF IoRead, UartRead
  <1> QED
    BY <1>3, <1>5, FixedWords DEF ReadU32

LEMMA WriteType ==
    ASSUME NEW m \in Contents, NEW a \in Address, NEW w \in Word
    PROVE  WriteU32(m, a, w) \in Contents
  <1>1. a[2] \in Nat /\ SegmentSize \in Nat /\ IoSegmentSize \in Nat
        /\ a[2] % IoSegmentSize \in Nat
    BY AlignedType, IoOffsetType, MemoryAssumption
  <1>2. /\ m.firmware \in Array(SegmentSize) /\ m.dram \in Array(SegmentSize)
        /\ m.uart \in Array(IoSegmentSize)
    BY DEF Contents
  <1>3. /\ ArrayWrite(m.firmware, a[2], w) \in Array(SegmentSize)
        /\ ArrayWrite(m.dram, a[2], w) \in Array(SegmentSize)
        /\ ArrayWrite(m.uart, a[2] % IoSegmentSize, w) \in Array(IoSegmentSize)
    BY <1>1, <1>2, ArrayWriteType
  <1>4. Append(m.tx, w[0]) \in Seq(Byte)
    BY DEF Contents, Word
  <1>5. /\ [m EXCEPT !.firmware = ArrayWrite(@, a[2], w)] \in Contents
        /\ [m EXCEPT !.dram = ArrayWrite(@, a[2], w)] \in Contents
        /\ [m EXCEPT !.uart = ArrayWrite(@, a[2] % IoSegmentSize, w)] \in Contents
        /\ [m EXCEPT !.tx = Append(@, w[0])] \in Contents
    BY <1>3, <1>4 DEF Contents
  <1>6. IoWrite(m, a[2], w) \in Contents
    BY <1>5 DEF IoWrite, UartWrite
  <1> QED
    BY <1>5, <1>6 DEF WriteU32

LEMMA MergedType ==
    ASSUME NEW m \in Contents, NEW a \in Address, NEW size \in {1, 2}, NEW w \in Word
    PROVE  Merged(m, a, size, w) \in Word
  <1>1. ReadU32(m, Aligned(a)) \in Word /\ Lane(a) \in 0 .. 3
    BY AlignedType, ReadType
  <1> QED
    BY <1>1 DEF Merged, Word

(* Every store leaves arrays of bytes of the same size, and the UART has   *)
(* printed bytes only.                                                     *)
THEOREM MemoryTypeCorrect == Spec => []MemoryTypeOK
  <1>1. Init => MemoryTypeOK
    <2> SUFFICES ASSUME Init PROVE MemoryTypeOK
      OBVIOUS
    <2>1. PICK image \in Images, tail \in HeapTail :
             mem = [firmware |-> image,
                    dram     |-> Cleared(SegmentSize, tail),
                    uart     |-> Cleared(IoSegmentSize, tail),
                    tx       |-> <<>>]
      BY DEF Init
    <2>2. /\ Cleared(SegmentSize, tail) \in Array(SegmentSize)
          /\ Cleared(IoSegmentSize, tail) \in Array(IoSegmentSize)
          /\ image \in Array(SegmentSize)
      BY MemoryAssumption DEF Cleared, Array
    <2> QED
      BY <2>1, <2>2, MemoryAssumption DEF Init, MemoryTypeOK, Contents
  <1>2. MemoryTypeOK /\ [Next]_vars => MemoryTypeOK'
    <2> SUFFICES ASSUME MemoryTypeOK, [Next]_vars PROVE MemoryTypeOK'
      OBVIOUS
    <2>1. CASE Next
      <3>1. PICK a \in Targets, w \in Words :
               StoreByte(a, w) \/ StoreHalf(a, w) \/ StoreWord(a, w)
        BY <2>1 DEF Next
      <3>2. /\ mem \in Contents /\ a \in Address /\ w \in Word
            /\ Aligned(a) \in Address
        BY MemoryAssumption, AlignedType DEF MemoryTypeOK
      <3>3. /\ WriteU8(mem, a, w) \in Contents
            /\ WriteU16(mem, a, w) \in Contents
            /\ WriteU32(mem, a, w) \in Contents
        BY <3>2, MergedType, WriteType DEF WriteU8, WriteU16
      <3>4. mem' \in Contents
        BY <3>1, <3>3 DEF StoreByte, StoreHalf, StoreWord
      <3>5. \E size \in {1, 2, 4} : Did(size, a, w)
        BY <3>1 DEF StoreByte, StoreHalf, StoreWord
      <3> QED
        BY <3>2, <3>4, <3>5, MemoryAssumption DEF MemoryTypeOK, Did
    <2>2. CASE UNCHANGED vars
      BY <2>2 DEF vars, MemoryTypeOK
    <2> QED
      BY <2>1, <2>2
  <1> QED
    BY <1>1, <1>2, PTL DEF Spec

--------------------------------------------------------------------------------
(* Aligned words end inside their segment, in the map and in the I/O region. *)

LEMMA AlignedFits ==
    ASSUME NEW off \in Nat, off % 4 = 0, off < SegmentSize
    PROVE  off + 3 < SegmentSize
  BY MemoryAssumption

LEMMA RestOfMultiple ==
    ASSUME NEW s \in Nat \ {0}, s % 4 = 0, NEW x \in Nat, x % 4 = 0,
           NEW q \in Int, NEW r \in 0 .. (s - 1), x = s * q + r
    PROVE  r + 3 < s
  <1>1. PICK k \in Int : s = 4 * k
    OBVIOUS
  <1>2. PICK n \in Int : x = 4 * n
    OBVIOUS
  <1>3. r = 4 * (n - k * q) /\ k * q \in Int
    BY <1>1, <1>2
  <1> QED
    BY <1>1, <1>3

LEMMA AlignedFitsIo ==
    ASSUME NEW off \in Nat, off % 4 = 0
    PROVE  (off % IoSegmentSize) + 3 < IoSegmentSize
  <1>1. IoSegmentSize \in Nat \ {0} /\ IoSegmentSize % 4 = 0
    BY MemoryAssumption
  <1>2. \A q, r : q = off \div IoSegmentSize /\ r = off % IoSegmentSize => r + 3 < IoSegmentSize
    <2> SUFFICES ASSUME NEW q, NEW r, q = off \div IoSegmentSize, r = off % IoSegmentSize
                 PROVE  r + 3 < IoSegmentSize
      OBVIOUS
    <2>1. q \in Int /\ r \in 0 .. (IoSegmentSize - 1) /\ off = IoSegmentSize * q + r
      BY <1>1
    <2> QED
      BY <1>1, <2>1, RestOfMultiple
  <1> QED
    BY <1>2

LEMMA ArrayWriteInside ==
    ASSUME NEW size \in Nat, NEW array \in Array(size), NEW off \in Nat, NEW w \in Word,
           off + 3 < size, NEW i \in 0 .. 2
    PROVE  ArrayWrite(array, off, w)[size + i] = array[size + i]
  BY DEF Array, ArrayWrite

LEMMA AlignedStoresStayInside ==
    ASSUME NEW m \in Contents, NEW a \in Address, a[2] % 4 = 0, NEW w \in Word
    PROVE  Beyond(WriteU32(m, a, w)) = Beyond(m)
  <1> DEFINE f == ArrayWrite(m.firmware, a[2], w)
             d == ArrayWrite(m.dram, a[2], w)
             u == ArrayWrite(m.uart, a[2] % IoSegmentSize, w)
  <1>1. /\ a[2] \in Nat /\ a[2] + 3 < SegmentSize /\ SegmentSize \in Nat
        /\ a[2] % IoSegmentSize \in Nat /\ (a[2] % IoSegmentSize) + 3 < IoSegmentSize
        /\ IoSegmentSize \in Nat
    <2>1. a[2] \in Nat /\ a[2] < SegmentSize /\ IoSegmentSize \in Nat /\ SegmentSize \in Nat
      BY AlignedType, MemoryAssumption
    <2> QED
      BY <2>1, AlignedFits, AlignedFitsIo, IoOffsetType
  <1>2. /\ m.firmware \in Array(SegmentSize) /\ m.dram \in Array(SegmentSize)
        /\ m.uart \in Array(IoSegmentSize)
    BY DEF Contents
  <1>3. \A i \in 0 .. 2 : /\ f[SegmentSize + i] = m.firmware[SegmentSize + i]
                          /\ d[SegmentSize + i] = m.dram[SegmentSize + i]
                          /\ u[IoSegmentSize + i] = m.uart[IoSegmentSize + i]
    BY <1>1, <1>2, ArrayWriteInside
  <1> HIDE DEF f, d, u
  <1>4. /\ Beyond([m EXCEPT !.firmware = f]) = Beyond(m)
        /\ Beyond([m EXCEPT !.dram = d]) = Beyond(m)
        /\ Beyond([m EXCEPT !.uart = u]) = Beyond(m)
        /\ Beyond([m EXCEPT !.tx = Append(m.tx, w[0])]) = Beyond(m)
    BY <1>3 DEF Beyond, Contents
  <1>5. Beyond(IoWrite(m, a[2], w)) = Beyond(m)
    BY <1>4 DEF IoWrite, UartWrite, u
  <1> QED
    BY <1>4, <1>5 DEF WriteU32, f, d

(* Whatever the map, a byte or halfword store, or an aligned word store,   *)
(* changes nothing beyond the end of an array.                             *)
THEOREM OverrunsAreUnalignedWords == Spec => OnlyUnalignedWordsOverrun
  <1>1. MemoryTypeOK /\ [Next]_vars =>
          [Beyond(mem)' # Beyond(mem) => last'.size = 4 /\ Lane(last'.at) # 0]_vars
    <2> SUFFICES ASSUME MemoryTypeOK, Next
                 PROVE  Beyond(mem)' # Beyond(mem) => last'.size = 4 /\ Lane(last'.at) # 0
      OBVIOUS
    <2>1. PICK a \in Targets, w \in Words :
             StoreByte(a, w) \/ StoreHalf(a, w) \/ StoreWord(a, w)
      BY DEF Next
    <2>2. /\ mem \in Contents /\ a \in Address /\ w \in Word
          /\ Aligned(a) \in Address /\ Aligned(a)[2] % 4 = 0
      BY MemoryAssumption, AlignedType DEF MemoryTypeOK
    <2>3. CASE StoreByte(a, w)
      <3>1. Beyond(WriteU8(mem, a, w)) = Beyond(mem)
        BY <2>2, MergedType, AlignedStoresStayInside DEF WriteU8
      <3> QED
        BY <2>3, <3>1 DEF StoreByte
    <2>4. CASE StoreHalf(a, w)
      <3>1. Beyond(WriteU16(mem, a, w)) = Beyond(mem)
        BY <2>2, MergedType, AlignedStoresStayInside DEF WriteU16
      <3> QED
        BY <2>4, <3>1 DEF StoreHalf
    <2>5. CASE StoreWord(a, w)
      <3>1. last'.size = 4 /\ last'.at = a /\ mem' = WriteU32(mem, a, w)
        BY <2>5 DEF StoreWord, Did
      <3>2. CASE a[2] % 4 = 0
        BY <2>2, <3>1, <3>2, AlignedStoresStayInside
      <3>3. CASE a[2] % 4 # 0
        BY <3>1, <3>3 DEF Lane
      <3> QED
        BY <3>2, <3>3
    <2> QED
      BY <2>1, <2>3, <2>4, <2>5
  <1> QED
    BY <1>1, MemoryTypeCorrect, PTL DEF Spec, OnlyUnalignedWordsOverrun

--------------------------------------------------------------------------------
(* Offsets: the word around an address is in the same I/O segment. *)

LEMMA Division ==
    ASSUME NEW s \in Nat \ {0}, NEW x \in Nat
    PROVE  /\ x \div s \in Int /\ x % s \in 0 .. (s - 1)
           /\ x = s * (x \div s) + (x % s)
  OBVIOUS

LEMMA DivisionUnique ==
    ASSUME NEW s \in Nat \ {0}, NEW p \in Int, NEW q \in Int,
           NEW r \in 0 .. (s - 1), NEW t \in 0 .. (s - 1), s * p + r = s * q + t
    PROVE  p = q /\ r = t
  <1>1. s * (p - q) = t - r /\ t - r < s /\ t - r > 0 - s /\ p - q \in Int
    OBVIOUS
  <1>2. ASSUME p - q >= 1 PROVE FALSE
    <2>1. s * (p - q) >= s * 1
      BY <1>1, <1>2
    <2> QED
      BY <1>1, <2>1
  <1>3. ASSUME p - q <= 0 - 1 PROVE FALSE
    <2>1. s * (p - q) <= s * (0 - 1)
      BY <1>1, <1>3
    <2> QED
      BY <1>1, <2>1
  <1> QED
    BY <1>1, <1>2, <1>3

LEMMA DivisionIs ==
    ASSUME NEW s \in Nat \ {0}, NEW x \in Nat, NEW q \in Int, NEW r \in 0 .. (s - 1),
           x = s * q + r
    PROVE  x \div s = q /\ x % s = r
  BY Division, DivisionUnique

(* An aligned word and the bytes in it have the same quotient by a multiple *)
(* of four, and remainders that differ as they do.                          *)
LEMMA WordTogether ==
    ASSUME NEW s \in Nat \ {0}, s % 4 = 0, NEW x \in Nat, x % 4 = 0, NEW i \in 0 .. 3
    PROVE  /\ (x + i) \div s = x \div s
           /\ (x + i) % s = (x % s) + i
           /\ (x % s) % 4 = 0
           /\ (x % s) + 3 < s
  <1> DEFINE q == x \div s
             r == x % s
  <1>1. q \in Int /\ r \in 0 .. (s - 1) /\ x = s * q + r
    BY Division
  <1> HIDE DEF q, r
  <1>2. r + 3 < s
    BY <1>1, RestOfMultiple
  <1>3. PICK k \in Int : s = 4 * k
    OBVIOUS
  <1>4. PICK n \in Int : x = 4 * n
    OBVIOUS
  <1>5. r = 4 * (n - k * q) /\ k * q \in Int
    BY <1>1, <1>3, <1>4
  <1>6. r % 4 = 0
    BY <1>1, <1>5
  <1>7. r + i \in 0 .. (s - 1) /\ x + i = s * q + (r + i) /\ x + i \in Nat
    BY <1>1, <1>2
  <1>8. (x + i) \div s = q /\ (x + i) % s = r + i
    BY <1>1, <1>7, DivisionIs
  <1> QED
    BY <1>2, <1>6, <1>8 DEF q, r

LEMMA Around ==
    ASSUME NEW x \in Nat
    PROVE  /\ x - (x % 4) \in Nat /\ (x - (x % 4)) % 4 = 0 /\ x % 4 \in 0 .. 3
           /\ x = (x - (x % 4)) + (x % 4)
  OBVIOUS

--------------------------------------------------------------------------------
(* What a byte access shows: the cell behind the address, or nothing that   *)
(* stores change.                                                           *)

Cell(m, x) ==
    CASE x[1] \in FirmwareSegments -> m.firmware[x[2]]
      [] x[1] \in DramSegments     -> m.dram[x[2]]
      [] OTHER                     -> m.uart[x[2] % IoSegmentSize]

LEMMA Places ==
    ASSUME NEW x \in Address
    PROVE  LET word == (x[2] - (x[2] % 4)) % IoSegmentSize
               loc == Location(x)
           IN  \/ x[1] \in FirmwareSegments /\ loc = <<"firmware", x[2]>>
               \/ /\ x[1] \notin FirmwareSegments /\ x[1] \in DramSegments
                  /\ loc = <<"dram", x[2]>>
               \/ /\ x[1] \notin FirmwareSegments /\ x[1] \notin DramSegments
                  /\ x[1] \in MmioSegments /\ IsUart(x[2]) /\ word \notin Registers
                  /\ loc = <<"uart", x[2] % IoSegmentSize>>
               \/ /\ x[1] \notin FirmwareSegments /\ x[1] \notin DramSegments
                  /\ ~(x[1] \in MmioSegments /\ IsUart(x[2]) /\ word \notin Registers)
                  /\ loc = Nowhere
  BY MemoryAssumption DEF Location

LEMMA NowhereElse ==
    ASSUME NEW n
    PROVE  <<"firmware", n>> # Nowhere /\ <<"dram", n>> # Nowhere /\ <<"uart", n>> # Nowhere
  BY DEF Nowhere

LEMMA PlaceParts ==
    ASSUME NEW x \in Address, Location(x) # Nowhere
    PROVE  /\ Location(x)[1] = IF x[1] \in FirmwareSegments THEN "firmware"
                              ELSE IF x[1] \in DramSegments THEN "dram" ELSE "uart"
           /\ Location(x)[2] = IF x[1] \in FirmwareSegments \cup DramSegments THEN x[2]
                              ELSE x[2] % IoSegmentSize
           /\ x[1] \notin FirmwareSegments \cup DramSegments =>
                 /\ x[1] \in MmioSegments /\ IsUart(x[2])
                 /\ (x[2] - (x[2] % 4)) % IoSegmentSize \notin Registers
  BY Places

LEMMA ReadsFrom ==
    ASSUME NEW m, NEW s, NEW off
    PROVE  /\ s \in FirmwareSegments => ReadU32(m, <<s, off>>) = ArrayRead(m.firmware, off)
           /\ s \in DramSegments => ReadU32(m, <<s, off>>) = ArrayRead(m.dram, off)
           /\ s \in MmioSegments => ReadU32(m, <<s, off>>) = IoRead(m, off)
           /\ s \notin FirmwareSegments \cup DramSegments \cup MmioSegments
                 => ReadU32(m, <<s, off>>) = OnesWord
  BY MemoryAssumption DEF ReadU32

LEMMA WordAround ==
    ASSUME NEW x \in Address
    PROVE  LET al == x[2] - (x[2] % 4)
               lane == x[2] % 4
           IN  /\ x[2] \in Nat /\ al \in Nat /\ lane \in 0 .. 3 /\ x[2] = al + lane
               /\ al % 4 = 0 /\ al + 3 < SegmentSize
               /\ al % IoSegmentSize \in Nat /\ (al % IoSegmentSize) % 4 = 0
               /\ (al % IoSegmentSize) + 3 < IoSegmentSize
               /\ x[2] % IoSegmentSize = (al % IoSegmentSize) + lane
               /\ IsUart(al) = IsUart(x[2])
               /\ Aligned(x) = <<x[1], al>> /\ Lane(x) = lane
  <1> DEFINE al == x[2] - (x[2] % 4)
             lane == x[2] % 4
  <1>1. x[2] \in Nat /\ x[2] < SegmentSize /\ IoSegmentSize \in Nat \ {0} /\ IoSegmentSize % 4 = 0
    BY AlignedType, MemoryAssumption
  <1>2. Aligned(x) = <<x[1], al>> /\ Lane(x) = lane
    BY DEF Aligned, Lane
  <1>3. al \in Nat /\ al % 4 = 0 /\ lane \in 0 .. 3 /\ x[2] = al + lane
    BY <1>1, Around
  <1> HIDE DEF al, lane
  <1>4. al + 3 < SegmentSize
    BY <1>1, <1>3, AlignedFits, MemoryAssumption
  <1>5. /\ (al + lane) \div IoSegmentSize = al \div IoSegmentSize
        /\ (al + lane) % IoSegmentSize = (al % IoSegmentSize) + lane
        /\ (al % IoSegmentSize) % 4 = 0
        /\ (al % IoSegmentSize) + 3 < IoSegmentSize
    BY <1>1, <1>3, WordTogether
  <1>6. al % IoSegmentSize \in Nat
    BY <1>3, IoOffsetType, MemoryAssumption
  <1>7. IsUart(al) = IsUart(x[2])
    BY <1>3, <1>5 DEF IsUart
  <1> QED
    BY <1>1, <1>2, <1>3, <1>4, <1>5, <1>6, <1>7 DEF al, lane

LEMMA ByteShown ==
    ASSUME NEW m \in Contents, NEW x \in Address, Location(x) # Nowhere
    PROVE  ReadU8(m, x) = Cell(m, x)
  <1> DEFINE al == x[2] - (x[2] % 4)
             lane == x[2] % 4
  <1>1. /\ x[2] = al + lane /\ lane \in 0 .. 3 /\ al \in Nat
        /\ x[2] % IoSegmentSize = (al % IoSegmentSize) + lane
        /\ al % IoSegmentSize \in Nat
        /\ IsUart(al) = IsUart(x[2])
    BY WordAround
  <1>2. ReadU8(m, x) = ReadU32(m, <<x[1], al>>)[lane]
    BY WordAround DEF ReadU8
  <1> HIDE DEF al, lane
  <1>3. CASE x[1] \in FirmwareSegments
    <2>1. ReadU32(m, <<x[1], al>>) = ArrayRead(m.firmware, al)
      BY <1>3, ReadsFrom
    <2> QED
      BY <1>1, <1>2, <1>3, <2>1, MemoryAssumption DEF ArrayRead, Cell
  <1>4. CASE x[1] \notin FirmwareSegments /\ x[1] \in DramSegments
    <2>1. ReadU32(m, <<x[1], al>>) = ArrayRead(m.dram, al)
      BY <1>4, ReadsFrom
    <2> QED
      BY <1>1, <1>2, <1>4, <2>1 DEF ArrayRead, Cell
  <1>5. CASE x[1] \notin FirmwareSegments /\ x[1] \notin DramSegments
    <2>1. x[1] \in MmioSegments /\ IsUart(x[2]) /\ al % IoSegmentSize \notin Registers
      BY <1>5, Places DEF al
    <2>2. ReadU32(m, <<x[1], al>>) = ArrayRead(m.uart, al % IoSegmentSize)
      BY <1>1, <1>5, <2>1 DEF ReadU32, IoRead, UartRead, Registers
    <2> QED
      BY <1>1, <1>2, <1>5, <2>2 DEF ArrayRead, Cell
  <1> QED
    BY <1>3, <1>4, <1>5

LEMMA NothingShown ==
    ASSUME NEW m, NEW n, NEW x \in Address, Location(x) = Nowhere
    PROVE  ReadU8(m, x) = ReadU8(n, x)
  <1> DEFINE al == x[2] - (x[2] % 4)
  <1>1. /\ IsUart(al) = IsUart(x[2])
        /\ Aligned(x) = <<x[1], al>>
    BY WordAround
  <1>2. /\ x[1] \notin FirmwareSegments /\ x[1] \notin DramSegments
        /\ ~(x[1] \in MmioSegments /\ IsUart(x[2]) /\ al % IoSegmentSize \notin Registers)
    BY Places, NowhereElse
  <1> HIDE DEF al
  <1>3. ReadU32(m, <<x[1], al>>) = ReadU32(n, <<x[1], al>>)
    BY <1>1, <1>2 DEF ReadU32, IoRead, UartRead
  <1> QED
    BY <1>1, <1>3 DEF ReadU8

(* Addresses with the same cell have the same offset. *)
LEMMA SamePlace ==
    ASSUME NEW x \in Address, NEW y \in Address,
           Location(x) = Location(y), Location(x) # Nowhere
    PROVE  /\ x[2] = y[2]
           /\ (x[1] \in FirmwareSegments) = (y[1] \in FirmwareSegments)
           /\ (x[1] \in DramSegments) = (y[1] \in DramSegments)
           /\ x[1] \in MmioSegments => y[1] \in MmioSegments
  <1>1. Location(y) # Nowhere
    OBVIOUS
  <1>2. /\ IoSegmentSize \in Nat \ {0} /\ x[2] \in Nat /\ y[2] \in Nat
        /\ DramSegments \cap FirmwareSegments = {} /\ MmioSegments \cap FirmwareSegments = {}
        /\ MmioSegments \cap DramSegments = {}
    BY MemoryAssumption, AlignedType
  <1>3. /\ (x[1] \in FirmwareSegments) = (y[1] \in FirmwareSegments)
        /\ (x[1] \in DramSegments) = (y[1] \in DramSegments)
        /\ Location(x)[2] = Location(y)[2]
    BY <1>1, <1>2, PlaceParts
  <1>4. CASE x[1] \in FirmwareSegments \cup DramSegments
    BY <1>1, <1>2, <1>3, <1>4, PlaceParts
  <1>5. CASE x[1] \notin FirmwareSegments \cup DramSegments
    <2>1. /\ IsUart(x[2]) /\ IsUart(y[2]) /\ y[1] \in MmioSegments
          /\ x[2] % IoSegmentSize = y[2] % IoSegmentSize
      BY <1>1, <1>3, <1>5, PlaceParts
    <2>2. x[2] = y[2]
      <3>1. x[2] = IoSegmentSize * UartSegment + (x[2] % IoSegmentSize)
        BY <1>2, <2>1, Division, Zenon DEF IsUart
      <3>2. y[2] = IoSegmentSize * UartSegment + (y[2] % IoSegmentSize)
        BY <1>2, <2>1, Division, Zenon DEF IsUart
      <3> QED
        BY <2>1, <3>1, <3>2, Zenon
    <2> QED
      BY <1>3, <1>5, <2>1, <2>2
  <1> QED
    BY <1>4, <1>5

(* Segments that mirror each other. *)
SameKind(s, t) ==
    \/ s \in FirmwareSegments /\ t \in FirmwareSegments
    \/ s \in DramSegments /\ t \in DramSegments
    \/ s \in MmioSegments /\ t \in MmioSegments

LEMMA KindsDisjoint ==
    ASSUME NEW s, NEW t
    PROVE  /\ s \in FirmwareSegments => (SameKind(s, t) <=> t \in FirmwareSegments)
           /\ s \in DramSegments => (SameKind(s, t) <=> t \in DramSegments)
           /\ s \in MmioSegments => (SameKind(s, t) <=> t \in MmioSegments)
           /\ s \notin FirmwareSegments \cup DramSegments \cup MmioSegments => ~SameKind(s, t)
           /\ s \in FirmwareSegments => s \notin DramSegments /\ s \notin MmioSegments
           /\ s \in DramSegments => s \notin FirmwareSegments /\ s \notin MmioSegments
           /\ s \in MmioSegments => s \notin FirmwareSegments /\ s \notin DramSegments
  <1>1. /\ s \in FirmwareSegments => s \notin DramSegments /\ s \notin MmioSegments
        /\ s \in DramSegments => s \notin FirmwareSegments /\ s \notin MmioSegments
        /\ s \in MmioSegments => s \notin FirmwareSegments /\ s \notin DramSegments
    BY MemoryAssumption
  <1> QED
    BY <1>1, Zenon DEF SameKind

LEMMA WritesTo ==
    ASSUME NEW m, NEW a, NEW w
    PROVE  /\ a[1] \in FirmwareSegments =>
                WriteU32(m, a, w) = [m EXCEPT !.firmware = ArrayWrite(m.firmware, a[2], w)]
           /\ a[1] \in DramSegments =>
                WriteU32(m, a, w) = [m EXCEPT !.dram = ArrayWrite(m.dram, a[2], w)]
           /\ a[1] \in MmioSegments => WriteU32(m, a, w) = IoWrite(m, a[2], w)
           /\ a[1] \notin FirmwareSegments \cup DramSegments \cup MmioSegments
                => WriteU32(m, a, w) = m
  BY KindsDisjoint DEF WriteU32

LEMMA ArrayAfter ==
    ASSUME NEW size \in Nat, NEW array \in Array(size), NEW off \in Nat, NEW w \in Word,
           NEW c \in 0 .. (size - 1)
    PROVE  ArrayWrite(array, off, w)[c] =
              IF c \in off .. (off + 3) THEN w[c - off] ELSE array[c]
  BY DEF Array, ArrayWrite

LEMMA UartOffset ==
    ASSUME NEW x \in Nat, IsUart(x)
    PROVE  /\ UartSegment \in Int
           /\ x % IoSegmentSize \in 0 .. (IoSegmentSize - 1)
           /\ x = IoSegmentSize * UartSegment + (x % IoSegmentSize)
  <1>1. IoSegmentSize \in Nat \ {0}
    BY MemoryAssumption
  <1>2. /\ x \div IoSegmentSize \in Int /\ x % IoSegmentSize \in 0 .. (IoSegmentSize - 1)
        /\ x = IoSegmentSize * (x \div IoSegmentSize) + (x % IoSegmentSize)
    BY <1>1, Division, Zenon
  <1> QED
    BY <1>2, Zenon DEF IsUart

(* A word that begins outside the UART's registers' words, or at one of     *)
(* them, does not reach the storage behind.                                 *)
LEMMA OutsideUart ==
    ASSUME NEW x \in Address, IsUart(x[2]),
           (x[2] - (x[2] % 4)) % IoSegmentSize \notin Registers,
           NEW a2 \in Nat, x[2] \in a2 .. (a2 + 3)
    PROVE  IsUart(a2) /\ a2 % IoSegmentSize \notin Registers
  <1>0. x[2] - a2 \in 0 .. 3 /\ a2 = x[2] - (x[2] - a2)
    <2>1. x[2] \in Nat
      BY AlignedType
    <2> QED
      BY <2>1
  <1> DEFINE al == x[2] - (x[2] % 4)
             lane == x[2] % 4
             b == al % IoSegmentSize
             i == x[2] - a2
  <1>1. /\ x[2] \in Nat /\ al \in Nat /\ lane \in 0 .. 3 /\ x[2] = al + lane
        /\ b \in Nat /\ b % 4 = 0 /\ b + 3 < IoSegmentSize
        /\ x[2] % IoSegmentSize = b + lane
    BY WordAround
  <1>2. IoSegmentSize \in Nat \ {0} /\ x[2] \in Nat
    BY MemoryAssumption, AlignedType
  <1>3. UartSegment \in Int /\ x[2] = IoSegmentSize * UartSegment + (x[2] % IoSegmentSize)
    BY <1>1, UartOffset
  <1>4. b \notin Registers
    OBVIOUS
  <1>5. i \in 0 .. 3 /\ a2 = x[2] - i
    BY <1>0
  <1> HIDE DEF al, lane, b, i
  <1>6. b >= 4
    BY <1>1, <1>4 DEF Registers, TxRegister
  <1>7. /\ b + lane - i \in 0 .. (IoSegmentSize - 1)
        /\ a2 = IoSegmentSize * UartSegment + (b + lane - i)
    BY <1>1, <1>2, <1>3, <1>5, <1>6
  <1>8. a2 \div IoSegmentSize = UartSegment /\ a2 % IoSegmentSize = b + lane - i
    BY <1>2, <1>3, <1>7, DivisionIs
  <1>9. ASSUME b + lane - i \in Registers PROVE FALSE
    <2>1. (b + lane - i) % 4 = 0
      BY <1>9 DEF Registers, TxRegister, StatusRegister
    <2>2. i = lane \/ i = lane - 4 \/ i = lane + 4
      BY <1>1, <1>5, <2>1
    <2> QED
      BY <1>1, <1>4, <1>5, <1>9, <2>2
  <1> QED
    BY <1>8, <1>9 DEF IsUart

LEMMA IoWriteParts ==
    ASSUME NEW m \in Contents, NEW off \in Nat, NEW w \in Word
    PROVE  LET n == IoWrite(m, off, w)
           IN  /\ n.firmware = m.firmware /\ n.dram = m.dram
               /\ n.uart = IF IsUart(off) /\ off % IoSegmentSize \notin Registers
                           THEN ArrayWrite(m.uart, off % IoSegmentSize, w) ELSE m.uart
  <1>1. TxRegister \in Registers
    BY DEF Registers
  <1>2. CASE ~IsUart(off)
    BY <1>2 DEF IoWrite
  <1>3. CASE IsUart(off) /\ off % IoSegmentSize \in Registers
    BY <1>3 DEF IoWrite, UartWrite, Contents
  <1>4. CASE IsUart(off) /\ off % IoSegmentSize \notin Registers
    BY <1>1, <1>4 DEF IoWrite, UartWrite, Contents
  <1> QED
    BY <1>2, <1>3, <1>4

LEMMA CellParts ==
    ASSUME NEW m, NEW x
    PROVE  /\ x[1] \in FirmwareSegments => Cell(m, x) = m.firmware[x[2]]
           /\ x[1] \in DramSegments => Cell(m, x) = m.dram[x[2]]
           /\ x[1] \notin FirmwareSegments \cup DramSegments =>
                 Cell(m, x) = m.uart[x[2] % IoSegmentSize]
  BY KindsDisjoint DEF Cell

(* The cell behind x after a word has been stored at a. *)
LEMMA CellAfter ==
    ASSUME NEW m \in Contents, NEW a \in Address, NEW w \in Word,
           NEW x \in Address, Location(x) # Nowhere
    PROVE  Cell(WriteU32(m, a, w), x) =
              IF SameKind(a[1], x[1]) /\ x[2] \in a[2] .. (a[2] + 3)
              THEN w[x[2] - a[2]] ELSE Cell(m, x)
  <1> SUFFICES ASSUME NEW n, n = WriteU32(m, a, w)
               PROVE  Cell(n, x) = IF SameKind(a[1], x[1]) /\ x[2] \in a[2] .. (a[2] + 3)
                                   THEN w[x[2] - a[2]] ELSE Cell(m, x)
    OBVIOUS
  <1>1. /\ a[2] \in Nat /\ x[2] \in Nat /\ a = <<a[1], a[2]>> /\ x[2] \in 0 .. (SegmentSize - 1)
        /\ SegmentSize \in Nat /\ IoSegmentSize \in Nat \ {0}
        /\ a[2] % IoSegmentSize \in Nat
        /\ x[2] % IoSegmentSize \in 0 .. (IoSegmentSize - 1)
    BY AlignedType, IoOffsetType, MemoryAssumption DEF Address
  <1>2. /\ m.firmware \in Array(SegmentSize) /\ m.dram \in Array(SegmentSize)
        /\ m.uart \in Array(IoSegmentSize)
    BY DEF Contents
  <1>3. CASE a[1] \in FirmwareSegments
    <2>1. n = [m EXCEPT !.firmware = ArrayWrite(m.firmware, a[2], w)]
      BY <1>3, WritesTo
    <2>2. /\ n.firmware = ArrayWrite(m.firmware, a[2], w)
          /\ n.dram = m.dram /\ n.uart = m.uart
      BY <2>1 DEF Contents
    <2>3. ArrayWrite(m.firmware, a[2], w)[x[2]] =
             IF x[2] \in a[2] .. (a[2] + 3) THEN w[x[2] - a[2]] ELSE m.firmware[x[2]]
      BY <1>1, <1>2, ArrayAfter
    <2>4. (SameKind(a[1], x[1]) <=> x[1] \in FirmwareSegments)
      BY <1>3, KindsDisjoint
    <2>5. CASE x[1] \in FirmwareSegments
      BY <2>2, <2>3, <2>4, <2>5, CellParts
    <2>6. CASE x[1] \notin FirmwareSegments
      <3>1. Cell(n, x) = Cell(m, x)
        BY <2>2, <2>6, CellParts
      <3> QED
        BY <2>4, <2>6, <3>1
    <2> QED
      BY <2>5, <2>6
  <1>4. CASE a[1] \in DramSegments
    <2>1. n = [m EXCEPT !.dram = ArrayWrite(m.dram, a[2], w)]
      BY <1>4, WritesTo
    <2>2. /\ n.dram = ArrayWrite(m.dram, a[2], w)
          /\ n.firmware = m.firmware /\ n.uart = m.uart
      BY <2>1 DEF Contents
    <2>3. ArrayWrite(m.dram, a[2], w)[x[2]] =
             IF x[2] \in a[2] .. (a[2] + 3) THEN w[x[2] - a[2]] ELSE m.dram[x[2]]
      BY <1>1, <1>2, ArrayAfter
    <2>4. (SameKind(a[1], x[1]) <=> x[1] \in DramSegments)
      BY <1>4, KindsDisjoint
    <2>5. CASE x[1] \in DramSegments
      BY <2>2, <2>3, <2>4, <2>5, CellParts
    <2>6. CASE x[1] \notin DramSegments
      <3>1. Cell(n, x) = Cell(m, x)
        BY <2>2, <2>6, CellParts
      <3> QED
        BY <2>4, <2>6, <3>1
    <2> QED
      BY <2>5, <2>6
  <1>5. CASE a[1] \in MmioSegments
    <2>1. n = IoWrite(m, a[2], w)
      BY <1>5, WritesTo
    <2>2. /\ n.firmware = m.firmware /\ n.dram = m.dram
          /\ n.uart = IF IsUart(a[2]) /\ a[2] % IoSegmentSize \notin Registers
                      THEN ArrayWrite(m.uart, a[2] % IoSegmentSize, w) ELSE m.uart
      BY <1>1, <2>1, IoWriteParts
    <2>3. CASE x[1] \notin MmioSegments
      <3>1. x[1] \in FirmwareSegments \cup DramSegments
        BY <2>3, PlaceParts
      <3>2. Cell(n, x) = Cell(m, x)
        BY <2>2, <3>1, CellParts
      <3>3. ~SameKind(a[1], x[1])
        BY <1>5, <2>3, KindsDisjoint
      <3> QED
        BY <3>2, <3>3
    <2>4. CASE x[1] \in MmioSegments
      <3>1. /\ x[1] \notin FirmwareSegments /\ x[1] \notin DramSegments /\ SameKind(a[1], x[1])
            /\ IsUart(x[2])
            /\ (x[2] - (x[2] % 4)) % IoSegmentSize \notin Registers
        BY <1>5, <2>4, KindsDisjoint, PlaceParts
      <3>2. /\ Cell(n, x) = n.uart[x[2] % IoSegmentSize]
            /\ Cell(m, x) = m.uart[x[2] % IoSegmentSize]
        BY <3>1, CellParts
      <3>3. CASE ~(IsUart(a[2]) /\ a[2] % IoSegmentSize \notin Registers)
        <4>1. x[2] \notin a[2] .. (a[2] + 3)
          BY <1>1, <3>1, <3>3, OutsideUart
        <4> QED
          BY <2>2, <3>2, <3>3, <4>1
      <3>4. CASE IsUart(a[2]) /\ a[2] % IoSegmentSize \notin Registers
        <4> DEFINE c == x[2] % IoSegmentSize
                   o == a[2] % IoSegmentSize
        <4>1. n.uart = ArrayWrite(m.uart, o, w)
          BY <2>2, <3>4
        <4>2. c \in 0 .. (IoSegmentSize - 1) /\ o \in Nat
          BY <1>1
        <4>3. ArrayWrite(m.uart, o, w)[c] = IF c \in o .. (o + 3) THEN w[c - o] ELSE m.uart[c]
          BY <1>1, <1>2, <4>2, ArrayAfter
        <4>4. /\ UartSegment \in Int
              /\ a[2] = IoSegmentSize * UartSegment + o
              /\ x[2] = IoSegmentSize * UartSegment + c
          BY <1>1, <3>1, <3>4, UartOffset
        <4> HIDE DEF c, o
        <4>5. c - o = x[2] - a[2] /\ (c \in o .. (o + 3) <=> x[2] \in a[2] .. (a[2] + 3))
          <5> DEFINE z == IoSegmentSize * UartSegment
          <5>1. z \in Int
            BY <1>1, <4>4
          <5>2. a[2] = z + o /\ x[2] = z + c
            BY <4>4
          <5> HIDE DEF z
          <5> QED
            BY <1>1, <4>2, <5>1, <5>2
        <4>6. Cell(n, x) = n.uart[c] /\ Cell(m, x) = m.uart[c]
          BY <3>2 DEF c
        <4> QED
          BY <3>1, <4>1, <4>3, <4>5, <4>6, Zenon
      <3> QED
        BY <3>3, <3>4
    <2> QED
      BY <2>3, <2>4
  <1>6. CASE a[1] \notin FirmwareSegments \cup DramSegments \cup MmioSegments
    <2>1. n = m
      BY <1>6, WritesTo
    <2> QED
      BY <1>6, <2>1, KindsDisjoint, Zenon
  <1> QED
    BY <1>3, <1>4, <1>5, <1>6

--------------------------------------------------------------------------------
(* Stores of every size: the bytes covered, and the others kept. *)

(* What a store of the given size leaves. *)
Stored(m, size, a, w) ==
    IF size = 4 THEN WriteU32(m, a, w)
    ELSE WriteU32(m, Aligned(a), Merged(m, a, size, w))

(* The bytes a store covers: a halfword's upper byte at byte 3 is lost. *)
Covers(size, a) == IF size = 2 /\ Lane(a) = 3 THEN 1 ELSE size

LEMMA SameWordRead ==
    ASSUME NEW m, NEW s, NEW t, NEW off, SameKind(s, t)
    PROVE  ReadU32(m, <<s, off>>) = ReadU32(m, <<t, off>>)
  BY ReadsFrom, Zenon DEF SameKind

LEMMA LaneOfByte ==
    ASSUME NEW al \in Nat, al % 4 = 0, NEW x \in Nat, x \in al .. (al + 3)
    PROVE  x - (x % 4) = al /\ x % 4 = x - al
  OBVIOUS

LEMMA PartCovered ==
    ASSUME NEW al \in Nat, al % 4 = 0, NEW lane \in 0 .. 3, NEW size \in {1, 2}, NEW x \in Nat,
           NEW n, n = IF size = 2 /\ lane = 3 THEN 1 ELSE size
    PROVE  /\ (x \in (al + lane) .. (al + lane + n - 1))
                 <=> (x \in al .. (al + 3) /\ (x - al) \in lane .. (lane + size - 1))
           /\ x \in al .. (al + 3) => x - al \in 0 .. 3
           /\ (x - al) - lane = x - (al + lane)
  <1>1. CASE size = 1
    BY <1>1
  <1>2. CASE size = 2 /\ lane = 3
    BY <1>2
  <1>3. CASE size = 2 /\ lane # 3
    BY <1>3
  <1> QED
    BY <1>1, <1>2, <1>3

LEMMA CellAfterPart ==
    ASSUME NEW m \in Contents, NEW a \in Address, NEW w \in Word, NEW size \in {1, 2},
           NEW x \in Address, Location(x) # Nowhere
    PROVE  Cell(WriteU32(m, Aligned(a), Merged(m, a, size, w)), x) =
              IF SameKind(a[1], x[1]) /\ x[2] \in a[2] .. (a[2] + Covers(size, a) - 1)
              THEN w[x[2] - a[2]] ELSE Cell(m, x)
  <1> DEFINE al == a[2] - (a[2] % 4)
             lane == a[2] % 4
             v == Merged(m, a, size, w)
             n == WriteU32(m, Aligned(a), v)
             covered == x[2] \in a[2] .. (a[2] + Covers(size, a) - 1)
             inWord == x[2] \in al .. (al + 3)
             i == x[2] - al
  <1> SUFFICES Cell(n, x) = IF SameKind(a[1], x[1]) /\ covered THEN w[x[2] - a[2]] ELSE Cell(m, x)
    OBVIOUS
  <1>1. /\ a[2] \in Nat /\ al \in Nat /\ lane \in 0 .. 3 /\ a[2] = al + lane /\ al % 4 = 0
        /\ Aligned(a) = <<a[1], al>> /\ Lane(a) = lane
    BY WordAround
  <1>2. x[2] \in Nat
    BY AlignedType
  <1>3. Aligned(a) \in Address /\ v \in Word /\ Aligned(a)[1] = a[1] /\ Aligned(a)[2] = al
    BY AlignedType, MergedType DEF Aligned
  <1>4. Cell(n, x) = IF SameKind(a[1], x[1]) /\ inWord THEN v[i] ELSE Cell(m, x)
    BY <1>3, CellAfter
  <1>5. v = [j \in 0 .. 3 |-> IF j \in lane .. (lane + size - 1) THEN w[j - lane]
                              ELSE ReadU32(m, Aligned(a))[j]]
    BY <1>1 DEF Merged
  <1>6. Covers(size, a) = IF size = 2 /\ lane = 3 THEN 1 ELSE size
    BY <1>1 DEF Covers
  <1>7. /\ covered <=> (inWord /\ i \in lane .. (lane + size - 1))
        /\ inWord => i \in 0 .. 3
        /\ i - lane = x[2] - a[2]
    <2> HIDE DEF al, lane
    <2> QED
      <3>1. a[2] = al + lane
        BY <1>1
      <3>2. /\ (x[2] \in (al + lane) .. (al + lane + Covers(size, a) - 1))
                 <=> (x[2] \in al .. (al + 3) /\ (x[2] - al) \in lane .. (lane + size - 1))
            /\ x[2] \in al .. (al + 3) => x[2] - al \in 0 .. 3
            /\ (x[2] - al) - lane = x[2] - (al + lane)
        <4>1. ASSUME NEW y \in Nat, NEW c, c = IF size = 2 /\ lane = 3 THEN 1 ELSE size
              PROVE  /\ (y \in (al + lane) .. (al + lane + c - 1))
                            <=> (y \in al .. (al + 3) /\ (y - al) \in lane .. (lane + size - 1))
                     /\ y \in al .. (al + 3) => y - al \in 0 .. 3
                     /\ (y - al) - lane = y - (al + lane)
          BY <1>1, <4>1, PartCovered
        <4> QED
          BY <1>2, <1>6, <4>1, Zenon
      <3> QED
        BY <3>1, <3>2, Zenon
  <1>8. inWord => x[2] - (x[2] % 4) = al /\ x[2] % 4 = i
    <2> HIDE DEF al
    <2> QED
      BY <1>1, <1>2, LaneOfByte
  <1> HIDE DEF al, lane, v, n, covered, inWord, i
  <1>9. CASE SameKind(a[1], x[1]) /\ covered
    <2>1. v[i] = w[x[2] - a[2]]
      BY <1>5, <1>7, <1>9
    <2> QED
      BY <1>4, <1>7, <1>9, <2>1
  <1>10. CASE SameKind(a[1], x[1]) /\ inWord /\ ~covered
    <2>1. Aligned(x) = <<x[1], al>> /\ Lane(x) = i
      BY <1>8, <1>10 DEF Aligned, Lane
    <2>2. ReadU32(m, Aligned(a)) = ReadU32(m, Aligned(x))
      <3>1. ReadU32(m, <<a[1], al>>) = ReadU32(m, <<x[1], al>>)
        BY <1>10, SameWordRead
      <3> QED
        BY <1>1, <2>1, <3>1
    <2>3. v[i] = ReadU32(m, Aligned(a))[i]
      BY <1>5, <1>7, <1>10
    <2>4. ReadU8(m, x) = ReadU32(m, Aligned(x))[i]
      BY <2>1 DEF ReadU8
    <2>5. v[i] = Cell(m, x)
      BY <2>2, <2>3, <2>4, ByteShown
    <2> QED
      BY <1>4, <1>10, <2>5
  <1>11. CASE ~(SameKind(a[1], x[1]) /\ inWord)
    BY <1>4, <1>7, <1>11
  <1> QED
    BY <1>9, <1>10, <1>11

LEMMA CellAfterStore ==
    ASSUME NEW m \in Contents, NEW a \in Address, NEW w \in Word, NEW size \in {1, 2, 4},
           NEW x \in Address, Location(x) # Nowhere
    PROVE  Cell(Stored(m, size, a, w), x) =
              IF SameKind(a[1], x[1]) /\ x[2] \in a[2] .. (a[2] + Covers(size, a) - 1)
              THEN w[x[2] - a[2]] ELSE Cell(m, x)
  <1>1. CASE size = 4
    <2>1. Stored(m, size, a, w) = WriteU32(m, a, w) /\ a[2] + Covers(size, a) - 1 = a[2] + 3
      BY <1>1, AlignedType DEF Stored, Covers
    <2> QED
      BY <2>1, CellAfter
  <1>2. CASE size \in {1, 2}
    <2>1. Stored(m, size, a, w) = WriteU32(m, Aligned(a), Merged(m, a, size, w))
      BY <1>2 DEF Stored
    <2> QED
      BY <1>2, <2>1, CellAfterPart
  <1> QED
    BY <1>1, <1>2

LEMMA StoredType ==
    ASSUME NEW m \in Contents, NEW a \in Address, NEW w \in Word, NEW size \in {1, 2, 4}
    PROVE  Stored(m, size, a, w) \in Contents
  <1>1. CASE size = 4
    BY <1>1, WriteType DEF Stored
  <1>2. CASE size \in {1, 2}
    BY <1>2, MergedType, WriteType, AlignedType DEF Stored
  <1> QED
    BY <1>1, <1>2

(* A byte shows what was stored over it, and otherwise what it showed. *)
LEMMA ByteAfterStore ==
    ASSUME NEW m \in Contents, NEW a \in Address, NEW w \in Word, NEW size \in {1, 2, 4},
           NEW x \in Address
    PROVE  ReadU8(Stored(m, size, a, w), x) =
              IF /\ Location(x) # Nowhere
                 /\ SameKind(a[1], x[1]) /\ x[2] \in a[2] .. (a[2] + Covers(size, a) - 1)
              THEN w[x[2] - a[2]] ELSE ReadU8(m, x)
  <1>1. CASE Location(x) = Nowhere
    BY <1>1, NothingShown
  <1>2. CASE Location(x) # Nowhere
    BY <1>2, StoredType, ByteShown, CellAfterStore
  <1> QED
    BY <1>1, <1>2

--------------------------------------------------------------------------------
(* Stores to the transmit word. *)

LEMMA WordIsTransmit ==
    ASSUME NEW a \in Address
    PROVE  LET al == a[2] - (a[2] % 4)
           IN  /\ IsTransmit(a) <=>
                     a[1] \in MmioSegments /\ IsUart(al) /\ al % IoSegmentSize = TxRegister
               /\ IsTransmit(a) /\ a[2] % 4 = 0 <=>
                     a[1] \in MmioSegments /\ IsUart(a[2]) /\ a[2] % IoSegmentSize = TxRegister
  <1> DEFINE al == a[2] - (a[2] % 4)
             lane == a[2] % 4
             b == al % IoSegmentSize
  <1>1. /\ lane \in 0 .. 3 /\ b \in Nat /\ b % 4 = 0 /\ a[2] % IoSegmentSize = b + lane
        /\ IsUart(al) = IsUart(a[2])
    BY WordAround
  <1> HIDE DEF al, lane, b
  <1>2. (b + lane < 4 <=> b = 0) /\ (b + lane < 4 /\ lane = 0 <=> b + lane = 0)
    BY <1>1
  <1>3. IsTransmit(a) <=> a[1] \in MmioSegments /\ IsUart(a[2]) /\ b + lane < 4
    BY <1>1 DEF IsTransmit
  <1> QED
    BY <1>1, <1>2, <1>3 DEF TxRegister, al, lane, b

LEMMA Transmits ==
    ASSUME NEW m \in Contents, NEW a \in Address, NEW w \in Word
    PROVE  LET transmitted == /\ a[1] \in MmioSegments /\ IsUart(a[2])
                              /\ a[2] % IoSegmentSize = TxRegister
           IN  /\ transmitted => WriteU32(m, a, w) = [m EXCEPT !.tx = Append(m.tx, w[0])]
               /\ ~transmitted => WriteU32(m, a, w).tx = m.tx
  <1>1. CASE a[1] \notin MmioSegments
    BY <1>1, WritesTo DEF Contents
  <1>2. CASE a[1] \in MmioSegments
    <2>1. WriteU32(m, a, w) = IoWrite(m, a[2], w)
      BY <1>2, WritesTo
    <2>2. CASE IsUart(a[2]) /\ a[2] % IoSegmentSize = TxRegister
      BY <1>2, <2>1, <2>2 DEF IoWrite, UartWrite
    <2>3. CASE ~(IsUart(a[2]) /\ a[2] % IoSegmentSize = TxRegister)
      BY <1>2, <2>1, <2>3 DEF IoWrite, UartWrite, Contents
    <2> QED
      BY <2>2, <2>3
  <1> QED
    BY <1>1, <1>2

LEMMA TransmitReads ==
    ASSUME NEW m, NEW off, NEW s \in MmioSegments, IsUart(off), off % IoSegmentSize = TxRegister
    PROVE  ReadU32(m, <<s, off>>)[0] = Zero
  <1>1. ReadU32(m, <<s, off>>) = IoRead(m, off)
    BY ReadsFrom
  <1> QED
    BY <1>1 DEF IoRead, UartRead, Registers, TxRegister, StatusRegister, ZeroWord

(* A store to the transmit word sends its lowest byte, zero when the bytes  *)
(* stored leave that one out, and changes no byte that can be read; a store *)
(* elsewhere sends nothing.                                                 *)
LEMMA StoredTransmits ==
    ASSUME NEW m \in Contents, NEW a \in Address, NEW w \in Word, NEW size \in {1, 2, 4}
    PROVE  LET n == Stored(m, size, a, w)
               sends == IsTransmit(a) /\ (size = 4 => a[2] % 4 = 0)
           IN  /\ sends => /\ n.tx = Append(m.tx, IF a[2] % 4 = 0 THEN w[0] ELSE Zero)
                           /\ \A x \in Address : ReadU8(n, x) = ReadU8(m, x)
               /\ ~sends => n.tx = m.tx
  <1> DEFINE al == a[2] - (a[2] % 4)
             lane == a[2] % 4
             n == Stored(m, size, a, w)
             sends == IsTransmit(a) /\ (size = 4 => a[2] % 4 = 0)
             sent == IF a[2] % 4 = 0 THEN w[0] ELSE Zero
  <1>1. /\ Aligned(a) = <<a[1], al>> /\ Lane(a) = lane /\ lane \in 0 .. 3
        /\ Aligned(a)[1] = a[1] /\ Aligned(a)[2] = al /\ Aligned(a) \in Address
    BY WordAround, AlignedType
  <1>2. (sends => n = [m EXCEPT !.tx = Append(m.tx, sent)]) /\ (~sends => n.tx = m.tx)
    <2>1. CASE size = 4
      <3>1. n = WriteU32(m, a, w)
        BY <2>1 DEF Stored
      <3> QED
        BY <2>1, <3>1, WordIsTransmit, Transmits
    <2>2. CASE size \in {1, 2}
      <3> DEFINE v == Merged(m, a, size, w)
      <3>1. n = WriteU32(m, Aligned(a), v) /\ v \in Word
        BY <2>2, MergedType DEF Stored
      <3>2. sends <=> a[1] \in MmioSegments /\ IsUart(al) /\ al % IoSegmentSize = TxRegister
        BY <2>2, WordIsTransmit
      <3>3. ASSUME sends PROVE v[0] = sent
        <4>1. ReadU32(m, Aligned(a))[0] = Zero
          BY <1>1, <3>2, <3>3, TransmitReads
        <4> QED
          BY <1>1, <2>2, <4>1 DEF Merged
      <3> HIDE DEF v, sent, sends, n, al
      <3> DEFINE transmitted == /\ Aligned(a)[1] \in MmioSegments /\ IsUart(Aligned(a)[2])
                                /\ Aligned(a)[2] % IoSegmentSize = TxRegister
      <3>4. sends <=> transmitted
        BY <1>1, <3>2, Zenon
      <3>5. /\ transmitted => n = [m EXCEPT !.tx = Append(m.tx, v[0])]
            /\ ~transmitted => n.tx = m.tx
        BY <1>1, <3>1, Transmits
      <3> HIDE DEF transmitted
      <3> QED
        BY <3>3, <3>4, <3>5
    <2> QED
      BY <2>1, <2>2
  <1>3. ASSUME sends, NEW x \in Address PROVE ReadU8(n, x) = ReadU8(m, x)
    <2>1. n.firmware = m.firmware /\ n.dram = m.dram /\ n.uart = m.uart
      BY <1>2, <1>3 DEF Contents
    <2> QED
      BY <2>1 DEF ReadU8, ReadU32, IoRead, UartRead
  <1>4. ASSUME sends PROVE n.tx = Append(m.tx, sent)
    BY <1>2, <1>4 DEF Contents
  <1> QED
    BY <1>2, <1>3, <1>4

--------------------------------------------------------------------------------
(* The flat store of bytes. *)

LEMMA PlaceIs ==
    ASSUME NEW a \in Address
    PROVE  /\ a[1] \in FirmwareSegments => Location(a) = <<"firmware", a[2]>>
           /\ a[1] \in DramSegments => Location(a) = <<"dram", a[2]>>
           /\ a[1] \in MmioSegments =>
                Location(a) = IF /\ IsUart(a[2])
                                 /\ (a[2] - (a[2] % 4)) % IoSegmentSize \notin Registers
                              THEN <<"uart", a[2] % IoSegmentSize>> ELSE Nowhere
  BY KindsDisjoint DEF Location

LEMMA PlaceOfMirror ==
    ASSUME NEW x \in Address, NEW s \in Segment, SameKind(s, x[1])
    PROVE  <<s, x[2]>> \in Address /\ Location(<<s, x[2]>>) = Location(x)
  <1> DEFINE y == <<s, x[2]>>
  <1>1. y \in Address /\ y[1] = s /\ y[2] = x[2]
    BY AlignedType DEF Address
  <1> SUFFICES Location(y) = Location(x)
    BY <1>1
  <1> HIDE DEF y
  <1>2. CASE s \in FirmwareSegments /\ x[1] \in FirmwareSegments
    <2>1. Location(y) = <<"firmware", y[2]>> /\ Location(x) = <<"firmware", x[2]>>
      BY <1>1, <1>2, PlaceIs
    <2> QED
      BY <1>1, <2>1
  <1>3. CASE s \in DramSegments /\ x[1] \in DramSegments
    <2>1. Location(y) = <<"dram", y[2]>> /\ Location(x) = <<"dram", x[2]>>
      BY <1>1, <1>3, PlaceIs
    <2> QED
      BY <1>1, <2>1
  <1>4. CASE s \in MmioSegments /\ x[1] \in MmioSegments
    <2> DEFINE P(z) == IF IsUart(z) /\ (z - (z % 4)) % IoSegmentSize \notin Registers
                       THEN <<"uart", z % IoSegmentSize>> ELSE Nowhere
    <2>1. Location(y) = P(y[2]) /\ Location(x) = P(x[2])
      BY <1>1, <1>4, PlaceIs
    <2> HIDE DEF P
    <2> QED
      BY <1>1, <2>1
  <1> QED
    BY <1>2, <1>3, <1>4 DEF SameKind

LEMMA KindOfPlace ==
    ASSUME NEW x \in Address, NEW y \in Address,
           Location(x) = Location(y), Location(x) # Nowhere
    PROVE  SameKind(x[1], y[1]) /\ x[2] = y[2]
  <1>1. /\ x[2] = y[2]
        /\ (x[1] \in FirmwareSegments) = (y[1] \in FirmwareSegments)
        /\ (x[1] \in DramSegments) = (y[1] \in DramSegments)
        /\ x[1] \in MmioSegments => y[1] \in MmioSegments
    BY SamePlace
  <1>2. x[1] \notin FirmwareSegments \cup DramSegments => x[1] \in MmioSegments
    BY PlaceParts
  <1> QED
    BY <1>1, <1>2 DEF SameKind

LEMMA ByteType ==
    ASSUME NEW m \in Contents, NEW x \in Address
    PROVE  ReadU8(m, x) \in Byte
  <1>1. ReadU32(m, Aligned(x)) \in Word /\ Lane(x) \in 0 .. 3
    BY AlignedType, ReadType
  <1> QED
    BY <1>1 DEF ReadU8, Word

LEMMA SamePlaceSameByte ==
    ASSUME NEW m \in Contents, NEW x \in Address, NEW y \in Address,
           Location(x) = Location(y), Location(x) # Nowhere
    PROVE  ReadU8(m, x) = ReadU8(m, y)
  <1>1. ReadU8(m, x) = Cell(m, x) /\ ReadU8(m, y) = Cell(m, y)
    BY ByteShown
  <1>2. SameKind(x[1], y[1]) /\ x[2] = y[2]
    BY KindOfPlace
  <1>3. Cell(m, x) = Cell(m, y)
    BY <1>2, CellParts, KindsDisjoint
  <1> QED
    BY <1>1, <1>3

(* A store of request r changes the view as the flat store says. *)
LEMMA FlatChange ==
    ASSUME NEW m \in Contents, NEW r \in [size : {1, 2, 4}, at : Address, word : Word],
           NEW x \in Address
    PROVE  LET hit == {y \in Flat!Covered(r) : Location(y) = Location(x)}
           IN  ReadU8(Stored(m, r.size, r.at, r.word), x) =
                  IF Location(x) = Nowhere \/ hit = {}
                  THEN ReadU8(m, x)
                  ELSE r.word[(CHOOSE y \in hit : TRUE)[2] - r.at[2]]
  <1> DEFINE hit == {y \in Flat!Covered(r) : Location(y) = Location(x)}
             last_ == r.at[2] + Covers(r.size, r.at) - 1
             n == Stored(m, r.size, r.at, r.word)
  <1>1. r.size \in {1, 2, 4} /\ r.at \in Address /\ r.word \in Word
    OBVIOUS
  <1>2. ReadU8(n, x) = IF /\ Location(x) # Nowhere
                          /\ SameKind(r.at[1], x[1]) /\ x[2] \in r.at[2] .. last_
                       THEN r.word[x[2] - r.at[2]] ELSE ReadU8(m, x)
    BY <1>1, ByteAfterStore
  <1>3. \A y : y \in Flat!Covered(r) <=>
                  y \in Address /\ y[1] = r.at[1] /\ y[2] \in r.at[2] .. last_
    <2>1. Flat!Count(r) = Covers(r.size, r.at)
      BY <1>1 DEF Flat!Count, Covers, Lane
    <2>2. Covers(r.size, r.at) \in {1, 2, 4} /\ r.at[2] \in Nat
      BY <1>1, AlignedType DEF Covers
    <2>3. Flat!Address = Address
      BY DEF Flat!Address, Address
    <2> DEFINE c == Covers(r.size, r.at)
    <2>4. Flat!Covered(r) = {<<r.at[1], r.at[2] + i>> : i \in 0 .. (c - 1)} \cap Address
      BY <2>1, <2>3, Zenon DEF Flat!Covered
    <2>5. c \in Nat /\ r.at[2] \in Nat /\ last_ = r.at[2] + c - 1
      BY <2>2
    <2> HIDE DEF c, last_
    <2> SUFFICES ASSUME NEW y
                 PROVE  y \in Flat!Covered(r) <=>
                           y \in Address /\ y[1] = r.at[1] /\ y[2] \in r.at[2] .. last_
      OBVIOUS
    <2>6. ASSUME y \in Flat!Covered(r)
          PROVE  y \in Address /\ y[1] = r.at[1] /\ y[2] \in r.at[2] .. last_
      <3>1. PICK i \in 0 .. (c - 1) : y = <<r.at[1], r.at[2] + i>>
        BY <2>4, <2>6
      <3>2. y[1] = r.at[1] /\ y[2] = r.at[2] + i
        BY <3>1
      <3> QED
        BY <2>4, <2>5, <2>6, <3>2
    <2>7. ASSUME y \in Address, y[1] = r.at[1], y[2] \in r.at[2] .. last_
          PROVE  y \in Flat!Covered(r)
      <3> DEFINE i == y[2] - r.at[2]
      <3>1. i \in 0 .. (c - 1) /\ y[2] = r.at[2] + i
        BY <2>5, <2>7
      <3>2. y = <<y[1], y[2]>>
        BY <2>7 DEF Address
      <3> HIDE DEF i
      <3> QED
        BY <2>4, <2>7, <3>1, <3>2
    <2> QED
      BY <2>6, <2>7
  <1>4. ASSUME Location(x) # Nowhere, NEW y \in hit
        PROVE  SameKind(r.at[1], x[1]) /\ x[2] \in r.at[2] .. last_ /\ y[2] = x[2]
    BY <1>3, <1>4, KindOfPlace
  <1>5. ASSUME Location(x) # Nowhere, SameKind(r.at[1], x[1]), x[2] \in r.at[2] .. last_
        PROVE  <<r.at[1], x[2]>> \in hit
    BY <1>1, <1>3, <1>5, AlignedType, PlaceOfMirror
  <1> HIDE DEF hit, last_, n
  <1>6. CASE Location(x) = Nowhere
    BY <1>2, <1>6 DEF hit, n
  <1>7. CASE Location(x) # Nowhere /\ hit = {}
    BY <1>2, <1>5, <1>7 DEF hit, n
  <1>8. CASE Location(x) # Nowhere /\ hit # {}
    <2> DEFINE y == CHOOSE y \in hit : TRUE
    <2>1. y \in hit
      BY <1>8
    <2> HIDE DEF y
    <2>2. SameKind(r.at[1], x[1]) /\ x[2] \in r.at[2] .. last_ /\ y[2] = x[2]
      BY <1>4, <1>8, <2>1
    <2>3. ReadU8(n, x) = r.word[y[2] - r.at[2]]
      BY <1>2, <1>8, <2>2
    <2> QED
      BY <1>8, <2>3 DEF hit, n, y
  <1> QED
    BY <1>6, <1>7, <1>8

LEMMA NextStores ==
    ASSUME Next
    PROVE  \E size \in {1, 2, 4}, a \in Targets, w \in Words :
              /\ mem' = Stored(mem, size, a, w)
              /\ last' = [size |-> size, at |-> a, word |-> w]
  <1>1. PICK a \in Targets, w \in Words :
           StoreByte(a, w) \/ StoreHalf(a, w) \/ StoreWord(a, w)
    BY DEF Next
  <1>2. CASE StoreByte(a, w)
    BY <1>2 DEF StoreByte, Did, WriteU8, Stored
  <1>3. CASE StoreHalf(a, w)
    BY <1>3 DEF StoreHalf, Did, WriteU16, Stored
  <1>4. CASE StoreWord(a, w)
    BY <1>4 DEF StoreWord, Did, Stored
  <1> QED
    BY <1>1, <1>2, <1>3, <1>4

(* Whatever the map, the memory is a flat store of bytes seen through      *)
(* mirrors: every store maps to the flat store's, and what it leaves alone *)
(* shows the same bytes.                                                   *)
THEOREM MemoryIsFlat == Spec => IsFlatMemory
  <1>1. ASSUME Init, MemoryTypeOK PROVE Flat!Init
    <2>1. mem \in Contents
      BY <1>1 DEF MemoryTypeOK
    <2>2. Shown \in [Flat!Address -> Byte]
      BY <2>1, ByteType DEF Shown, Flat!Address, Address
    <2>3. \A x, y \in Flat!Address :
             Location(x) = Location(y) /\ Location(x) # Nowhere => Shown[x] = Shown[y]
      BY <2>1, SamePlaceSameByte DEF Shown, Flat!Address, Address
    <2>4. mem.tx = <<>> /\ last = Flat!NoRequest
      BY <1>1 DEF Init, NoStore, Flat!NoRequest
    <2> QED
      BY <2>2, <2>3, <2>4 DEF Flat!Init
  <1>2. ASSUME MemoryTypeOK, Next PROVE Flat!Next
    <2>1. PICK size \in {1, 2, 4}, a \in Targets, w \in Words :
             /\ mem' = Stored(mem, size, a, w)
             /\ last' = [size |-> size, at |-> a, word |-> w]
      BY <1>2, NextStores
    <2> DEFINE r == [size |-> size, at |-> a, word |-> w]
    <2>2. /\ mem \in Contents /\ a \in Address /\ w \in Word
          /\ r \in Flat!Request /\ r \in [size : {1, 2, 4}, at : Address, word : Word]
          /\ r.size = size /\ r.at = a /\ r.word = w
      BY <1>2, MemoryAssumption DEF MemoryTypeOK, Flat!Request
    <2> HIDE DEF r
    <2>3. last' = r
      BY <2>1 DEF r
    <2> SUFFICES Flat!Store(r)
      BY <2>2 DEF Flat!Next
    <2>4. Flat!Transmission(r) <=> IsTransmit(a) /\ (size = 4 => a[2] % 4 = 0)
      BY <2>2 DEF Flat!Transmission
    <2>5. CASE Flat!Transmission(r)
      <3>1. /\ mem'.tx = Append(mem.tx, IF a[2] % 4 = 0 THEN w[0] ELSE Zero)
            /\ \A x \in Address : ReadU8(mem', x) = ReadU8(mem, x)
        BY <2>1, <2>2, <2>4, <2>5, StoredTransmits
      <3>2. Shown' = Shown
        BY <3>1 DEF Shown
      <3> QED
        BY <2>2, <2>3, <2>5, <3>1, <3>2 DEF Flat!Store
    <2>6. CASE ~Flat!Transmission(r)
      <3>1. mem'.tx = mem.tx
        BY <2>1, <2>2, <2>4, <2>6, StoredTransmits
      <3>2. Flat!Change(r)
        <4>1. mem' = Stored(mem, r.size, r.at, r.word)
          BY <2>1, <2>2
        <4>2. Shown' = [x \in Address |-> ReadU8(mem', x)]
          BY DEF Shown
        <4>3. \A x \in Address : Shown[x] = ReadU8(mem, x)
          BY DEF Shown
        <4>4. Flat!Address = Address
          BY DEF Flat!Address, Address
        <4>5. \A x \in Address :
                 LET hit == {y \in Flat!Covered(r) : Location(y) = Location(x)}
                 IN  ReadU8(mem', x) =
                        IF Location(x) = Nowhere \/ hit = {}
                        THEN Shown[x]
                        ELSE r.word[(CHOOSE y \in hit : TRUE)[2] - r.at[2]]
          <5> SUFFICES ASSUME NEW x \in Address
                       PROVE  LET hit == {y \in Flat!Covered(r) : Location(y) = Location(x)}
                              IN  ReadU8(mem', x) =
                                     IF Location(x) = Nowhere \/ hit = {}
                                     THEN Shown[x]
                                     ELSE r.word[(CHOOSE y \in hit : TRUE)[2] - r.at[2]]
            OBVIOUS
          <5>1. LET hit == {y \in Flat!Covered(r) : Location(y) = Location(x)}
                IN  ReadU8(Stored(mem, r.size, r.at, r.word), x) =
                       IF Location(x) = Nowhere \/ hit = {}
                       THEN ReadU8(mem, x)
                       ELSE r.word[(CHOOSE y \in hit : TRUE)[2] - r.at[2]]
            BY <2>2, FlatChange
          <5> QED
            BY <4>1, <4>3, <5>1
        <4> QED
          BY <4>2, <4>4, <4>5, Zenon DEF Flat!Change
      <3> QED
        BY <2>3, <2>6, <3>1, <3>2 DEF Flat!Store
    <2> QED
      BY <2>5, <2>6
  <1>3. ASSUME UNCHANGED vars PROVE UNCHANGED Flat!vars
    BY <1>3 DEF vars, Flat!vars, Shown
  <1>4. MemoryTypeOK /\ [Next]_vars => [Flat!Next]_(Flat!vars)
    BY <1>2, <1>3
  <1> QED
    BY <1>1, <1>4, MemoryTypeCorrect, PTL DEF Spec, IsFlatMemory, Flat!Spec

--------------------------------------------------------------------------------
(* Loads after stores. *)

LEMMA MirrorsShare ==
    ASSUME NEW a \in Address, NEW b \in Mirrors(a)
    PROVE  /\ b \in Address /\ b[2] = a[2] /\ SameKind(a[1], b[1])
           /\ b = <<b[1], a[2]>> /\ Location(b) = Location(a)
  <1>1. b \in Address /\ b[2] = a[2] /\ SameKind(a[1], b[1]) /\ SameKind(b[1], a[1])
    BY DEF Mirrors, SameKind
  <1>2. b = <<b[1], a[2]>> /\ b[1] \in Segment
    BY <1>1, AlignedType DEF Address
  <1>3. Location(<<b[1], a[2]>>) = Location(a)
    BY <1>1, <1>2, PlaceOfMirror
  <1> QED
    BY <1>1, <1>2, <1>3, Zenon

LEMMA LaneAfter ==
    ASSUME NEW x \in Nat, x % 4 # 3
    PROVE  (x + 1) % 4 = (x % 4) + 1 /\ (x + 1) - ((x + 1) % 4) = x - (x % 4)
  OBVIOUS

LEMMA NextInWord ==
    ASSUME NEW x \in Address, Lane(x) # 3, Location(x) # Nowhere
    PROVE  LET y == <<x[1], x[2] + 1>>
           IN  /\ y \in Address /\ Aligned(y) = Aligned(x) /\ Lane(y) = Lane(x) + 1
               /\ Location(y) # Nowhere
  <1> DEFINE y == <<x[1], x[2] + 1>>
             al == x[2] - (x[2] % 4)
             lane == x[2] % 4
  <1>1. /\ x[2] \in Nat /\ al \in Nat /\ lane \in 0 .. 3 /\ x[2] = al + lane
        /\ al + 3 < SegmentSize /\ Lane(x) = lane /\ Aligned(x) = <<x[1], al>>
        /\ IsUart(al) = IsUart(x[2])
    BY WordAround
  <1>2. y[1] = x[1] /\ y[2] = x[2] + 1
    OBVIOUS
  <1>3. (x[2] + 1) % 4 = lane + 1 /\ (x[2] + 1) - ((x[2] + 1) % 4) = al
    BY <1>1, LaneAfter
  <1>4. x[2] + 1 \in 0 .. (SegmentSize - 1)
    <2> HIDE DEF al, lane
    <2> QED
      BY <1>1, MemoryAssumption
  <1>5. y \in Address
    BY <1>4 DEF Address
  <1>6. Aligned(y) = Aligned(x) /\ Lane(y) = Lane(x) + 1
    BY <1>1, <1>2, <1>3 DEF Aligned, Lane
  <1>7. IsUart(y[2]) = IsUart(x[2]) /\ y[2] - (y[2] % 4) = al
    <2>1. IsUart(y[2] - (y[2] % 4)) = IsUart(y[2])
      BY <1>5, WordAround
    <2> QED
      BY <1>1, <1>2, <1>3, <2>1
  <1> HIDE DEF y, al, lane
  <1>8. Location(y) # Nowhere
    <2>1. CASE x[1] \in FirmwareSegments
      BY <1>2, <1>5, <2>1, PlaceIs, NowhereElse
    <2>2. CASE x[1] \in DramSegments
      BY <1>2, <1>5, <2>2, PlaceIs, NowhereElse
    <2>3. CASE x[1] \notin FirmwareSegments \cup DramSegments
      <3>1. x[1] \in MmioSegments /\ IsUart(x[2]) /\ al % IoSegmentSize \notin Registers
        BY <2>3, PlaceParts DEF al
      <3>2. Location(y) = <<"uart", y[2] % IoSegmentSize>>
        BY <1>2, <1>5, <1>7, <3>1, PlaceIs
      <3> QED
        BY <3>2, NowhereElse
    <2> QED
      BY <2>1, <2>2, <2>3
  <1> QED
    BY <1>5, <1>6, <1>8 DEF y

LEMMA ArrayReadsBack ==
    ASSUME NEW size \in Nat, NEW array \in Array(size), NEW off \in 0 .. (size - 1), NEW w \in Word
    PROVE  ArrayRead(ArrayWrite(array, off, w), off) = w
  <1>1. \A i \in 0 .. 3 : ArrayWrite(array, off, w)[off + i] = w[i]
    BY DEF Array, ArrayWrite
  <1>2. w = [i \in 0 .. 3 |-> w[i]]
    BY DEF Word
  <1> QED
    BY <1>1, <1>2, Zenon DEF ArrayRead

LEMMA WordReadsBack ==
    ASSUME NEW m \in Contents, NEW a \in Address, Location(a) # Nowhere, NEW w \in Word
    PROVE  ReadU32(WriteU32(m, a, w), <<a[1], a[2]>>) = w
  <1> DEFINE n == WriteU32(m, a, w)
  <1>1. /\ a[2] \in 0 .. (SegmentSize - 1) /\ a[2] \in Nat /\ SegmentSize \in Nat
        /\ IoSegmentSize \in Nat
        /\ a[2] % IoSegmentSize \in 0 .. (IoSegmentSize - 1)
    BY AlignedType, IoOffsetType, MemoryAssumption
  <1>2. /\ m.firmware \in Array(SegmentSize) /\ m.dram \in Array(SegmentSize)
        /\ m.uart \in Array(IoSegmentSize)
    BY DEF Contents
  <1> SUFFICES ReadU32(n, <<a[1], a[2]>>) = w
    OBVIOUS
  <1>3. CASE a[1] \in FirmwareSegments
    <2>1. n.firmware = ArrayWrite(m.firmware, a[2], w)
      BY <1>3, WritesTo DEF Contents
    <2>2. ReadU32(n, <<a[1], a[2]>>) = ArrayRead(n.firmware, a[2])
      BY <1>3, ReadsFrom
    <2> QED
      BY <1>1, <1>2, <2>1, <2>2, ArrayReadsBack
  <1>4. CASE a[1] \in DramSegments
    <2>1. n.dram = ArrayWrite(m.dram, a[2], w)
      BY <1>4, WritesTo DEF Contents
    <2>2. ReadU32(n, <<a[1], a[2]>>) = ArrayRead(n.dram, a[2])
      BY <1>4, ReadsFrom
    <2> QED
      BY <1>1, <1>2, <2>1, <2>2, ArrayReadsBack
  <1>5. CASE a[1] \notin FirmwareSegments \cup DramSegments
    <2>1. /\ a[1] \in MmioSegments /\ IsUart(a[2])
          /\ (a[2] - (a[2] % 4)) % IoSegmentSize \notin Registers
      BY <1>5, PlaceParts
    <2>2. a[2] \in a[2] .. (a[2] + 3)
      BY <1>1
    <2>3. a[2] % IoSegmentSize \notin Registers
      BY <1>1, <2>1, <2>2, OutsideUart
    <2>4. n.uart = ArrayWrite(m.uart, a[2] % IoSegmentSize, w)
      BY <1>1, <2>1, <2>3, WritesTo, IoWriteParts
    <2>5. ReadU32(n, <<a[1], a[2]>>) = ArrayRead(n.uart, a[2] % IoSegmentSize)
      <3>1. ReadU32(n, <<a[1], a[2]>>) = IoRead(n, a[2])
        BY <2>1, ReadsFrom
      <3> QED
        BY <2>1, <2>3, <3>1 DEF IoRead, UartRead, Registers
    <2> QED
      BY <1>1, <1>2, <2>4, <2>5, ArrayReadsBack
  <1> QED
    BY <1>3, <1>4, <1>5

(* Whatever the map, and through every mirror, a load gives back what the  *)
(* last store of its size and address wrote, where there is storage.       *)
THEOREM StoresReadBack == Spec => []ReadsBack
  <1>1. Init => ReadsBack
    BY DEF Init, ReadsBack
  <1>2. ASSUME MemoryTypeOK, Next PROVE ReadsBack'
    <2>1. PICK size \in {1, 2, 4}, a \in Targets, w \in Words :
             /\ mem' = Stored(mem, size, a, w)
             /\ last' = [size |-> size, at |-> a, word |-> w]
      BY <1>2, NextStores
    <2>2. /\ mem \in Contents /\ a \in Address /\ w \in Word
          /\ last'.size = size /\ last'.at = a /\ last'.word = w
      BY <1>2, <2>1, MemoryAssumption DEF MemoryTypeOK
    <2> SUFFICES ASSUME Location(a) # Nowhere, NEW b \in Mirrors(a)
                 PROVE  /\ size = 1 => ReadU8(mem', b) = w[0]
                        /\ size = 2 => ReadU16(mem', b) =
                                          <<w[0], IF Lane(b) = 3 THEN Zero ELSE w[1]>>
                        /\ size = 4 => ReadU32(mem', b) = w
      BY <2>2 DEF ReadsBack
    <2>3. /\ b \in Address /\ b[2] = a[2] /\ SameKind(a[1], b[1]) /\ b = <<b[1], a[2]>>
          /\ Location(b) # Nowhere
      BY <2>2, MirrorsShare
    <2>4. a[2] \in Nat /\ b[2] = a[2] /\ Lane(b) = Lane(a)
      BY <2>2, <2>3, AlignedType DEF Lane
    <2>5. ASSUME NEW x \in Address, Location(x) # Nowhere, x[1] = b[1],
                 x[2] \in a[2] .. (a[2] + Covers(size, a) - 1)
          PROVE  ReadU8(mem', x) = w[x[2] - a[2]]
      BY <2>1, <2>2, <2>3, <2>5, ByteAfterStore
    <2>6. ASSUME size \in {1, 2} PROVE ReadU8(mem', b) = w[0]
      <3>1. b[2] \in a[2] .. (a[2] + Covers(size, a) - 1) /\ b[2] - a[2] = 0
        BY <2>4, <2>6 DEF Covers
      <3> QED
        BY <2>3, <2>5, <3>1
    <2>7. ASSUME size = 2, Lane(b) # 3 PROVE ReadU32(mem', Aligned(b))[Lane(b) + 1] = w[1]
      <3> DEFINE x == <<b[1], b[2] + 1>>
      <3>1. /\ x \in Address /\ Aligned(x) = Aligned(b) /\ Lane(x) = Lane(b) + 1
            /\ Location(x) # Nowhere
        BY <2>3, <2>7, NextInWord
      <3>2. /\ x[1] = b[1] /\ x[2] - a[2] = 1
            /\ x[2] \in a[2] .. (a[2] + Covers(size, a) - 1)
        BY <2>4, <2>7 DEF Covers
      <3> HIDE DEF x
      <3>3. ReadU8(mem', x) = w[1]
        BY <2>5, <3>1, <3>2
      <3> QED
        BY <3>1, <3>3 DEF ReadU8
    <2>8. ASSUME size = 4 PROVE ReadU32(mem', b) = w
      <3>1. mem' = WriteU32(mem, a, w)
        BY <2>1, <2>8 DEF Stored
      <3>2. ReadU32(mem', <<a[1], a[2]>>) = w
        BY <2>2, <3>1, WordReadsBack
      <3>3. ReadU32(mem', <<a[1], a[2]>>) = ReadU32(mem', <<b[1], a[2]>>)
        BY <2>3, SameWordRead
      <3> QED
        BY <2>3, <3>2, <3>3
    <2> QED
      BY <2>6, <2>7, <2>8 DEF ReadU8, ReadU16
  <1>3. ReadsBack /\ UNCHANGED vars => ReadsBack'
    BY DEF ReadsBack, vars
  <1> QED
    BY <1>1, <1>2, <1>3, MemoryTypeCorrect, PTL DEF Spec

--------------------------------------------------------------------------------
(* The processor's memory: numbers for addresses. *)

LEMMA BaseFacts ==
    /\ ByteBits \in Nat /\ Base \in Nat \ {0} /\ Byte \subseteq 0 .. (Base - 1)
    /\ Zero = 0 /\ AllOnes = Base - 1
    /\ SegmentSize \in Nat \ {0} /\ SegmentSize % 4 = 0
    /\ DataSegment \in DramSegments /\ DataSegment \in Segment /\ DataSegment \in Nat
    /\ Data!Modulus = Pow2[WordBits]
    /\ Pow2[WordBits] = Base * (Base * (Base * Base))
    /\ Pow2[WordBits] \in Nat /\ SegmentSize + 3 <= Pow2[WordBits]
  <1>1. DataSegment \in DramSegments /\ DataSegment \in Segment
    BY CpuMemoryAssumption DEF Segment
  <1>2. Base \in Nat \ {0}
    BY CpuMemoryAssumption
  <1>3. Base * (Base * (Base * Base)) \in Nat
    BY <1>2
  <1> QED
    BY <1>1, <1>2, <1>3, CpuMemoryAssumption, MemoryAssumption DEF Data!Modulus

(* Segments keep the place of a byte in its word, and do not meet. *)
LEMMA NumberParts ==
    ASSUME NEW s \in Nat, NEW off \in 0 .. (SegmentSize - 1)
    PROVE  s * SegmentSize \in Nat /\ (s * SegmentSize + off) % 4 = off % 4
  <1>1. SegmentSize \in Nat \ {0} /\ SegmentSize % 4 = 0
    BY BaseFacts
  <1>2. PICK k \in Int : SegmentSize = 4 * k
    BY <1>1
  <1>3. s * SegmentSize = 4 * (s * k) /\ s * k \in Int /\ s * SegmentSize \in Nat
    BY <1>1, <1>2
  <1> QED
    BY <1>3

LEMMA NumbersApart ==
    ASSUME NEW s \in Nat, NEW off \in 0 .. (SegmentSize - 1),
           NEW t \in Nat, NEW c \in 0 .. (SegmentSize - 1),
           s * SegmentSize + off = t * SegmentSize + c
    PROVE  s = t /\ off = c
  <1>1. SegmentSize \in Nat \ {0}
    BY BaseFacts
  <1>2. s * SegmentSize = SegmentSize * s /\ t * SegmentSize = SegmentSize * t
    BY <1>1
  <1> QED
    BY <1>1, <1>2, DivisionUnique

LEMMA NumberOfDram ==
    ASSUME NEW a \in Address, a[1] \in DramSegments
    PROVE  /\ AddressNumber(a) = DataSegment * SegmentSize + a[2]
           /\ AddressNumber(a) \in DramAddresses
           /\ AddressNumber(a) \in Nat /\ AddressNumber(a) % 4 = a[2] % 4
           /\ AddressNumber(a) + 1 <= Pow2[WordBits]
           /\ AddressNumber(a) + (SegmentSize - a[2]) <= Pow2[WordBits]
  <1>1. AddressNumber(a) = DataSegment * SegmentSize + a[2]
    BY DEF AddressNumber
  <1>2. a[2] \in 0 .. (SegmentSize - 1) /\ DataSegment \in Nat /\ SegmentSize \in Nat
    BY BaseFacts, AlignedType
  <1>3. DataSegment * SegmentSize \in Nat /\ (DataSegment * SegmentSize + a[2]) % 4 = a[2] % 4
    BY <1>2, NumberParts
  <1>4. (DataSegment + 1) * SegmentSize <= Pow2[WordBits]
    BY BaseFacts, CpuMemoryAssumption
  <1>5. (DataSegment + 1) * SegmentSize = DataSegment * SegmentSize + SegmentSize
    BY <1>2
  <1>6. Pow2[WordBits] \in Nat
    BY BaseFacts
  <1> DEFINE p == DataSegment * SegmentSize
  <1>7. p + a[2] \in DramAddresses
    BY <1>2 DEF DramAddresses
  <1> HIDE DEF p
  <1> QED
    BY <1>1, <1>2, <1>3, <1>4, <1>5, <1>6, <1>7 DEF p

LEMMA NumberElsewhere ==
    ASSUME NEW a \in Address, a[1] \notin DramSegments
    PROVE  /\ AddressNumber(a) = a[1] * SegmentSize + a[2]
           /\ AddressNumber(a) \in Nat /\ AddressNumber(a) % 4 = a[2] % 4
           /\ AddressNumber(a) \notin DramAddresses
  <1>1. AddressNumber(a) = a[1] * SegmentSize + a[2]
    BY DEF AddressNumber
  <1>2. a[2] \in 0 .. (SegmentSize - 1) /\ a[1] \in Segment /\ DataSegment \in Nat /\ DataSegment \in DramSegments
    BY BaseFacts, AlignedType
  <1>3. a[1] \in Nat /\ a[1] # DataSegment
    BY <1>2, CpuMemoryAssumption
  <1>4. \A off \in 0 .. (SegmentSize - 1) :
           a[1] * SegmentSize + a[2] # DataSegment * SegmentSize + off
    BY <1>2, <1>3, NumbersApart
  <1>5. a[1] * SegmentSize \in Nat /\ (a[1] * SegmentSize + a[2]) % 4 = a[2] % 4
    BY <1>2, <1>3, NumberParts
  <1> QED
    BY <1>1, <1>2, <1>4, <1>5 DEF DramAddresses

(* The byte that the processor sees at an address is the map's. *)
LEMMA ByteAtNumber ==
    ASSUME mem \in Contents, NEW a \in Address, a[1] \in DramSegments \cup EmptySegments
    PROVE  Data!ByteAt(AddressNumber(a)) = ReadU8(mem, a)
  <1>1. CASE a[1] \in DramSegments
    <2> DEFINE y == <<DataSegment, a[2]>>
               p == DataSegment * SegmentSize
    <2>1. p + a[2] \in DramAddresses /\ AddressNumber(a) = p + a[2] /\ p \in Nat /\ a[2] \in Nat
      BY <1>1, NumberOfDram, AlignedType, BaseFacts, NumberParts
    <2> HIDE DEF p
    <2>2. (p + a[2]) - p = a[2]
      BY <2>1
    <2>3. DramBytes[p + a[2]] = ReadU8(mem, y)
      BY <2>1, <2>2 DEF DramBytes, p
    <2>4. SameKind(DataSegment, a[1]) /\ DataSegment \in Segment
      BY <1>1, BaseFacts DEF SameKind
    <2>5. y \in Address /\ Location(y) = Location(a)
      BY <2>4, PlaceOfMirror
    <2>6. Location(a) # Nowhere
      BY <1>1, PlaceIs, NowhereElse
    <2>7. ReadU8(mem, y) = ReadU8(mem, a)
      BY <2>5, <2>6, SamePlaceSameByte
    <2> QED
      BY <2>1, <2>3, <2>7 DEF Data!ByteAt
  <1>2. CASE a[1] \notin DramSegments
    <2>1. a[1] \notin FirmwareSegments \cup DramSegments \cup MmioSegments
      BY <1>2, MemoryAssumption
    <2>2. ReadU32(mem, Aligned(a)) = OnesWord /\ Lane(a) \in 0 .. 3
      BY <2>1, AlignedType DEF ReadU32
    <2>3. ReadU8(mem, a) = AllOnes
      BY <2>2 DEF ReadU8, OnesWord
    <2> QED
      BY <1>2, <2>3, NumberElsewhere, BaseFacts DEF Data!ByteAt, Base
  <1> QED
    BY <1>1, <1>2

(* The byte behind an address, in the same segment. *)
LEMMA NextNumber ==
    ASSUME NEW a \in Address, NEW i \in Nat, a[2] + i < SegmentSize
    PROVE  LET y == <<a[1], a[2] + i>>
           IN  y \in Address /\ y[1] = a[1] /\ AddressNumber(y) = AddressNumber(a) + i
  <1> DEFINE y == <<a[1], a[2] + i>>
             p == (IF a[1] \in DramSegments THEN DataSegment ELSE a[1]) * SegmentSize
  <1>1. a[1] \in Segment /\ a[2] \in Nat /\ a[2] + i \in 0 .. (SegmentSize - 1)
    BY AlignedType, BaseFacts
  <1>2. y \in Address /\ y[1] = a[1] /\ y[2] = a[2] + i
    BY <1>1 DEF Address
  <1>3. AddressNumber(y) = p + (a[2] + i) /\ AddressNumber(a) = p + a[2]
    BY <1>2 DEF AddressNumber
  <1>4. p \in Nat
    BY <1>1, BaseFacts, CpuMemoryAssumption, NumberParts
  <1> HIDE DEF p, y
  <1>5. AddressNumber(y) = AddressNumber(a) + i
    BY <1>1, <1>3, <1>4
  <1> QED
    BY <1>2, <1>5 DEF y

LEMMA NextLane ==
    ASSUME NEW x \in Address, Lane(x) # 3
    PROVE  /\ x[2] + 1 < SegmentSize
           /\ LET y == <<x[1], x[2] + 1>> IN Aligned(y) = Aligned(x) /\ Lane(y) = Lane(x) + 1
  <1> DEFINE al == x[2] - (x[2] % 4)
             lane == x[2] % 4
  <1>1. /\ x[2] \in Nat /\ al \in Nat /\ lane \in 0 .. 3 /\ x[2] = al + lane
        /\ al + 3 < SegmentSize /\ Lane(x) = lane /\ Aligned(x) = <<x[1], al>>
    BY WordAround
  <1>2. (x[2] + 1) % 4 = lane + 1 /\ (x[2] + 1) - ((x[2] + 1) % 4) = al
    BY <1>1, LaneAfter
  <1>3. x[2] + 1 < SegmentSize
    <2> HIDE DEF al, lane
    <2> QED
      BY <1>1, MemoryAssumption
  <1> QED
    BY <1>1, <1>2, <1>3 DEF Aligned, Lane

(* All ones are the largest number. *)
LEMMA OnesAreLargest ==
    ASSUME NEW b \in Nat \ {0}, NEW o, o = b - 1
    PROVE  o + b * (o + b * (o + b * o)) = b * (b * (b * b)) - 1
  <1> DEFINE b2 == b * b
             b3 == b * b2
  <1>0. b2 \in Int /\ b3 \in Int
    OBVIOUS
  <1>1. o + b * o = b2 - 1
    OBVIOUS
  <1>2. b * (b2 - 1) = b3 - b
    <2> HIDE DEF b2
    <2> QED
      BY <1>0 DEF b3
  <1>3. b * (b3 - 1) = b * b3 - b
    <2> HIDE DEF b3
    <2> QED
      BY <1>0
  <1> HIDE DEF b2, b3
  <1>4. o + b * (o + b * o) = b3 - 1
    BY <1>0, <1>1, <1>2
  <1>5. o + b * (b3 - 1) = b * b3 - 1
    BY <1>0, <1>3
  <1> QED
    BY <1>4, <1>5 DEF b2, b3

LEMMA LoadByte ==
    ASSUME mem \in Contents, NEW a \in Address, a[1] \in DramSegments \cup EmptySegments
    PROVE  Data!ReadU8(AddressNumber(a)) = ReadU8(mem, a)
  BY ByteAtNumber DEF Data!ReadU8

LEMMA LoadHalf ==
    ASSUME mem \in Contents, NEW a \in Address, a[1] \in DramSegments \cup EmptySegments
    PROVE  Data!ReadU16(AddressNumber(a)) = HalfNumber(ReadU16(mem, a))
  <1> DEFINE n == AddressNumber(a)
             word == ReadU32(mem, Aligned(a))
             up == IF Lane(a) = 3 THEN Zero ELSE word[Lane(a) + 1]
  <1>1. n % 4 = Lane(a)
    BY NumberOfDram, NumberElsewhere DEF Lane
  <1>2. Data!ByteAt(n) = word[Lane(a)]
    BY ByteAtNumber DEF ReadU8
  <1>3. ASSUME Lane(a) # 3 PROVE Data!ByteAt(n + 1) = word[Lane(a) + 1]
    <2> DEFINE y == <<a[1], a[2] + 1>>
    <2>1. a[2] + 1 < SegmentSize /\ Aligned(y) = Aligned(a) /\ Lane(y) = Lane(a) + 1
      BY <1>3, NextLane
    <2>2. y \in Address /\ y[1] = a[1] /\ AddressNumber(y) = n + 1
      BY <2>1, NextNumber
    <2> HIDE DEF y, n
    <2>3. Data!ByteAt(n + 1) = ReadU8(mem, y)
      BY <2>2, ByteAtNumber
    <2> QED
      BY <2>1, <2>3 DEF ReadU8
  <1>4. HalfNumber(ReadU16(mem, a)) = word[Lane(a)] + Base * up
    BY DEF HalfNumber, ReadU16
  <1>5. Data!ReadU16(n) = Data!ByteAt(n) + Base * (IF n % 4 = 3 THEN 0 ELSE Data!ByteAt(n + 1))
    BY DEF Data!ReadU16, Base
  <1>6. Zero = 0
    BY BaseFacts
  <1>7. (IF n % 4 = 3 THEN 0 ELSE Data!ByteAt(n + 1)) = up
    BY <1>1, <1>3, <1>6
  <1> HIDE DEF n, word, up
  <1>8. Data!ReadU16(n) = HalfNumber(ReadU16(mem, a))
    BY <1>2, <1>4, <1>5, <1>7, Zenon
  <1> QED
    BY <1>8 DEF n

LEMMA LoadWord ==
    ASSUME mem \in Contents, NEW a \in Address, a[1] \in DramSegments \cup EmptySegments,
           a[1] \in EmptySegments \/ a[2] + 3 < SegmentSize
    PROVE  Data!ReadU32(AddressNumber(a)) = WordNumber(ReadU32(mem, a))
  <1> DEFINE n == AddressNumber(a)
             w == ReadU32(mem, a)
  <1>1. CASE a[1] \in DramSegments
    <2>1. a[1] \notin EmptySegments /\ a[2] + 3 < SegmentSize
      BY <1>1, MemoryAssumption
    <2>2. /\ n \in DramAddresses /\ n \in Nat /\ Data!Modulus \in Nat
          /\ n + (SegmentSize - a[2]) <= Data!Modulus /\ a[2] \in Nat /\ SegmentSize \in Nat
      BY <1>1, NumberOfDram, BaseFacts, AlignedType
    <2>3. ASSUME NEW i \in 0 .. 3
          PROVE  Data!ByteAt((n + i) % Data!Modulus) = w[i]
      <3> DEFINE y == <<a[1], a[2] + i>>
      <3>0. i \in Nat /\ a[2] + i < SegmentSize
        BY <2>1, <2>2
      <3>1. y \in Address /\ y[1] = a[1] /\ y[2] = a[2] + i /\ AddressNumber(y) = n + i
        BY <3>0, NextNumber
      <3>2. (n + i) % Data!Modulus = n + i
        <4> HIDE DEF n
        <4> QED
          BY <2>1, <2>2
      <3> HIDE DEF y
      <3>3. Data!ByteAt(n + i) = ReadU8(mem, y)
        BY <1>1, <3>1, ByteAtNumber
      <3>4. Location(y) # Nowhere
        BY <1>1, <3>1, PlaceIs, NowhereElse
      <3>5. ReadU8(mem, y) = mem.dram[a[2] + i]
        BY <1>1, <3>1, <3>4, ByteShown, CellParts
      <3>6. w[i] = mem.dram[a[2] + i]
        BY <1>1, KindsDisjoint DEF ReadU32, ArrayRead
      <3> QED
        BY <3>2, <3>3, <3>5, <3>6
    <2>4. /\ Data!ByteAt((n + 0) % Data!Modulus) = w[0] /\ Data!ByteAt((n + 1) % Data!Modulus) = w[1]
          /\ Data!ByteAt((n + 2) % Data!Modulus) = w[2] /\ Data!ByteAt((n + 3) % Data!Modulus) = w[3]
      BY <2>3
    <2> HIDE DEF n, w
    <2>5. Data!ReadU32(n) = WordNumber(w)
      BY <2>2, <2>4, Zenon DEF Data!ReadU32, WordNumber, Base
    <2> QED
      BY <2>5 DEF n, w
  <1>2. CASE a[1] \notin DramSegments
    <2>1. a[1] \notin FirmwareSegments \cup DramSegments \cup MmioSegments
      BY <1>2, MemoryAssumption
    <2>2. w = OnesWord
      BY <2>1 DEF ReadU32
    <2>3. WordNumber(w) = AllOnes + Base * (AllOnes + Base * (AllOnes + Base * AllOnes))
      BY <2>2 DEF WordNumber, OnesWord
    <2>4. WordNumber(w) = Base * (Base * (Base * Base)) - 1
      BY <2>3, BaseFacts, OnesAreLargest
    <2>5. n \notin DramAddresses
      BY <1>2, NumberElsewhere
    <2> HIDE DEF n, w
    <2>6. Data!ReadU32(n) = Data!Modulus - 1
      BY <2>5, Zenon DEF Data!ReadU32
    <2> QED
      BY <2>4, <2>6, BaseFacts DEF n, w
  <1> QED
    BY <1>1, <1>2

(* Whatever the map: what the processor loads from DRAM through any mirror, *)
(* and from segments without a region, is what DataMemory says.             *)
THEOREM LoadsAreTheMaps == Spec => []LoadsReachMap
  <1>1. MemoryTypeOK => LoadsReachMap
    <2> SUFFICES ASSUME MemoryTypeOK, NEW a \in (DramSegments \cup EmptySegments) \X (0 .. (SegmentSize - 1))
                 PROVE  /\ Data!ReadU8(AddressNumber(a)) = ReadU8(mem, a)
                        /\ Data!ReadU16(AddressNumber(a)) = HalfNumber(ReadU16(mem, a))
                        /\ a[1] \in EmptySegments \/ a[2] + 3 < SegmentSize =>
                              Data!ReadU32(AddressNumber(a)) = WordNumber(ReadU32(mem, a))
      BY Zenon DEF LoadsReachMap
    <2>1. mem \in Contents /\ a \in Address /\ a[1] \in DramSegments \cup EmptySegments
      BY DEF MemoryTypeOK, Address, Segment
    <2> QED
      BY <2>1, LoadByte, LoadHalf, LoadWord
  <1> QED
    BY <1>1, MemoryTypeCorrect, PTL

(* The bytes of a number. *)
LEMMA TwoDigits ==
    ASSUME NEW b \in Nat \ {0}, NEW x \in 0 .. (b - 1), NEW y \in 0 .. (b - 1)
    PROVE  x + b * y \in 0 .. (b * b - 1)
  <1>1. b * y <= b * (b - 1) /\ b * y >= 0 /\ b * (b - 1) = b * b - b
    OBVIOUS
  <1>2. b * b \in Nat /\ b * y \in Int
    OBVIOUS
  <1> QED
    BY <1>1, <1>2

FourDigits(b, x, y, z, t) == x + b * (y + b * (z + b * t))

LEMMA DigitsOf ==
    ASSUME NEW b \in Nat \ {0}, NEW x \in 0 .. (b - 1), NEW y \in 0 .. (b - 1),
           NEW z \in 0 .. (b - 1), NEW t \in 0 .. (b - 1)
    PROVE  /\ (FourDigits(b, x, y, z, t) \div 1) % b = x
           /\ (FourDigits(b, x, y, z, t) \div b) % b = y
           /\ (FourDigits(b, x, y, z, t) \div (b * b)) % b = z
           /\ (FourDigits(b, x, y, z, t) \div (b * (b * b))) % b = t
  <1> SUFFICES ASSUME NEW n, n = x + b * (y + b * (z + b * t))
               PROVE  /\ (n \div 1) % b = x /\ (n \div b) % b = y
                      /\ (n \div (b * b)) % b = z /\ (n \div (b * (b * b))) % b = t
    BY Zenon DEF FourDigits
  <1> DEFINE b2 == b * b
             b3 == b * (b * b)
             low2 == x + b * y
             low3 == x + b * (y + b * z)
             high1 == y + b * (z + b * t)
             high2 == z + b * t
  <1>1. /\ b2 \in Nat \ {0} /\ b3 \in Nat \ {0}
        /\ high2 \in Nat /\ low2 \in 0 .. (b2 - 1)
    <2>1. b * b \in Nat \ {0}
      BY b * b > 0
    <2>2. b * (b * b) \in Nat \ {0}
      <3> HIDE DEF b2
      <3>1. \A c \in Nat \ {0} : b * c \in Nat \ {0}
        OBVIOUS
      <3> QED
        BY <2>1, <3>1
    <2> QED
      BY <2>1, <2>2, TwoDigits
  <1>2. high1 \in Nat /\ n = b * high1 + x /\ high1 = b * high2 + y
    <2>1. \A c \in Nat : b * c \in Nat
      OBVIOUS
    <2> HIDE DEF high2
    <2>2. high1 = y + b * high2
      BY DEF high2
    <2>3. b * high2 \in Nat
      BY <1>1, <2>1
    <2>4. high1 \in Nat
      BY <2>2, <2>3
    <2>5. n = x + b * high1
      OBVIOUS
    <2> HIDE DEF high1
    <2>6. b * high1 \in Nat
      BY <2>1, <2>4
    <2> QED
      BY <2>2, <2>3, <2>4, <2>5, <2>6
  <1>3. n \in Nat
    <2> HIDE DEF high1
    <2>1. b * high1 \in Nat
      BY <1>2
    <2> QED
      BY <1>2, <2>1
  <1>4. b2 * high2 = b * (b * high2)
    <2> HIDE DEF high2
    <2> QED
      BY <1>1
  <1>5. n = b2 * high2 + low2
    <2> HIDE DEF high1, high2, b2
    <2>1. b * high1 = b * (b * high2) + b * y
      BY <1>1, <1>2
    <2>2. b * high1 \in Int /\ b2 * high2 \in Int /\ b * y \in Int
      BY <1>1, <1>2
    <2>3. \A p, q, v, u \in Int : n = p + x /\ p = q + u /\ v = q => n = v + (x + u)
      OBVIOUS
    <2>4. b * (b * high2) \in Int
      BY <1>4, <2>2
    <2> HIDE DEF low2
    <2>5. n = b2 * high2 + (x + b * y)
      BY <1>2, <1>4, <2>1, <2>2, <2>3, <2>4
    <2> QED
      BY <2>5 DEF low2
  <1>6. high2 = b * t + z /\ low2 + b2 * z \in 0 .. (b3 - 1) /\ n = b3 * t + (low2 + b2 * z)
    <2>1. high2 = b * t + z /\ b * t \in Int
      OBVIOUS
    <2> HIDE DEF low2, high2
    <2>2. b2 * high2 = b2 * (b * t) + b2 * z
      <3> HIDE DEF b2
      <3> QED
        BY <1>1, <2>1
    <2>3. b2 * (b * t) = b3 * t
      OBVIOUS
    <2>4. b2 * z <= b2 * (b - 1) /\ b2 * z >= 0 /\ b2 * z \in Int
      <3> HIDE DEF b2
      <3> QED
        BY <1>1
    <2>5. b2 * (b - 1) = b3 - b2
      OBVIOUS
    <2>6. b3 * t \in Int
      <3> HIDE DEF b3
      <3> QED
        BY <1>1
    <2> HIDE DEF b2, b3
    <2> QED
      BY <1>1, <1>5, <2>1, <2>2, <2>3, <2>4, <2>5, <2>6
  <1>7. n \div 1 = n /\ n % b = x /\ n \div b = high1
    <2> HIDE DEF high1
    <2>1. n \div b = high1 /\ n % b = x
      BY <1>2, <1>3, DivisionIs
    <2> QED
      BY <1>3, <2>1
  <1>8. high1 % b = y
    <2> HIDE DEF high1, high2
    <2> QED
      BY <1>1, <1>2, DivisionIs
  <1>9. n \div b2 = high2 /\ high2 % b = z
    <2> HIDE DEF high2, low2, b2
    <2> QED
      BY <1>1, <1>3, <1>5, <1>6, DivisionIs
  <1>10. n \div b3 = t /\ t % b = t
    <2> HIDE DEF low2, b2, b3
    <2>1. n \div b3 = t
      BY <1>1, <1>3, <1>6, DivisionIs
    <2> QED
      BY <2>1
  <1> QED
    BY <1>3, <1>7, <1>8, <1>9, <1>10 DEF b2, b3

LEMMA BytesOfNumber ==
    ASSUME NEW w \in Word, NEW d \in 0 .. 3
    PROVE  (WordNumber(w) \div Pow2[ByteBits * d]) % Base = w[d]
  <1>1. /\ Base \in Nat \ {0} /\ \A i \in 0 .. 3 : w[i] \in 0 .. (Base - 1)
    BY BaseFacts DEF Word
  <1>2. w[0] \in 0 .. (Base - 1) /\ w[1] \in 0 .. (Base - 1)
        /\ w[2] \in 0 .. (Base - 1) /\ w[3] \in 0 .. (Base - 1)
    BY <1>1
  <1> DEFINE n == WordNumber(w)
  <1>3. n = FourDigits(Base, w[0], w[1], w[2], w[3])
    BY Zenon DEF WordNumber, FourDigits
  <1>4. /\ (n \div 1) % Base = w[0] /\ (n \div Base) % Base = w[1]
        /\ (n \div (Base * Base)) % Base = w[2] /\ (n \div (Base * (Base * Base))) % Base = w[3]
    <2> DEFINE f == FourDigits(Base, w[0], w[1], w[2], w[3])
    <2>1. /\ (f \div 1) % Base = w[0] /\ (f \div Base) % Base = w[1]
          /\ (f \div (Base * Base)) % Base = w[2] /\ (f \div (Base * (Base * Base))) % Base = w[3]
      BY <1>1, <1>2, DigitsOf
    <2> HIDE DEF f, n
    <2> QED
      BY <1>3, <2>1 DEF f
  <1>5. /\ Pow2[ByteBits * 0] = 1 /\ Pow2[ByteBits * 1] = Base
        /\ Pow2[ByteBits * 2] = Base * Base /\ Pow2[ByteBits * 3] = Base * (Base * Base)
    <2>1. ByteBits * 0 = 0 /\ ByteBits * 1 = ByteBits
      BY BaseFacts
    <2> QED
      BY <2>1, CpuMemoryAssumption DEF Base
  <1> HIDE DEF n
  <1>6. /\ (n \div Pow2[ByteBits * 0]) % Base = w[0] /\ (n \div Pow2[ByteBits * 1]) % Base = w[1]
        /\ (n \div Pow2[ByteBits * 2]) % Base = w[2] /\ (n \div Pow2[ByteBits * 3]) % Base = w[3]
    BY <1>4, <1>5, Zenon
  <1>7. d = 0 \/ d = 1 \/ d = 2 \/ d = 3
    OBVIOUS
  <1> QED
    BY <1>6, <1>7 DEF n

(* How far behind the stored address a byte of the segment lies: not less   *)
(* than a word's length when it lies before it.                             *)
LEMMA DistanceBehind ==
    ASSUME NEW x \in 0 .. (SegmentSize - 1), NEW off \in 0 .. (SegmentSize - 1),
           NEW p \in Nat, NEW c \in 1 .. 4
    PROVE  LET i == ((p + x) - (p + off)) % Pow2[WordBits]
           IN  /\ i < c <=> x \in off .. (off + c - 1)
               /\ i < c => i = x - off /\ i \in 0 .. 3
  <1> DEFINE m == Pow2[WordBits]
             dist == (p + x) - (p + off)
  <1>1. m \in Nat /\ SegmentSize + 3 <= m /\ SegmentSize \in Nat
    BY BaseFacts
  <1>2. dist = x - off
    OBVIOUS
  <1> HIDE DEF m, dist
  <1>3. CASE x >= off
    <2>1. dist \in 0 .. (m - 1)
      BY <1>1, <1>2, <1>3
    <2>2. dist % m = dist
      BY <1>1, <2>1
    <2> QED
      BY <1>2, <1>3, <2>2 DEF m, dist
  <1>4. CASE x < off
    <2>1. dist + m \in 4 .. (m - 1) /\ dist \in Int
      BY <1>1, <1>2, <1>4
    <2>2. dist % m = dist + m
      BY <1>1, <2>1
    <2>3. ~(dist % m < c) /\ x \notin off .. (off + c - 1)
      BY <1>1, <1>4, <2>1, <2>2
    <2> QED
      BY <2>3 DEF m, dist
  <1> QED
    BY <1>3, <1>4

LEMMA StoreLeaves ==
    ASSUME mem \in Contents, NEW a \in Address, NEW w \in Word, NEW size \in {1, 2, 4},
           mem' = Stored(mem, size, a, w)
    PROVE  DramBytes' = Data!Stored(size, AddressNumber(a), WordNumber(w))
  <1> DEFINE num == AddressNumber(a)
             m == Pow2[WordBits]
             p == DataSegment * SegmentSize
             n == IF num \notin DramAddresses THEN 0 ELSE IF size = 2 /\ num % 4 = 3 THEN 1 ELSE size
             byte(x) == (WordNumber(w) \div Pow2[ByteBits * ((x - num) % m)]) % Base
  <1>1. Data!Stored(size, num, WordNumber(w)) =
           [x \in DramAddresses |-> IF (x - num) % m < n THEN byte(x) ELSE DramBytes[x]]
    BY BaseFacts, Zenon DEF Data!Stored, Base
  <1>2. DramBytes' = [x \in DramAddresses |-> ReadU8(mem', <<DataSegment, x - p>>)]
    BY Zenon DEF DramBytes
  <1>3. ASSUME NEW x \in DramAddresses
        PROVE  ReadU8(mem', <<DataSegment, x - p>>) = IF (x - num) % m < n THEN byte(x) ELSE DramBytes[x]
    <2>1. PICK off \in 0 .. (SegmentSize - 1) : x = p + off
      BY DEF DramAddresses
    <2>2. p \in Nat /\ DataSegment \in Segment /\ DataSegment \in DramSegments /\ SegmentSize \in Nat
      BY BaseFacts, NumberParts
    <2> DEFINE y == <<DataSegment, off>>
    <2>3. x - p = off /\ y \in Address /\ y[1] = DataSegment /\ y[2] = off
      <3> HIDE DEF p
      <3> QED
        BY <2>1, <2>2 DEF Address
    <2>4. DramBytes[x] = ReadU8(mem, y)
      BY <2>3, Zenon DEF DramBytes
    <2>5. Location(y) # Nowhere
      BY <2>2, <2>3, PlaceIs, NowhereElse
    <2> HIDE DEF y, p
    <2>6. ReadU8(mem', y) = IF SameKind(a[1], DataSegment) /\ off \in a[2] .. (a[2] + Covers(size, a) - 1)
                            THEN w[off - a[2]] ELSE ReadU8(mem, y)
      BY <2>3, <2>5, ByteAfterStore
    <2> SUFFICES ReadU8(mem', y) = IF (x - num) % m < n THEN byte(x) ELSE ReadU8(mem, y)
      BY <2>3, <2>4, Zenon DEF y
    <2>7. CASE a[1] \in DramSegments
      <3>1. num = p + a[2] /\ num \in DramAddresses /\ num % 4 = Lane(a) /\ a[2] \in 0 .. (SegmentSize - 1)
        BY <2>7, NumberOfDram, AlignedType DEF p, Lane
      <3>2. n = Covers(size, a) /\ n \in 1 .. 4
        BY <3>1 DEF Covers
      <3>3. SameKind(a[1], DataSegment)
        BY <2>2, <2>7 DEF SameKind
      <3> DEFINE i == ((p + off) - (p + a[2])) % m
      <3>4. (x - num) % m = i
        BY <2>1, <3>1
      <3> HIDE DEF n, num
      <3>5. /\ i < n <=> off \in a[2] .. (a[2] + n - 1)
            /\ i < n => i = off - a[2] /\ i \in 0 .. 3
        BY <2>2, <3>1, <3>2, DistanceBehind
      <3> HIDE DEF i
      <3>6. ASSUME i < n PROVE byte(x) = w[off - a[2]]
        <4>1. (WordNumber(w) \div Pow2[ByteBits * i]) % Base = w[i]
          BY <3>5, <3>6, BytesOfNumber
        <4> QED
          BY <3>4, <3>5, <3>6, <4>1
      <3> HIDE DEF byte
      <3> QED
        BY <2>6, <3>2, <3>3, <3>4, <3>5, <3>6, Zenon
    <2>8. CASE a[1] \notin DramSegments
      <3>1. n = 0
        BY <2>8, NumberElsewhere
      <3>2. ~SameKind(a[1], DataSegment)
        BY <2>2, <2>8, KindsDisjoint
      <3>3. (x - num) % m \in Nat
        <4>1. num \in Int /\ x \in Int /\ m \in Nat \ {0}
          BY <2>1, <2>2, <2>8, NumberElsewhere, BaseFacts
        <4> HIDE DEF num, m
        <4> QED
          BY <4>1
      <3>4. ~((x - num) % m < n)
        <4> HIDE DEF num, m, n
        <4> QED
          BY <3>1, <3>3
      <3> HIDE DEF num, m, n, byte
      <3> QED
        BY <2>6, <3>2, <3>4, Zenon
    <2> QED
      BY <2>7, <2>8
  <1> HIDE DEF num, m, n, p, byte
  <1>4. DramBytes' = Data!Stored(size, num, WordNumber(w))
    BY <1>1, <1>2, <1>3
  <1> QED
    BY <1>4 DEF num

(* Whatever the map: a store changes the DRAM as DataMemory changes Ram.    *)
THEOREM StoresAreTheMaps == Spec => StoresReachMap
  <1>1. ASSUME MemoryTypeOK, Next
        PROVE  DramBytes' = Data!Stored(last'.size, AddressNumber(last'.at), WordNumber(last'.word))
    <2>1. PICK size \in {1, 2, 4}, a \in Targets, w \in Words :
             /\ mem' = Stored(mem, size, a, w)
             /\ last' = [size |-> size, at |-> a, word |-> w]
      BY <1>1, NextStores
    <2>2. mem \in Contents /\ a \in Address /\ w \in Word
      BY <1>1, MemoryAssumption DEF MemoryTypeOK
    <2>3. DramBytes' = Data!Stored(size, AddressNumber(a), WordNumber(w))
      BY <2>1, <2>2, StoreLeaves
    <2>4. last'.size = size /\ last'.at = a /\ last'.word = w
      BY <2>1
    <2> QED
      BY <2>3, <2>4, Zenon
  <1>2. MemoryTypeOK /\ [Next]_vars =>
           [DramBytes' = Data!Stored(last'.size, AddressNumber(last'.at), WordNumber(last'.word))]_vars
    BY <1>1
  <1> QED
    BY <1>2, MemoryTypeCorrect, PTL DEF Spec, StoresReachMap

--------------------------------------------------------------------------------
(* Boot: loading the firmware. *)

Cells == 0 .. (Size + Behind - 1)

(* Bytes are written in order, and never more than were measured. *)
Progress ==
    /\ at \in {"open", "measure"} => position = 0
    /\ \A a \in Cells : a >= Offset + position => memory[a] = 0

BInv == BootTypeOK /\ Progress

LEMMA BInvInit == BootInit => BInv
  <1> SUFFICES ASSUME BootInit PROVE BInv
    OBVIOUS
  <1>1. /\ file \in Files /\ seekable \in BOOLEAN /\ fileSize = 0 /\ position = 0
        /\ memory = [a \in Cells |-> 0] /\ at = "open" /\ warned = FALSE /\ changes = 0
        /\ 0 \in Bytes /\ MaxChanges \in Nat
    BY BootAssumption DEF BootInit, Cells
  <1>2. memory \in [Cells -> Bytes] /\ \A a \in Cells : memory[a] = 0
    BY <1>1
  <1>3. BootTypeOK
    <2>1. fileSize # Unknown /\ position \in 0 .. fileSize /\ changes \in 0 .. MaxChanges
      BY <1>1 DEF Unknown
    <2> QED
      BY <1>1, <1>2, <2>1 DEF BootTypeOK, Cells
  <1> QED
    BY <1>1, <1>2, <1>3 DEF BInv, Progress

LEMMA BInvStep ==
    ASSUME BInv, [BootNext]_bootvars
    PROVE  BInv'
  <1>0. /\ file \in Files /\ seekable \in BOOLEAN /\ memory \in [Cells -> Bytes]
        /\ warned \in BOOLEAN /\ changes \in 0 .. MaxChanges
        /\ fileSize \in Int /\ position \in Nat
        /\ Size \in Nat /\ Behind \in Nat /\ Offset \in Nat /\ MaxChanges \in Nat
        /\ Files \subseteq Seq(Bytes)
    BY BootAssumption DEF BInv, BootTypeOK, Cells, Unknown
  <1>1. CASE Open
    BY <1>1 DEF Open, BInv, BootTypeOK, Progress
  <1>2. CASE Measure
    <2>1. position = 0 /\ position' = 0 /\ Len(file) \in Nat
      BY <1>0, <1>2 DEF Measure, BInv, Progress
    <2>2. BootTypeOK'
      BY <1>0, <1>2, <2>1 DEF Measure, BInv, BootTypeOK, Unknown, Cells
    <2>3. Progress'
      BY <1>2, <2>1 DEF Measure, BInv, Progress
    <2> QED
      BY <2>2, <2>3 DEF BInv
  <1>3. CASE ReadByte
    <2>1. /\ position # fileSize /\ position < Len(file) /\ at = "read" /\ at' = "read"
          /\ memory' = [memory EXCEPT ![Offset + position] = file[position + 1]]
          /\ position' = position + 1
          /\ UNCHANGED <<file, seekable, fileSize, warned, changes>>
      BY <1>3 DEF ReadByte, More, Place
    <2>2. file[position + 1] \in Bytes /\ Offset + Len(file) <= Size + Behind
      BY <1>0, <2>1, BootAssumption
    <2>3. memory' \in [Cells -> Bytes]
      BY <1>0, <2>1, <2>2
    <2>4. position' \in 0 .. (IF fileSize = Unknown THEN Size + Behind ELSE fileSize)
      <3>1. CASE fileSize = Unknown
        BY <1>0, <2>1, <2>2, <3>1
      <3>2. CASE fileSize # Unknown
        <4>1. position <= fileSize
          BY <1>0, <3>2 DEF BInv, BootTypeOK
        <4> QED
          BY <1>0, <2>1, <3>2, <4>1
      <3> QED
        BY <3>1, <3>2
    <2>5. BootTypeOK'
      BY <1>0, <2>1, <2>3, <2>4 DEF BInv, BootTypeOK, Cells
    <2>6. ASSUME NEW a \in Cells, a >= Offset + position'
          PROVE  memory'[a] = 0
      <3>1. a # Offset + position /\ a >= Offset + position
        BY <1>0, <2>1, <2>6 DEF Cells
      <3> QED
        BY <1>0, <2>1, <3>1 DEF BInv, Progress
    <2> QED
      BY <2>1, <2>5, <2>6 DEF BInv, Progress
  <1>4. CASE Finish
    BY <1>0, <1>4 DEF Finish, BInv, BootTypeOK, Progress
  <1>5. CASE Change
    BY <1>0, <1>5 DEF Change, BInv, BootTypeOK, Progress
  <1>6. CASE UNCHANGED bootvars
    BY <1>6 DEF bootvars, BInv, BootTypeOK, Progress
  <1> QED
    BY <1>1, <1>2, <1>3, <1>4, <1>5, <1>6 DEF BootNext, Load

LEMMA BInvGuards == BInv => OverrunWasMeasured
  <1> SUFFICES ASSUME BInv, NEW a \in Size .. (Size + Behind - 1), memory[a] # 0
               PROVE  Offset + fileSize > Size \/ fileSize = Unknown
    BY DEF OverrunWasMeasured
  <1>1. /\ Size \in Nat /\ Behind \in Nat /\ Offset \in Nat /\ fileSize \in Int
        /\ position \in Nat /\ a \in Cells
    BY BootAssumption DEF BInv, BootTypeOK, Cells, Unknown
  <1>2. a < Offset + position
    BY <1>1 DEF BInv, Progress, Cells
  <1>3. fileSize # Unknown => position <= fileSize
    BY DEF BInv, BootTypeOK
  <1> QED
    BY <1>1, <1>2, <1>3

(* Loading keeps its types: fread never stores more than was measured. *)
THEOREM BootTypeCorrect == BootSpec => []BootTypeOK
  <1>1. BInv => BootTypeOK
    BY DEF BInv
  <1> QED
    BY <1>1, BInvInit, BInvStep, PTL DEF BootSpec

(* Whatever the sizes, the region is overrun only by a file that did not    *)
(* fit, or could not be measured, when its size was asked for.              *)
THEOREM OverrunsAreMeasured == BootSpec => []OverrunWasMeasured
  <1> QED
    BY BInvInit, BInvStep, BInvGuards, PTL DEF BootSpec

--------------------------------------------------------------------------------
(* As long as nobody replaces the file, the region holds what of it has been *)
(* read, and what was measured is its length if it could be sought; a silent *)
(* start has read as much as was measured.                                   *)
Image(f, n) ==
    [a \in Cells |-> IF a - Offset \in 0 .. (n - 1) THEN f[a - Offset + 1] ELSE 0]

Untouched ==
    changes = 0 =>
        /\ position <= Len(file)
        /\ memory = Image(file, position)
        /\ at \in {"read", "running"} => fileSize = IF seekable THEN Len(file) ELSE Unknown

Silent == at = "running" /\ ~warned => position = fileSize

WInv == BInv /\ Untouched /\ Silent

LEMMA ImageAt ==
    ASSUME NEW f, NEW n, NEW a \in Cells
    PROVE  Image(f, n)[a] = IF a - Offset \in 0 .. (n - 1) THEN f[a - Offset + 1] ELSE 0
  BY Zenon DEF Image

LEMMA StateTypes ==
    ASSUME BInv
    PROVE  /\ file \in Seq(Bytes) /\ Len(file) \in Nat /\ file \in Files
           /\ memory \in [Cells -> Bytes]
           /\ fileSize \in Int /\ position \in Nat /\ changes \in Nat
           /\ Size \in Nat /\ Behind \in Nat /\ Offset \in Nat /\ Offset <= Size
           /\ Offset + Len(file) <= Size + Behind
  <1>1. file \in Files /\ Files \subseteq Seq(Bytes)
    BY BootAssumption DEF BInv, BootTypeOK
  <1>2. file \in Seq(Bytes) /\ Len(file) \in Nat
    BY <1>1
  <1>3. fileSize \in Int /\ position \in Nat /\ changes \in Nat /\ memory \in [Cells -> Bytes]
    BY BootAssumption DEF BInv, BootTypeOK, Cells, Unknown
  <1> QED
    BY <1>1, <1>2, <1>3, BootAssumption

LEMMA WInvInit == BootInit => WInv
  <1> SUFFICES ASSUME BootInit PROVE WInv
    OBVIOUS
  <1>1. BInv
    BY BInvInit
  <1>2. position = 0 /\ at = "open" /\ memory = [a \in Cells |-> 0] /\ Len(file) \in Nat
    BY <1>1, StateTypes DEF BootInit, Cells
  <1>3. memory = Image(file, position)
    BY <1>1, <1>2, StateTypes DEF Image, Cells
  <1> QED
    BY <1>1, <1>2, <1>3 DEF WInv, Untouched, Silent

LEMMA ReadByteKeeps ==
    ASSUME WInv, ReadByte
    PROVE  Untouched' /\ Silent'
  <1>1. /\ position # fileSize /\ position < Len(file) /\ at = "read" /\ at' = "read"
        /\ memory' = [memory EXCEPT ![Offset + position] = file[position + 1]]
        /\ position' = position + 1 /\ file' = file /\ fileSize' = fileSize
        /\ seekable' = seekable /\ changes' = changes
    BY DEF ReadByte, More, Place
  <1>2. /\ Len(file) \in Nat /\ memory \in [Cells -> Bytes] /\ position \in Nat
        /\ Offset \in Nat /\ Size \in Nat /\ Behind \in Nat
        /\ Offset + Len(file) <= Size + Behind
    BY StateTypes DEF WInv
  <1>3. ASSUME changes = 0
        PROVE  memory' = Image(file, position + 1)
    <2>1. memory = Image(file, position)
      BY <1>3 DEF WInv, Untouched
    <2>2. Offset + position \in Cells
      BY <1>1, <1>2 DEF Cells
    <2>3. \A a \in Cells : memory'[a] = Image(file, position + 1)[a]
      <3> SUFFICES ASSUME NEW a \in Cells PROVE memory'[a] = Image(file, position + 1)[a]
        OBVIOUS
      <3>1. a \in Int /\ Image(file, position)[a] = memory[a]
        BY <2>1 DEF Cells
      <3>2. CASE a = Offset + position
        <4>1. memory'[a] = file[position + 1] /\ a - Offset = position
          BY <1>1, <1>2, <2>2, <3>2
        <4>2. Image(file, position + 1)[a] = file[position + 1]
          BY <1>2, <4>1 DEF Image
        <4> QED
          BY <4>1, <4>2
      <3>3. CASE a # Offset + position
        <4>1. memory'[a] = memory[a]
          BY <1>1, <1>2, <3>3
        <4>2. Image(file, position + 1)[a] = Image(file, position)[a]
          BY <1>2, <3>1, <3>3, ImageAt
        <4> QED
          BY <3>1, <4>1, <4>2
      <3> QED
        BY <3>2, <3>3
    <2>4. memory' \in [Cells -> Bytes \cup {file[position + 1]}]
      BY <1>1, <1>2
    <2>5. Image(file, position + 1) = [a \in Cells |-> Image(file, position + 1)[a]]
      BY DEF Image
    <2>6. memory' = [a \in Cells |-> memory'[a]]
      BY <2>4
    <2> QED
      BY <2>3, <2>5, <2>6
  <1> QED
    BY <1>1, <1>2, <1>3 DEF WInv, Untouched, Silent

LEMMA WInvStep ==
    ASSUME WInv, [BootNext]_bootvars
    PROVE  WInv'
  <1>0. BInv' /\ BInv
    BY BInvStep DEF WInv
  <1>1. CASE Open
    BY <1>0, <1>1 DEF Open, WInv, Untouched, Silent, Image
  <1>2. CASE Measure
    BY <1>0, <1>2 DEF Measure, WInv, Untouched, Silent, Image
  <1>3. CASE ReadByte
    BY <1>0, <1>3, ReadByteKeeps DEF WInv
  <1>4. CASE Finish
    BY <1>0, <1>4 DEF Finish, WInv, Untouched, Silent, Image
  <1>5. CASE Change
    <2>1. changes' # 0 /\ at' # "running"
      BY <1>0, <1>5, StateTypes DEF Change
    <2> QED
      BY <1>0, <2>1 DEF WInv, Untouched, Silent
  <1>6. CASE UNCHANGED bootvars
    BY <1>0, <1>6 DEF bootvars, WInv, Untouched, Silent, Image
  <1> QED
    BY <1>1, <1>2, <1>3, <1>4, <1>5, <1>6 DEF BootNext, Load

LEMMA WInvMeans == WInv => SilentMeansWhole
  <1> SUFFICES ASSUME WInv, at = "running", ~warned
               PROVE  /\ position = fileSize
                      /\ changes = 0 =>
                            \A a \in 0 .. (Size - 1) :
                                memory[a] = IF a - Offset \in 0 .. (Len(file) - 1)
                                            THEN file[a - Offset + 1] ELSE 0
    BY DEF SilentMeansWhole
  <1>1. position = fileSize /\ position \in Nat /\ Size \in Nat /\ Behind \in Nat
        /\ Len(file) \in Nat
    BY StateTypes DEF WInv, Silent
  <1>2. ASSUME changes = 0, NEW a \in 0 .. (Size - 1)
        PROVE  memory[a] = IF a - Offset \in 0 .. (Len(file) - 1)
                           THEN file[a - Offset + 1] ELSE 0
    <2>1. position = Len(file) /\ memory = Image(file, position)
      BY <1>1, <1>2 DEF WInv, Untouched, Unknown
    <2>2. a \in Cells
      BY <1>1 DEF Cells
    <2> QED
      BY <2>1, <2>2, Zenon DEF Image
  <1> QED
    BY <1>1, <1>2

(* Whatever the file, the region and what happens to the file meanwhile: an *)
(* emulator that starts without a warning read as much as was measured, and *)
(* of a file nobody replaced every byte, to its place.                      *)
THEOREM SilentStartIsWhole == BootSpec => []SilentMeansWhole
  <1> QED
    BY WInvInit, WInvStep, WInvMeans, PTL DEF BootSpec
================================================================================
