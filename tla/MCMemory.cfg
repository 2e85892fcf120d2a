CONSTANTS
    Byte <- MCByte
    Zero = 0
    AllOnes = 15
    ReadyByte = 12
    SegmentSize = 48
    IoSegmentSize = 24
    FirmwareSegments = {1, 2}
    DramSegments = {3, 4}
    MmioSegments = {5, 6}
    EmptySegments = {7}
    UartSegment = 1
    Images <- MCImages
    HeapTail = {0, 9}
    Words <- MCWords
    Targets <- MCTargets
    MaxStores = 2
    WordBits = 16
    Pow2 <- MCPow2
    BitAnd <- NoBits
    BitOr <- NoBits
    BitXor <- NoBits
    ByteBits = 4
    DataSegment = 3
SPECIFICATION Spec
INVARIANTS
    MemoryTypeOK
    ReadsBack
    LoadsReachMap
PROPERTIES
    IsFlatMemory
    StoresReachMap
    OnlyUnalignedWordsOverrun
CHECK_DEADLOCK FALSE
