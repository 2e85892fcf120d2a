CONSTANTS
    WordBits = 8
    Pow2 <- MCPow2
    BitAnd <- MCAnd
    BitOr <- MCOr
    BitXor <- MCXor
    ByteBits = 2
    Ram <- Cells
    Decoding <- MCDecoding
    Programs <- MCCarelessPrograms
    DebugControl = 32
    FarSpan = 256
    NearSpan = 128
    CauseUnit = 4
    Causes = {60}
    MaxInterrupts = 2
    HandlerRam <- HandlerCells
    Window = {}
SPECIFICATION PSpec
PROPERTY RteRestoresFlags
CHECK_DEADLOCK FALSE
