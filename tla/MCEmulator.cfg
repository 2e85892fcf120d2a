CONSTANTS
    WordBits = 8
    Pow2 <- MCPow2
    BitAnd <- MCAnd
    BitOr <- MCOr
    BitXor <- MCXor
    ByteBits = 2
    Ram <- Cells
    Decoding <- NoCode
    Programs <- MCPrograms
    DebugControl = 32
    FarSpan = 256
    NearSpan = 128
    CauseUnit = 4
    Causes = {47}
    Arguments <- MCArguments
    StoreValues = {7}
    StoreSizes = {1, 4}
    CycleCounts = {0, 4}
    ViewStart = 64
    MaxCommands = 5
SPECIFICATION ESpec
INVARIANTS
    ETypeOK
    ReturnsGoBack
    StepOverStopsBehindCall
PROPERTY BehavesAsRunControl
CHECK_DEADLOCK FALSE
