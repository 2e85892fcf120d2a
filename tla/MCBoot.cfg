CONSTANTS
    Size = 3
    Behind = 3
    Offset = 0
    Bytes = {0, 1, 2}
    Files <- MCFiles
    MaxChanges = 2
SPECIFICATION BootSpec
INVARIANTS
    BootTypeOK
    SilentMeansWhole
    OverrunWasMeasured
PROPERTY Boots
CHECK_DEADLOCK FALSE
