CONSTANTS
    Span = 32
    Memories <- MCMemories
    LookBacks = 3
    Lines = 6
    Breakpoints = {8}
    Assigned = {0, 2, 4, 6, 8, 10, 12, 14, 16, 18}
SPECIFICATION Spec
INVARIANTS
    ListingTypeOK
    PcOnItsRow
    MarkedIsExecuted
CHECK_DEADLOCK FALSE
