CONSTANTS
    WordBits = 4
    Pow2 <- MCPow2
    BitAnd <- MCAnd
    BitOr <- MCOr
    BitXor <- MCXor
    ShiftAmounts = {0, 1, 2, 3, 4, 5, 9}
    FieldWidths = {1, 2, 4}
SPECIFICATION Spec
INVARIANTS
    UnitTypeOK
    SumsExact
    ConditionsDecideOrder
    DoubleWordChain
    ShiftsExact
    ExtendKeepsValue
