CONSTANTS
    WordBits = 3
    Pow2 <- MCPow2
    BitAnd <- MCAnd
    BitOr <- MCOr
    BitXor <- MCXor
    ShiftAmounts = {1}
    FieldWidths = {1}
SPECIFICATION Spec
INVARIANT AddcCarriesOut
