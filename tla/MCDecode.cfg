CONSTANTS
    RDs = {0, 1, 3, 18}
    RAs = {0, 6, 8, 14, 17, 20, 26, 31}
    RBs = {1, 15, 31}
    Others = {132, 16384, 32767}
    Uppers <- MCUppers
    Lowers <- MCLowers
    Addresses <- MCAddresses
SPECIFICATION Spec
INVARIANTS
    DecodeTypeOK
    ShownIsExecuted
