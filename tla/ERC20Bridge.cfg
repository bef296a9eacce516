CONSTANTS
    N = 3
    Foreign = {3}
    Slots = 1
    MaxAmount = 2
    MaxLocked = 3
SPECIFICATION FairSpec
INVARIANTS
    Collateralized
    ReturnsPayable
PROPERTIES
    TokensArrive
    LedgerSpec
CHECK_DEADLOCK FALSE
