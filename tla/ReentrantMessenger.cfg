CONSTANTS
    MaxReceiptCount = 1
    R = 2
    MaxSent = 2
    MaxReceived = 2
    MaxFee = 2
    MaxHoldings = 3
    MaxReceipts = 1
    MaxDepth = 4
SPECIFICATION Spec
INVARIANTS
    NoRecursion
    Solvent
    ReceiptKept
    ExecutedOnce
PROPERTIES
    SettledForGood
CHECK_DEADLOCK FALSE
