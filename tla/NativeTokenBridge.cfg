CONSTANTS
    InitialReserveImbalance = 2
    Slots = 2
    MaxAmount = 3
    MaxTransferred = 6
    MaxReports = 3
SPECIFICATION FairSpec
INVARIANTS
    Backed
    UnlocksPayable
    ReportsTrue
PROPERTIES
    TransfersArrive
    ReportsArrive
