CONSTANTS
    t1 = t1
    t2 = t2
    t3 = t3
    m1 = m1
    m2 = m2
    m3 = m3
    OtherChain = OtherChain
    OtherRegistry = OtherRegistry
    Addresses = {t1, t2}
    Zero = Zero
    MaxVersion = 3
    MaxVersionIncrement = 2
    InitialEntries <- Lists
    ThisChain = ThisChain
    ThisRegistry = ThisRegistry
    SignedMessages <- RollbackMessages
    Messages = {m1}
    TeleporterOf <- Teleporters
SPECIFICATION Spec
PROPERTIES
    MinUpdatedBelowLatest
CHECK_DEADLOCK FALSE
