CONSTANTS
    t1 = t1
    t2 = t2
    t3 = t3
    m1 = m1
    m2 = m2
    m3 = m3
    OtherChain = OtherChain
    OtherRegistry = OtherRegistry
    Addresses = {t1, t2, t3}
    Zero = Zero
    MaxVersion = 4
    MaxVersionIncrement = 2
    InitialEntries <- Lists
    ThisChain = ThisChain
    ThisRegistry = ThisRegistry
    SignedMessages <- AllMessages
    Messages = {m1, m2, m3}
    TeleporterOf <- Teleporters
SPECIFICATION FairSpec
INVARIANTS
    RegistryConsistent
    VersionsAuthorized
    SendersAccepted
PROPERTIES
    VersionsPermanent
    OnlyOwnerRevokes
    RetiredStaysRetired
    RetriesSucceed
