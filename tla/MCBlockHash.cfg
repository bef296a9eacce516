CONSTANTS
    Hashes = {h1, h2}
    NoHash = NoHash
    MaxHeight = 3
    OtherMessages <- ForeignMessages
SPECIFICATION FairSpec
INVARIANTS
    HashOfHeight
PROPERTIES
    CatchesUp
