CONSTANTS
    A = A
    B = B
    r1 = r1
    r2 = r2
    t1 = t1
    Zero = Zero
    Chains = {A, B}
    Relayers = {r1, r2}
    ActiveRelayers = {r1, r2}
    Tokens = {t1}
    MaxMessageID = 2
    MaxReceiptCount = 1
    MaxFee = 2
    MaxSpecified = 1
    SendInputs <- FeeInputs
    OtherWarpMessages = {}
SPECIFICATION Spec
INVARIANTS
    FeesAccounted
PROPERTIES
    RewardsAreEarned
SYMMETRY RelayerSymmetry
CHECK_DEADLOCK FALSE
