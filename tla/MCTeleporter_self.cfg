CONSTANTS
    A = A
    B = B
    r1 = r1
    r2 = r2
    t1 = t1
    Zero = Zero
    Chains = {A}
    Relayers = {r1, r2}
    ActiveRelayers = {r1, r2}
    Tokens = {t1}
    MaxMessageID = 3
    MaxReceiptCount = 1
    MaxFee = 1
    MaxSpecified = 2
    SendInputs <- SelfInputs
    OtherWarpMessages = {}
SPECIFICATION Spec
INVARIANTS
    ReceiptNeverLost
    FeesAccounted
CHECK_DEADLOCK FALSE
