CONSTANTS
    A = A
    B = B
    r1 = r1
    r2 = r2
    t1 = t1
    Zero = Zero
    Chains = {A, B}
    Relayers = {r1}
    ActiveRelayers = {r1}
    Tokens = {t1}
    MaxMessageID = 1
    MaxReceiptCount = 1
    MaxFee = 2
    MaxSpecified = 0
    SendInputs <- RoundTripInputs
    OtherWarpMessages = {}
SPECIFICATION Spec
PROPERTIES
    FeeAddedBeforeDelivery
CHECK_DEADLOCK FALSE
