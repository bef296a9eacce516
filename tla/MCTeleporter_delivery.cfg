CONSTANTS
    A = A
    B = B
    r1 = r1
    r2 = r2
    t1 = t1
    Zero = Zero
    Chains = {A, B}
    Relayers = {r1, r2}
    ActiveRelayers = {r1, r2}
    Tokens = {t1}
    MaxMessageID = 2
    MaxReceiptCount = 1
    MaxFee = 0
    MaxSpecified = 1
    SendInputs <- DeliveryInputs
    OtherWarpMessages <- Imitations
SPECIFICATION Spec
INVARIANTS
    TypeOK
    MessageNeverLost
    ReceiptsTruthful
    ReceiptNeverLost
    ExecutedXorRetryable
    SignedMessagesAreSent
PROPERTIES
    ImplementsDelivery
CHECK_DEADLOCK FALSE
