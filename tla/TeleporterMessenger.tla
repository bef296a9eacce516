------------------------- MODULE TeleporterMessenger -------------------------
(***************************************************************************)
(* The TeleporterMessenger contract (src/contracts/src/Teleporter/         *)
(* TeleporterMessenger.sol) deployed at the same address on every chain of *)
(* Chains.  A transaction of the contract is one atomic step; the chains   *)
(* interact only through signed warp messages, which relayers carry, lose, *)
(* repeat and reorder as they like.                                        *)
(*                                                                         *)
(* A message hash is modelled by the hashed message itself, the zero hash  *)
(* and the zero address by the constant Zero.                              *)
(***************************************************************************)
EXTENDS Naturals, Sequences, FiniteSets, FiniteSetsExt, ReceiptBatch

CONSTANTS
    Chains,            \* blockchain IDs
    Relayers,          \* accounts that deliver messages and collect rewards
    ActiveRelayers,    \* those of them that liveness may rely on
    Tokens,            \* ERC20 fee assets
    Zero,              \* address(0) and bytes32(0)
    MaxMessageID,      \* bound: last message ID used for a destination
    MaxFee,            \* bound: largest fee of one message
    MaxSpecified,      \* bound: length of a sendSpecifiedReceipts list
    SendInputs,        \* bound: what senders ask for
    OtherWarpMessages  \* signed warp messages of other contracts

Teleporter == "TeleporterMessenger"
Others == "other contract"

MessageIDs == 1..MaxMessageID
FeeAssets  == Tokens \cup {Zero}

\* One cross-chain message: latestMessageIDs makes the ID unique on its route.
MessageKeys == [src : Chains, dst : Chains, id : MessageIDs]
Key(s, d, i) == [src |-> s, dst |-> d, id |-> i]

Receipts == [receivedMessageID : MessageIDs, relayerRewardAddress : Relayers]
FeeInfos == [feeTokenAddress : FeeAssets, amount : Nat]

\* TeleporterMessage.  The list of allowed relayers is only ever searched, so
\* it is a set; of the payload only whether it is empty matters here.
Messages == [messageID               : MessageIDs,
             destinationBlockchainID : Chains,
             allowedRelayerAddresses : SUBSET Relayers,
             receipts                : Seq(Receipts),
             nonEmpty                : BOOLEAN]

SentMessageInfos == [messageHash : Messages, feeInfo : FeeInfos]

WarpMessages == [sourceChainID       : Chains,
                 originSenderAddress : {Teleporter, Others},
                 payload             : Messages]

\* What a sender asks for, in messages with an ID up to maxID.
Inputs == [src : Chains, dst : Chains, maxID : Nat, fee : FeeInfos,
           allowed : SUBSET Relayers, nonEmpty : BOOLEAN]

ASSUME BoundsAssumption ==
    /\ MaxMessageID \in Nat
    /\ MaxFee \in Nat
    /\ MaxSpecified \in Nat

ASSUME ActiveAssumption == ActiveRelayers \subseteq Relayers

ASSUME FinitenessAssumption == IsFiniteSet(Chains) /\ IsFiniteSet(Relayers)

ASSUME ZeroAssumption ==
    /\ Zero \notin Relayers
    /\ Zero \notin Tokens
    /\ Zero \notin Messages
    /\ Zero \notin SentMessageInfos

ASSUME InputsAssumption ==
    /\ SendInputs \subseteq Inputs
    /\ OtherWarpMessages \subseteq WarpMessages
    /\ \A w \in OtherWarpMessages : w.originSenderAddress # Teleporter

VARIABLES
    latestMessageIDs,            \* [chain][destination]: last ID used
    receiptQueues,               \* [chain][source]: receipts not yet returned
    sentMessageInfo,             \* [key], kept on key.src until the receipt
    receivedFailedMessageHashes, \* [key], kept on key.dst until executed
    relayerRewardAddresses,      \* [key], kept on key.dst for ever
    relayerRewardAmounts,        \* [chain][relayer, asset]: redeemable
    balances,                    \* [chain][token]: ERC20 held by the contract
    warpMessages,                \* warp messages that validators would sign
    deployed,                    \* chains where the destination has code
    executed                     \* [key]: messages of the MessageExecuted events

vars == << latestMessageIDs, receiptQueues, sentMessageInfo,
           receivedFailedMessageHashes, relayerRewardAddresses,
           relayerRewardAmounts, balances, warpMessages, deployed, executed >>

senderVars   == << latestMessageIDs, sentMessageInfo, balances, warpMessages >>
receiverVars == << receivedFailedMessageHashes, relayerRewardAddresses, executed >>

Init ==
    /\ latestMessageIDs = [c \in Chains |-> [d \in Chains |-> 0]]
    /\ receiptQueues = [c \in Chains |-> [s \in Chains |-> << >>]]
    /\ sentMessageInfo = [k \in MessageKeys |-> Zero]
    /\ receivedFailedMessageHashes = [k \in MessageKeys |-> Zero]
    /\ relayerRewardAddresses = [k \in MessageKeys |-> Zero]
    /\ relayerRewardAmounts = [c \in Chains |-> [p \in Relayers \X FeeAssets |-> 0]]
    /\ balances = [c \in Chains |-> [t \in Tokens |-> 0]]
    /\ warpMessages = {}
    /\ deployed = {}
    /\ executed = [k \in MessageKeys |-> << >>]

-----------------------------------------------------------------------------
(* Sending                                                                 *)

NextMessageID(c, d) == latestMessageIDs[c][d] + 1

\* (Mutant: a delivery does not mark its message as received.)
NeverReceived(k) == FALSE
MessageReceived(k) == relayerRewardAddresses[k] # Zero

MessageSent(k) == sentMessageInfo[k] # Zero

\* Two hashes are equal only if the hashed messages are.
\* (Mutant: the hash of a given message is not compared.)
AnyHash(m, hash) == TRUE
MatchesHash(m, hash) == m = hash

\* What safeTransferFrom may add to the contract's balance: a token may keep
\* part of the amount as a transfer fee, but an increase of 0 reverts.
AmountsReceived(amount) == IF amount = 0 THEN {0} ELSE 1..amount

\* The tokens held after safeTransferFrom of an asset (address zero never is).
Deposit(c, asset, amount) ==
    [balances EXCEPT ![c] =
        [t \in Tokens |-> IF t = asset THEN @[t] + amount ELSE @[t]]]

WarpMessage(c, m) ==
    [sourceChainID |-> c, originSenderAddress |-> Teleporter, payload |-> m]

\* (Mutant: the amount asked for is recorded, not the one received.)
FeeAsOffered(fee, received) == fee
AdjustedFeeInfo(fee, received) == [fee EXCEPT !.amount = received]

NewMessage(c, d, allowed, nonEmpty, receipts) ==
    [messageID               |-> NextMessageID(c, d),
     destinationBlockchainID |-> d,
     allowedRelayerAddresses |-> allowed,
     receipts                |-> receipts,
     nonEmpty                |-> nonEmpty]

SendTeleporterMessage(c, d, fee, received, allowed, nonEmpty, receipts) ==
    LET id == NextMessageID(c, d)
        m  == NewMessage(c, d, allowed, nonEmpty, receipts)
    IN  /\ id <= MaxMessageID
        /\ fee.amount > 0 => fee.feeTokenAddress # Zero
        /\ received \in AmountsReceived(fee.amount)
        /\ latestMessageIDs' = [latestMessageIDs EXCEPT ![c][d] = id]
        /\ balances' = Deposit(c, fee.feeTokenAddress, received)
        /\ sentMessageInfo' = [sentMessageInfo EXCEPT ![Key(c, d, id)] =
               [messageHash |-> m, feeInfo |-> AdjustedFeeInfo(fee, received)]]
        /\ warpMessages' = warpMessages \cup {WarpMessage(c, m)}

SendCrossChainMessage(c, d, fee, received, allowed, nonEmpty) ==
    /\ SendTeleporterMessage(c, d, fee, received, allowed, nonEmpty,
                             OutstandingReceipts(receiptQueues[c][d]))
    /\ receiptQueues' = [receiptQueues EXCEPT ![c][d] = QueueAfterSending(@)]
    /\ UNCHANGED << receiverVars, relayerRewardAmounts, deployed >>

\* (Mutants: receipts of messages never received are made up; only receipts
\* that still wait in the queue are found.)
AnyReceiptFound(origin, c, messageIDs) == TRUE
ReceiptsInQueue(origin, c, messageIDs) ==
    \A i \in DOMAIN messageIDs : \E j \in DOMAIN receiptQueues[c][origin] :
        receiptQueues[c][origin][j].receivedMessageID = messageIDs[i]
ReceiptsFound(origin, c, messageIDs) ==
    \A i \in DOMAIN messageIDs : MessageReceived(Key(origin, c, messageIDs[i]))

\* The same receipt may be specified twice, in any order, or none at all, and
\* all of them stay in the queue.
SpecifiedReceipts(origin, c, messageIDs) ==
    [i \in DOMAIN messageIDs |->
        [receivedMessageID    |-> messageIDs[i],
         relayerRewardAddress |-> relayerRewardAddresses[Key(origin, c, messageIDs[i])]]]

SendSpecifiedReceipts(c, origin, messageIDs, fee, received, allowed) ==
    /\ ReceiptsFound(origin, c, messageIDs)
    /\ SendTeleporterMessage(c, origin, fee, received, allowed, FALSE,
                             SpecifiedReceipts(origin, c, messageIDs))
    /\ UNCHANGED << receiptQueues, receiverVars, relayerRewardAmounts, deployed >>

\* Messages a caller can name when it retries one: any that was sent, and the
\* payloads of other contracts' warp messages.
KnownMessages ==
    {w.payload : w \in OtherWarpMessages}
        \cup {sentMessageInfo[k].messageHash : k \in {k \in MessageKeys : MessageSent(k)}}
        \cup ({receivedFailedMessageHashes[k] : k \in MessageKeys} \ {Zero})

RetrySendCrossChainMessage(c, d, m) ==
    LET k == Key(c, d, m.messageID)
    IN  /\ MessageSent(k)
        /\ MatchesHash(m, sentMessageInfo[k].messageHash)
        /\ warpMessages' = warpMessages \cup {WarpMessage(c, m)}
        /\ UNCHANGED << latestMessageIDs, receiptQueues, sentMessageInfo,
                        receiverVars, relayerRewardAmounts, balances, deployed >>

AddFeeAmount(k, token, additional, received) ==
    /\ additional > 0
    /\ token # Zero
    /\ MessageSent(k)
    /\ sentMessageInfo[k].feeInfo.feeTokenAddress = token
    /\ received \in AmountsReceived(additional)
    /\ sentMessageInfo[k].feeInfo.amount + received <= MaxFee
    /\ balances' = Deposit(k.src, token, received)
    /\ sentMessageInfo' = [sentMessageInfo EXCEPT ![k].feeInfo.amount = @ + received]
    /\ UNCHANGED << latestMessageIDs, receiptQueues, receiverVars,
                    relayerRewardAmounts, warpMessages, deployed >>

-----------------------------------------------------------------------------
(* Receiving                                                               *)

\* (Mutant: an empty list allows nobody.)
OnlyListedRelayer(deliverer, allowed) == deliverer \in allowed
CheckIsAllowedRelayer(deliverer, allowed) == allowed = {} \/ deliverer \in allowed

\* The sent messages and the rewards of chain c after one receipt from chain d.
Credited(ledger, receipt, feeInfo) ==
    [ledger.rewards EXCEPT
        ![<<receipt.relayerRewardAddress, feeInfo.feeTokenAddress>>] = @ + feeInfo.amount]

\* (Mutant: the message stays stored when its fee is credited.)
MarkReceiptWithoutDelete(ledger, c, d, receipt) ==
    LET k == Key(c, d, receipt.receivedMessageID)
    IN  IF ledger.sent[k] = Zero
        THEN ledger
        ELSE [ledger EXCEPT !.rewards = Credited(ledger, receipt, ledger.sent[k].feeInfo)]
MarkReceipt(ledger, c, d, receipt) ==
    LET k == Key(c, d, receipt.receivedMessageID)
    IN  IF ledger.sent[k] = Zero
        THEN ledger
        ELSE [sent    |-> [ledger.sent EXCEPT ![k] = Zero],
              rewards |-> Credited(ledger, receipt, ledger.sent[k].feeInfo)]

\* The loop over the receipts of a delivered message, up to the n-th.
MarkFirst(c, d, receipts, n) ==
    LET after[i \in 0..Len(receipts)] ==
            IF i = 0
            THEN [sent |-> sentMessageInfo, rewards |-> relayerRewardAmounts[c]]
            ELSE MarkReceipt(after[i - 1], c, d, receipts[i])
    IN  after[n]

\* (Mutant: the loop stops one receipt early.)
MarkAllButLast(c, d, receipts) ==
    MarkFirst(c, d, receipts, IF receipts = << >> THEN 0 ELSE Len(receipts) - 1)
MarkReceipts(c, d, receipts) == MarkFirst(c, d, receipts, Len(receipts))

\* (Mutant: the receipt of a delivery names the next message.)
ReceiptOfNext(m, relayerRewardAddress) ==
    [receivedMessageID    |-> IF m.messageID < MaxMessageID THEN m.messageID + 1 ELSE 1,
     relayerRewardAddress |-> relayerRewardAddress]
ReceiptOf(m, relayerRewardAddress) ==
    [receivedMessageID    |-> m.messageID,
     relayerRewardAddress |-> relayerRewardAddress]

\* (Mutant: a failed execution is not stored.)
ForgetFailedExecution(k, m) == UNCHANGED receivedFailedMessageHashes
StoreFailedMessageExecution(k, m) ==
    receivedFailedMessageHashes' = [receivedFailedMessageHashes EXCEPT ![k] = m]

\* The call of the destination address succeeds, or fails (or finds no code).
\* Too little gas for the call reverts the delivery: no step.
HandleInitialMessageExecution(k, m) ==
    \/ /\ k.dst \in deployed
       /\ executed' = [executed EXCEPT ![k] = Append(@, m)]
       /\ UNCHANGED receivedFailedMessageHashes
    \/ /\ StoreFailedMessageExecution(k, m)
       /\ UNCHANGED executed

ReceiveCrossChainMessage(c, w, deliverer, relayerRewardAddress) ==
    LET m      == w.payload
        source == w.sourceChainID
        k      == Key(source, c, m.messageID)
        ledger == MarkReceipts(c, source, m.receipts)
    IN  /\ w.originSenderAddress = Teleporter
        /\ m.destinationBlockchainID = c
        /\ ~MessageReceived(k)
        /\ CheckIsAllowedRelayer(deliverer, m.allowedRelayerAddresses)
        /\ relayerRewardAddresses' =
               [relayerRewardAddresses EXCEPT ![k] = relayerRewardAddress]
        /\ IF m.nonEmpty
           THEN HandleInitialMessageExecution(k, m)
           ELSE UNCHANGED << executed, receivedFailedMessageHashes >>
        /\ sentMessageInfo' = ledger.sent
        /\ relayerRewardAmounts' = [relayerRewardAmounts EXCEPT ![c] = ledger.rewards]
        /\ receiptQueues' = [receiptQueues EXCEPT ![c][source] =
               Append(@, ReceiptOf(m, relayerRewardAddress))]
        /\ UNCHANGED << latestMessageIDs, balances, warpMessages, deployed >>

\* A retry that fails again reverts: no step.
RetryExecution(k, m, hash) ==
    /\ hash # Zero
    /\ MatchesHash(m, hash)
    /\ k.dst \in deployed
    /\ receivedFailedMessageHashes' = [receivedFailedMessageHashes EXCEPT ![k] = Zero]
    /\ executed' = [executed EXCEPT ![k] = Append(@, m)]
    /\ UNCHANGED << senderVars, receiptQueues, relayerRewardAddresses,
                    relayerRewardAmounts, deployed >>

\* (Mutant: the failure of the retried call is ignored.)
RetryIgnoringFailure(c, origin, m) ==
    LET k == Key(origin, c, m.messageID)
    IN  \/ RetryExecution(k, m, receivedFailedMessageHashes[k])
        \/ /\ m = receivedFailedMessageHashes[k]
           /\ receivedFailedMessageHashes' = [receivedFailedMessageHashes EXCEPT ![k] = Zero]
           /\ UNCHANGED << senderVars, receiptQueues, relayerRewardAddresses, executed,
                           relayerRewardAmounts, deployed >>
RetryMessageExecution(c, origin, m) ==
    LET k == Key(origin, c, m.messageID)
    IN  RetryExecution(k, m, receivedFailedMessageHashes[k])

\* The ERC20 reverts a transfer of more than the contract holds.
RedeemRelayerRewards(c, relayer, asset) ==
    LET amount == relayerRewardAmounts[c][<<relayer, asset>>]
    IN  /\ amount > 0
        /\ balances[c][asset] >= amount
        /\ relayerRewardAmounts' =
               [relayerRewardAmounts EXCEPT ![c][<<relayer, asset>>] = 0]
        /\ balances' = [balances EXCEPT ![c][asset] = @ - amount]
        /\ UNCHANGED << latestMessageIDs, receiptQueues, sentMessageInfo,
                        receiverVars, warpMessages, deployed >>

-----------------------------------------------------------------------------
(* The environment                                                         *)

\* The destination address gets code after messages may have been sent to it.
DeployDestination(c) ==
    /\ c \notin deployed
    /\ deployed' = deployed \cup {c}
    /\ UNCHANGED << senderVars, receiptQueues, receiverVars, relayerRewardAmounts >>

\* The validators that signed a message leave: its signature is worth nothing
\* any more, and a relayer can only deliver it once it has been sent again.
LoseWarpMessage(w) ==
    /\ w \in warpMessages
    /\ warpMessages' = warpMessages \ {w}
    /\ UNCHANGED << latestMessageIDs, receiptQueues, sentMessageInfo, receiverVars,
                    relayerRewardAmounts, balances, deployed >>

-----------------------------------------------------------------------------

SendStep ==
    \E i \in SendInputs, received \in 0..MaxFee :
        /\ NextMessageID(i.src, i.dst) <= i.maxID
        /\ \/ SendCrossChainMessage(i.src, i.dst, i.fee, received, i.allowed, i.nonEmpty)
           \/ \E n \in 0..MaxSpecified : \E messageIDs \in [1..n -> MessageIDs] :
                  SendSpecifiedReceipts(i.src, i.dst, messageIDs, i.fee, received, i.allowed)

RetrySendStep ==
    \E c, d \in Chains, m \in KnownMessages : RetrySendCrossChainMessage(c, d, m)

AddFeeStep ==
    \E k \in MessageKeys, token \in FeeAssets, additional, received \in 0..MaxFee :
        AddFeeAmount(k, token, additional, received)

ReceiveStep ==
    \E c \in Chains, w \in warpMessages \cup OtherWarpMessages,
       deliverer, relayerRewardAddress \in Relayers :
        ReceiveCrossChainMessage(c, w, deliverer, relayerRewardAddress)

RetryExecutionStep ==
    \E c, origin \in Chains, m \in KnownMessages : RetryMessageExecution(c, origin, m)

RedeemStep ==
    \E c \in Chains, relayer \in Relayers, asset \in Tokens :
        RedeemRelayerRewards(c, relayer, asset)

Next ==
    \/ SendStep
    \/ RetrySendStep
    \/ AddFeeStep
    \/ ReceiveStep
    \/ RetryExecutionStep
    \/ RedeemStep
    \/ \E c \in Chains : DeployDestination(c)
    \/ \E w \in warpMessages : LoseWarpMessage(w)

Spec == Init /\ [][Next]_vars

-----------------------------------------------------------------------------
(* Properties                                                              *)

LedgerTypeOK ==
    /\ sentMessageInfo \in [MessageKeys -> SentMessageInfos \cup {Zero}]
    /\ relayerRewardAmounts \in [Chains -> [Relayers \X FeeAssets -> Nat]]
    /\ balances \in [Chains -> [Tokens -> Nat]]

DeliveryTypeOK ==
    /\ receiptQueues \in [Chains -> [Chains -> Seq(Receipts)]]
    /\ receivedFailedMessageHashes \in [MessageKeys -> Messages \cup {Zero}]
    /\ relayerRewardAddresses \in [MessageKeys -> Relayers \cup {Zero}]
    /\ executed \in [MessageKeys -> Seq(Messages)]

\* The type invariant: every value the contracts store has its declared type.
TypeOK ==
    /\ latestMessageIDs \in [Chains -> [Chains -> 0..MaxMessageID]]
    /\ warpMessages \subseteq WarpMessages
    /\ deployed \subseteq Chains
    /\ LedgerTypeOK
    /\ DeliveryTypeOK

Delivered(k) == relayerRewardAddresses[k] # Zero
Unsettled(k) == sentMessageInfo[k] # Zero

\* An ID is used exactly when the message is either still stored by its sender,
\* who can send it again, or has been delivered: no sequence of sends, losses,
\* retries and (repeated, reordered) receipts leaves a message neither.
MessageNeverLost ==
    \A k \in MessageKeys :
        k.id <= latestMessageIDs[k.src][k.dst] <=> Unsettled(k) \/ Delivered(k)

IsTruthful(c, d, receipt) ==
    relayerRewardAddresses[Key(d, c, receipt.receivedMessageID)]
        = receipt.relayerRewardAddress

\* A receipt, wherever it waits or travels (a queue of the receiving chain, a
\* stored message, a signed one), names a message delivered there and the
\* reward address of that delivery: nobody else is ever paid for it.
ReceiptsTruthful ==
    /\ \A c, s \in Chains : \A i \in DOMAIN receiptQueues[c][s] :
           IsTruthful(c, s, receiptQueues[c][s][i])
    /\ \A k \in MessageKeys : Unsettled(k) =>
           LET m == sentMessageInfo[k].messageHash
           IN  \A i \in DOMAIN m.receipts : IsTruthful(k.src, k.dst, m.receipts[i])
    /\ \A w \in warpMessages : \A i \in DOMAIN w.payload.receipts :
           IsTruthful(w.sourceChainID, w.payload.destinationBlockchainID,
                      w.payload.receipts[i])

Names(receipts, k) == \E i \in DOMAIN receipts : receipts[i].receivedMessageID = k.id

\* Until the fee of a delivered message is credited, its receipt is in the queue
\* of the receiving chain or in a message back that can still be delivered:
\* draining the queue never drops the relayer's only claim.
ReceiptNeverLost ==
    \A k \in MessageKeys : Unsettled(k) /\ Delivered(k) =>
        \/ Names(receiptQueues[k.dst][k.src], k)
        \/ \E j \in MessageKeys :
               /\ j.src = k.dst /\ j.dst = k.src
               /\ Unsettled(j) /\ ~Delivered(j)
               /\ Names(sentMessageInfo[j].messageHash.receipts, k)

Executions(k) == Len(executed[k])
Retryable(k) == receivedFailedMessageHashes[k] # Zero

\* A message with a payload that has been delivered was executed exactly once or
\* is kept for retryMessageExecution, never both and never neither; what is kept
\* or was executed is the message that was sent, and nothing is executed before
\* its delivery.
ExecutedXorRetryable ==
    \A k \in MessageKeys :
        /\ Executions(k) + (IF Retryable(k) THEN 1 ELSE 0) <= 1
        /\ ~Delivered(k) => Executions(k) = 0 /\ ~Retryable(k)
        /\ Unsettled(k) /\ Delivered(k) =>
               LET m == sentMessageInfo[k].messageHash
               IN  /\ m.nonEmpty <=> Retryable(k) \/ Executions(k) = 1
                   /\ Retryable(k) => receivedFailedMessageHashes[k] = m
                   /\ \A i \in DOMAIN executed[k] : executed[k][i] = m

\* What validators sign in the contract's name is what the contract stored: a
\* resent message is the one first sent, and no two messages share an ID.
SignedMessagesAreSent ==
    \A w \in warpMessages :
        LET k == Key(w.sourceChainID, w.payload.destinationBlockchainID,
                     w.payload.messageID)
        IN  /\ w.originSenderAddress = Teleporter
            /\ Unsettled(k) => sentMessageInfo[k].messageHash = w.payload
            /\ ~Unsettled(k) => Delivered(k)

LiveFees(c, t) ==
    MapThenSumSet(LAMBDA k : sentMessageInfo[k].feeInfo.amount,
        {k \in MessageKeys : /\ k.src = c /\ Unsettled(k)
                             /\ sentMessageInfo[k].feeInfo.feeTokenAddress = t})

RedeemableRewards(c, t) ==
    MapThenSumSet(LAMBDA r : relayerRewardAmounts[c][<<r, t>>], Relayers)

\* The contract holds exactly the fees of unacknowledged messages and the rewards
\* not yet redeemed, also for tokens that keep part of a transfer: every reward
\* can be paid, and no fee is stuck.
FeesAccounted ==
    \A c \in Chains, t \in Tokens :
        balances[c][t] = LiveFees(c, t) + RedeemableRewards(c, t)

\* The reward a step adds to a relayer is the sum of the fees of the messages
\* that the step settles and that this relayer's address was recorded for,
\* however often their receipts were sent.
RewardsAreEarned ==
    [][\A c \in Chains, r \in Relayers, t \in Tokens :
          LET settled == {k \in MessageKeys :
                  /\ k.src = c
                  /\ Unsettled(k) /\ sentMessageInfo'[k] = Zero
                  /\ relayerRewardAddresses[k] = r
                  /\ sentMessageInfo[k].feeInfo.feeTokenAddress = t}
          IN  \/ /\ relayerRewardAmounts'[c][<<r, t>>] = 0
                 /\ settled = {}
              \/ relayerRewardAmounts'[c][<<r, t>>] = relayerRewardAmounts[c][<<r, t>>]
                   + MapThenSumSet(LAMBDA k : sentMessageInfo[k].feeInfo.amount, settled)
      ]_vars

Stage(k) ==
    IF Delivered(k)
    THEN IF Retryable(k) THEN "failed" ELSE "done"
    ELSE IF Unsettled(k) THEN "sent" ELSE "unsent"

Delivery ==
    INSTANCE MessageDelivery WITH
        Messages   <- MessageKeys,
        Deliverers <- Relayers,
        None       <- Zero,
        stage      <- [k \in MessageKeys |-> Stage(k)],
        deliverer  <- relayerRewardAddresses,
        settled    <- {k \in MessageKeys : Delivered(k) /\ ~Unsettled(k)}

\* The contracts implement the abstract delivery of messages (replay protection
\* and retries of the protocol's README).
ImplementsDelivery == Delivery!Spec

\* The messages that the bound on the inputs lets exist.
UsableKeys ==
    {k \in MessageKeys :
        \E i \in SendInputs : i.src = k.src /\ i.dst = k.dst /\ k.id <= i.maxID}

\* What one of the relayers to rely on may deliver.
OpenToActive(allowed) == allowed = {} \/ allowed \cap ActiveRelayers # {}
Deliverable(k) == OpenToActive(sentMessageInfo[k].messageHash.allowedRelayerAddresses)

\* A message back that carries the receipt of k will be delivered.
Returned(k) ==
    \E j \in UsableKeys :
        /\ j.src = k.dst /\ j.dst = k.src
        /\ Unsettled(j) /\ Deliverable(j)
        /\ Names(sentMessageInfo[j].messageHash.receipts, k)

\* Active relayers and senders outside the contracts keep going: a lost message
\* is sent again, a message that can be delivered again and again is, the
\* destination contract gets deployed and, once it is, accepts the retried call.
Fairness ==
    /\ \A k \in UsableKeys :
           /\ WF_vars(\E m \in KnownMessages :
                 /\ m.messageID = k.id
                 /\ RetrySendCrossChainMessage(k.src, k.dst, m))
           /\ SF_vars(\E w \in warpMessages, deliverer \in ActiveRelayers,
                         relayerRewardAddress \in Relayers :
                 /\ w.sourceChainID = k.src
                 /\ w.payload.messageID = k.id
                 /\ ReceiveCrossChainMessage(k.dst, w, deliverer, relayerRewardAddress))
           /\ WF_vars(\E m \in KnownMessages :
                 /\ m.messageID = k.id
                 /\ RetryMessageExecution(k.dst, k.src, m))
    /\ \A c \in Chains : WF_vars(DeployDestination(c))

FairSpec == Spec /\ Fairness

\* Every message that an active relayer may deliver is delivered in the end,
\* however often the validators that signed it leave.
EventuallyDelivered ==
    \A k \in UsableKeys : Unsettled(k) /\ Deliverable(k) ~> Delivered(k)

\* A message whose execution failed is executed in the end, also when its receipt
\* has long been returned and the sender has forgotten it.
EventuallyExecuted ==
    \A k \in UsableKeys : Retryable(k) ~> Executions(k) = 1

\* Once a message that will be delivered carries its receipt back, the fee of a
\* message is credited.
ReturnedReceiptSettles ==
    \A k \in UsableKeys : Returned(k) ~> ~Unsettled(k)

\* Somebody asks for the receipt of k in a message that will be delivered.
RequestReceipt(k) ==
    \E i \in SendInputs, received \in 0..MaxFee :
        /\ i.src = k.dst /\ i.dst = k.src /\ OpenToActive(i.allowed)
        /\ NextMessageID(i.src, i.dst) <= i.maxID
        /\ SendSpecifiedReceipts(i.src, i.dst, <<k.id>>, i.fee, received, i.allowed)

\* The bound on IDs leaves no message that could return the receipt of k.
OutOfIDs(k) ==
    Key(k.dst, k.src, NextMessageID(k.dst, k.src)) \notin UsableKeys /\ ~Returned(k)

\* If whoever is owed a fee keeps asking for the receipt, the fee of every delivered
\* message is credited in the end, also when the queue has handed the receipt to
\* a message that only a relayer may deliver who never does.
ReceiptsSentOnRequest ==
    (\A k \in UsableKeys : WF_vars(Unsettled(k) /\ ~Returned(k) /\ RequestReceipt(k)))
        => \A k \in UsableKeys :
               Unsettled(k) /\ Delivered(k) ~> ~Unsettled(k) \/ OutOfIDs(k)

\* What the documentation of addFeeAmount requires ("`message` must exist and not
\* have been delivered yet"): a fee is only added before the delivery.
FeeAddedBeforeDelivery ==
    [][\A k \in MessageKeys :
          Delivered(k) /\ Unsettled(k) /\ sentMessageInfo'[k] # Zero =>
              sentMessageInfo'[k].feeInfo = sentMessageInfo[k].feeInfo]_vars
=============================================================================
