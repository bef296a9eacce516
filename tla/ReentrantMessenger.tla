-------------------------- MODULE ReentrantMessenger --------------------------
(***************************************************************************)
(* One TeleporterMessenger contract and one other chain, call by call: the *)
(* fee token and the destinations are contracts, and may call back while   *)
(* the messenger waits for them                                            *)
(* (src/contracts/src/Teleporter/ReentrancyGuards.sol,                     *)
(* SafeERC20TransferFrom.sol and the operations of                         *)
(* TeleporterMessenger.sol).  TeleporterMessenger.tla has the same         *)
(* operations, each as one step, on many chains.                           *)
(*                                                                         *)
(* A transaction is a stack of calls, all of them inside a call to another *)
(* contract: every step begins or ends a call, or moves the tokens of the  *)
(* last one.  A call that reverts leaves no trace in its caller, so it is  *)
(* never begun, and a call that could only revert never ends.  Resending a *)
(* message (retrySendCrossChainMessage) changes no storage and is left out.*)
(***************************************************************************)
EXTENDS Naturals, Sequences, SlotSums, ReceiptBatch

CONSTANTS
    R,                        \* relayers are 1..R
    MaxSent,                  \* bound: messages sent to the other chain
    MaxReceived,              \* bound: messages received from it
    MaxFee,                   \* bound: amount of one transfer
    MaxHoldings,              \* bound: fee tokens held
    MaxReceipts,              \* bound: receipts of a message received
    MaxDepth                  \* bound: nested calls

ASSUME ReentrantAssumption ==
    /\ R \in Nat /\ MaxSent \in Nat /\ MaxReceived \in Nat
    /\ MaxFee \in Nat /\ MaxHoldings \in Nat /\ MaxReceipts \in Nat
    /\ MaxDepth \in Nat

Relayers    == 1..R
SentIDs     == 1..MaxSent
ReceivedIDs == 1..MaxReceived
Receipts    == [receivedMessageID : SentIDs, relayerRewardAddress : Relayers]

\* What a call that has not returned still holds in memory.
DepositFrames == [op : {"send", "addFee"}, id : SentIDs, carried : Seq(ReceivedIDs),
                  balanceBefore : Nat, moved : BOOLEAN]
RedeemFrames  == [op : {"redeem"}, amount : Nat, moved : BOOLEAN]
ExecuteFrames == [op : {"receive", "retry"}, id : ReceivedIDs, receipts : Seq(Receipts)]
Frames == DepositFrames \cup RedeemFrames \cup ExecuteFrames

VARIABLES
    stack,                    \* calls that have not returned, innermost last
    sendEntered,              \* _sendEntered = _ENTERED
    receiveEntered,           \* _receiveEntered = _ENTERED
    latestMessageID,          \* last ID used for the other chain
    stored,                   \* sent messages whose hash is not zero
    feeAmounts,               \* [sent message]: feeInfo.amount
    carriedReceipts,          \* [sent message]: received messages it acknowledges
    receiptQueue,             \* received messages not yet acknowledged
    received,                 \* received messages
    failed,                   \* those that have a failed message hash
    executed,                 \* [received message]: number of MessageExecuted events
    rewards,                  \* [relayer]: _relayerRewardAmounts
    holdings,                 \* fee tokens held by the contract
    accepted                  \* messages signed: those of finished transactions

guardVars == << sendEntered, receiveEntered >>
senderVars == << latestMessageID, stored, feeAmounts, carriedReceipts >>
receiverVars == << received, failed, executed >>
moneyVars == << rewards, holdings >>
vars == << stack, sendEntered, receiveEntered, latestMessageID, stored, feeAmounts,
           carriedReceipts, receiptQueue, received, failed, executed, rewards,
           holdings, accepted >>

Init ==
    /\ stack = << >>
    /\ sendEntered = FALSE
    /\ receiveEntered = FALSE
    /\ latestMessageID = 0
    /\ stored = {}
    /\ feeAmounts = [id \in SentIDs |-> 0]
    /\ carriedReceipts = [id \in SentIDs |-> << >>]
    /\ receiptQueue = << >>
    /\ received = {}
    /\ failed = {}
    /\ executed = [id \in ReceivedIDs |-> 0]
    /\ rewards = [r \in Relayers |-> 0]
    /\ holdings = 0
    /\ accepted = 0

-----------------------------------------------------------------------------
(* Calls                                                                   *)

Top == stack[Len(stack)]
TopIs(ops) == stack # << >> /\ Top.op \in ops

Call(frame) ==
    /\ Len(stack) < MaxDepth
    /\ stack' = Append(stack, frame)

Return == stack' = SubSeq(stack, 1, Len(stack) - 1)

\* (Mutants: a function that sends, or one that receives, is not guarded.)
SenderMayReenter == TRUE
SenderNonReentrant == ~sendEntered
ReceiverMayReenter == TRUE
ReceiverNonReentrant == ~receiveEntered

Moved(frame) == [frame EXCEPT !.moved = TRUE]

\* The transfer of the last call moves its tokens: the token may call anybody
\* before and after.  It may keep a part of what it moves into the contract,
\* and moves nothing out that the contract does not hold.
MoveTokensIn(amount) ==
    /\ TopIs({"send", "addFee"})
    /\ ~Top.moved
    /\ amount > 0
    /\ holdings + amount <= MaxHoldings
    /\ holdings' = holdings + amount
    /\ stack' = [stack EXCEPT ![Len(stack)] = Moved(Top)]
    /\ UNCHANGED << guardVars, senderVars, receiptQueue, receiverVars, rewards >>

MoveTokensOut ==
    /\ TopIs({"redeem"})
    /\ ~Top.moved
    /\ Top.amount <= holdings
    /\ holdings' = holdings - Top.amount
    /\ stack' = [stack EXCEPT ![Len(stack)] = Moved(Top)]
    /\ UNCHANGED << guardVars, senderVars, receiptQueue, receiverVars, rewards >>

\* What safeTransferFrom returns once its token has returned.
BalanceIncrease == holdings - Top.balanceBefore

-----------------------------------------------------------------------------
(* Sending                                                                 *)

Store(id, carried, feeAmount) ==
    /\ stored' = stored \cup {id}
    /\ feeAmounts' = [feeAmounts EXCEPT ![id] = feeAmount]
    /\ carriedReceipts' = [carriedReceipts EXCEPT ![id] = carried]

\* _sendTeleporterMessage up to the transfer of the fee, or all of it if there
\* is none.
BeginSend(carried, withFee) ==
    LET id == latestMessageID + 1
    IN  /\ SenderNonReentrant
        /\ id <= MaxSent
        /\ latestMessageID' = id
        /\ IF withFee
           THEN /\ Call([op |-> "send", id |-> id, carried |-> carried,
                         balanceBefore |-> holdings, moved |-> FALSE])
                /\ sendEntered' = TRUE
                /\ UNCHANGED << stored, feeAmounts, carriedReceipts >>
           ELSE /\ Store(id, carried, 0)
                /\ UNCHANGED << stack, sendEntered >>

SendCrossChainMessage(withFee) ==
    /\ BeginSend(OutstandingReceipts(receiptQueue), withFee)
    /\ receiptQueue' = QueueAfterSending(receiptQueue)
    /\ UNCHANGED << receiveEntered, receiverVars, moneyVars >>

\* A list of one receipt, which stays in the queue.
SendSpecifiedReceipts(id, withFee) ==
    /\ id \in received
    /\ BeginSend(<< id >>, withFee)
    /\ UNCHANGED << receiveEntered, receiptQueue, receiverVars, moneyVars >>

\* (Mutant: the message is stored without the receipts it was given.)
StoreWithoutReceipts(frame, feeAmount) == Store(frame.id, << >>, feeAmount)
StoreSent(frame, feeAmount) == Store(frame.id, frame.carried, feeAmount)

EndSend ==
    /\ TopIs({"send"})
    /\ holdings > Top.balanceBefore
    /\ StoreSent(Top, BalanceIncrease)
    /\ sendEntered' = FALSE
    /\ Return
    /\ UNCHANGED << receiveEntered, latestMessageID, receiptQueue, receiverVars, moneyVars >>

AddFeeAmount(id) ==
    /\ SenderNonReentrant
    /\ id \in stored
    /\ Call([op |-> "addFee", id |-> id, carried |-> << >>,
             balanceBefore |-> holdings, moved |-> FALSE])
    /\ sendEntered' = TRUE
    /\ UNCHANGED << receiveEntered, senderVars, receiptQueue, receiverVars, moneyVars >>

\* The amount is added to what the storage holds after the transfer, whether or
\* not the message is still there.
\* (Mutant: the message read before the transfer is written back.)
AddToSentMessage(id, amount) ==
    /\ stored' = stored \cup {id}
    /\ feeAmounts' = [feeAmounts EXCEPT ![id] = @ + amount]
AddToFee(id, amount) ==
    /\ feeAmounts' = [feeAmounts EXCEPT ![id] = @ + amount]
    /\ UNCHANGED stored

EndAddFeeAmount ==
    /\ TopIs({"addFee"})
    /\ holdings > Top.balanceBefore
    /\ AddToFee(Top.id, BalanceIncrease)
    /\ sendEntered' = FALSE
    /\ Return
    /\ UNCHANGED << receiveEntered, latestMessageID, carriedReceipts, receiptQueue,
                    receiverVars, moneyVars >>

-----------------------------------------------------------------------------
(* Receiving                                                               *)

MarkReceipt(ledger, receipt) ==
    LET id == receipt.receivedMessageID
    IN  IF id \notin ledger.stored
        THEN ledger
        ELSE [stored  |-> ledger.stored \ {id},
              fees    |-> [ledger.fees EXCEPT ![id] = 0],
              rewards |-> [ledger.rewards EXCEPT ![receipt.relayerRewardAddress] =
                              @ + ledger.fees[id]]]

MarkedReceipts(receipts) ==
    LET after[i \in 0..Len(receipts)] ==
            IF i = 0
            THEN [stored |-> stored, fees |-> feeAmounts, rewards |-> rewards]
            ELSE MarkReceipt(after[i - 1], receipts[i])
    IN  after[Len(receipts)]

\* receiveCrossChainMessage after the execution of the message.
FinishReceive(id, receipts) ==
    LET ledger == MarkedReceipts(receipts)
    IN  /\ stored' = ledger.stored
        /\ feeAmounts' = ledger.fees
        /\ rewards' = ledger.rewards
        /\ receiptQueue' = Append(receiptQueue, id)
        /\ UNCHANGED << latestMessageID, carriedReceipts, holdings >>

\* A message without a payload, or one whose execution fails and is undone.
ReceiveUnexecuted(id, receipts, nonEmpty) ==
    /\ ReceiverNonReentrant
    /\ id \notin received
    /\ received' = received \cup {id}
    /\ failed' = IF nonEmpty THEN failed \cup {id} ELSE failed
    /\ FinishReceive(id, receipts)
    /\ UNCHANGED << stack, guardVars, executed >>

BeginReceive(id, receipts) ==
    /\ ReceiverNonReentrant
    /\ id \notin received
    /\ received' = received \cup {id}
    /\ Call([op |-> "receive", id |-> id, receipts |-> receipts])
    /\ receiveEntered' = TRUE
    /\ UNCHANGED << sendEntered, senderVars, receiptQueue, failed, executed, moneyVars >>

EndReceive ==
    /\ TopIs({"receive"})
    /\ executed' = [executed EXCEPT ![Top.id] = @ + 1]
    /\ FinishReceive(Top.id, Top.receipts)
    /\ receiveEntered' = FALSE
    /\ Return
    /\ UNCHANGED << sendEntered, received, failed >>

\* (Mutant: the failed hash is not cleared before the call.)
ClearLater(id) == UNCHANGED failed
ClearFailed(id) == failed' = failed \ {id}

BeginRetryExecution(id) ==
    /\ ReceiverNonReentrant
    /\ id \in failed
    /\ ClearFailed(id)
    /\ Call([op |-> "retry", id |-> id, receipts |-> << >>])
    /\ receiveEntered' = TRUE
    /\ UNCHANGED << sendEntered, senderVars, receiptQueue, received, executed, moneyVars >>

EndRetryExecution ==
    /\ TopIs({"retry"})
    /\ executed' = [executed EXCEPT ![Top.id] = @ + 1]
    /\ receiveEntered' = FALSE
    /\ Return
    /\ UNCHANGED << sendEntered, senderVars, receiptQueue, received, failed, moneyVars >>

-----------------------------------------------------------------------------
(* Rewards                                                                 *)

BeginRedeem(r) ==
    /\ rewards[r] > 0
    /\ rewards' = [rewards EXCEPT ![r] = 0]
    /\ Call([op |-> "redeem", amount |-> rewards[r], moved |-> FALSE])
    /\ UNCHANGED << guardVars, senderVars, receiptQueue, receiverVars, holdings >>

EndRedeem ==
    /\ TopIs({"redeem"})
    /\ Top.moved
    /\ Return
    /\ UNCHANGED << guardVars, senderVars, receiptQueue, receiverVars, moneyVars >>

-----------------------------------------------------------------------------

\* What the other chain can acknowledge: messages of finished transactions.
KnownReceipts ==
    UNION {[1..n -> {r \in Receipts : r.receivedMessageID <= accepted}] : n \in 0..MaxReceipts}

SendStep ==
    \E withFee \in BOOLEAN :
        \/ SendCrossChainMessage(withFee)
        \/ \E id \in ReceivedIDs : SendSpecifiedReceipts(id, withFee)

ReceiveStep ==
    \E id \in ReceivedIDs, receipts \in KnownReceipts :
        \/ BeginReceive(id, receipts)
        \/ \E nonEmpty \in BOOLEAN : ReceiveUnexecuted(id, receipts, nonEmpty)

Step ==
    \/ SendStep
    \/ EndSend
    \/ \E id \in SentIDs : AddFeeAmount(id)
    \/ EndAddFeeAmount
    \/ \E amount \in 1..MaxFee : MoveTokensIn(amount)
    \/ MoveTokensOut
    \/ ReceiveStep
    \/ EndReceive
    \/ \E id \in ReceivedIDs : BeginRetryExecution(id)
    \/ EndRetryExecution
    \/ \E r \in Relayers : BeginRedeem(r)
    \/ EndRedeem

\* The block with a finished transaction is accepted, and what it sent signed.
Accept == accepted' = IF stack' = << >> THEN latestMessageID' ELSE accepted

Next == Step /\ Accept

Spec == Init /\ [][Next]_vars

-----------------------------------------------------------------------------
(* Properties                                                              *)

Open(ops) == {i \in DOMAIN stack : stack[i].op \in ops}

\* The type invariant.
TypeOK ==
    /\ stack \in Seq(Frames) /\ Len(stack) <= MaxDepth
    /\ sendEntered \in BOOLEAN /\ receiveEntered \in BOOLEAN
    /\ latestMessageID \in 0..MaxSent /\ accepted \in 0..latestMessageID
    /\ stored \subseteq SentIDs
    /\ feeAmounts \in [SentIDs -> Nat]
    /\ carriedReceipts \in [SentIDs -> Seq(ReceivedIDs)]
    /\ receiptQueue \in Seq(ReceivedIDs)
    /\ received \subseteq ReceivedIDs /\ failed \subseteq received
    /\ executed \in [ReceivedIDs -> Nat]
    /\ rewards \in [Relayers -> Nat]
    /\ holdings \in Nat

\* "The following should fail: send -> receive -> send" (ReentrancyGuards): of
\* all the calls that have not returned, however they are nested, one sends and
\* one receives at most, and a guard is set exactly as long as its call runs.
NoRecursion ==
    /\ \A i, j \in Open({"send", "addFee"}) : i = j
    /\ \A i, j \in Open({"receive", "retry"}) : i = j
    /\ sendEntered <=> Open({"send", "addFee"}) # {}
    /\ receiveEntered <=> Open({"receive", "retry"}) # {}

Payout(frame) == IF frame.op = "redeem" /\ ~frame.moved THEN frame.amount ELSE 0
Payouts == [i \in 1..MaxDepth |-> IF i \in DOMAIN stack THEN Payout(stack[i]) ELSE 0]

\* Fees of sent messages, redeemable rewards, and rewards about to be paid.
Owed == SlotSum(feeAmounts, MaxSent) + SlotSum(rewards, R) + SlotSum(Payouts, MaxDepth)

\* At no point of any nesting of calls has the contract promised more fee tokens
\* than it holds: what a token transfers, redeems or settles while its transfer
\* is measured is never counted twice.
Solvent == holdings >= Owed

IsIn(x, s) == \E i \in DOMAIN s : s[i] = x

\* The receipt of a received message is in the queue, in a message that was sent,
\* or in the memory of a call that will put it there: a send that waits for its
\* fee after draining the queue, or the delivery itself.
ReceiptKept ==
    \A id \in received :
        \/ IsIn(id, receiptQueue)
        \/ \E sent \in SentIDs : IsIn(id, carriedReceipts[sent])
        \/ \E i \in Open({"send"}) : IsIn(id, stack[i].carried)
        \/ \E i \in Open({"receive"}) : stack[i].id = id

InExecution(id) == {i \in Open({"receive", "retry"}) : stack[i].id = id}

\* A message is executed at most once: while it runs, it can neither be delivered
\* again nor retried, by whatever it calls.
ExecutedOnce ==
    \A id \in ReceivedIDs :
        /\ executed[id] > 0 => id \notin failed /\ InExecution(id) = {}
        /\ executed[id] <= 1
        /\ InExecution(id) # {} => id \in received \ failed

\* A settled message is never stored again: a call that found it stored before
\* its token was called does not bring it back, and with it a fee already paid.
SettledForGood ==
    [][\A id \in 1..latestMessageID :
          /\ id \notin stored
          /\ \A i \in Open({"send"}) : stack[i].id # id
          => id \notin stored']_vars
=============================================================================
