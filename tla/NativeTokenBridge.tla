-------------------------- MODULE NativeTokenBridge --------------------------
(***************************************************************************)
(* A token source (src/contracts/src/CrossChainApplications/               *)
(* NativeTokenBridge/NativeTokenSource.sol or ERC20TokenSource.sol) and    *)
(* its NativeTokenDestination on another chain, whose native token is      *)
(* backed by what the source holds.  The two kinds of source differ only   *)
(* in how a transfer begins: the one here takes transfers of both kinds.   *)
(*                                                                         *)
(* Teleporter executes a message at most once, in any order; an execution  *)
(* that reverts leaves it to be retried.  A message on its way, or waiting *)
(* for a retry, is an amount in a slot; 0 is a free slot.  Transfers of 0  *)
(* change nothing on either chain and are left out.                        *)
(***************************************************************************)
EXTENDS Naturals, FiniteSets, SlotSums

CONSTANTS
    InitialReserveImbalance,  \* native tokens in the genesis of the destination
    Slots,                    \* bound: transfers on their way, per direction
    MaxAmount,                \* bound: tokens in one transfer
    MaxTransferred,           \* bound: tokens ever sent to the destination
    MaxReports                \* bound: burn reports on their way

ASSUME BridgeAssumption ==
    /\ InitialReserveImbalance \in Nat \ {0}
    /\ Slots \in Nat

VARIABLES
    \* the source contract
    locked,                   \* its balance of the locked token
    destinationBurnedTotal,
    \* the destination contract and its chain
    currentReserveImbalance,
    totalMinted,
    burnedTxFees,             \* balance of BURNED_TX_FEES_ADDRESS
    burnedForTransfer,        \* balance of BURN_FOR_TRANSFER_ADDRESS
    \* messages
    mints,                    \* [slot]: amount to mint
    unlocks,                  \* [slot]: amount to unlock
    reports                   \* reported totals of burned fees

sourceVars == << locked, destinationBurnedTotal >>
destinationVars == << currentReserveImbalance, totalMinted, burnedTxFees, burnedForTransfer >>
vars == << locked, destinationBurnedTotal, currentReserveImbalance, totalMinted,
           burnedTxFees, burnedForTransfer, mints, unlocks, reports >>

Amounts == 1..MaxAmount
NoAmounts == [i \in 1..Slots |-> 0]

Init ==
    /\ locked = 0
    /\ destinationBurnedTotal = 0
    /\ currentReserveImbalance = InitialReserveImbalance
    /\ totalMinted = 0
    /\ burnedTxFees = 0
    /\ burnedForTransfer = 0
    /\ mints = NoAmounts
    /\ unlocks = NoAmounts
    /\ reports = {}

\* totalSupply: what the accounts of the destination chain hold, as long as only
\* this contract mints and the genesis allocated InitialReserveImbalance.
TotalSupply ==
    (totalMinted + InitialReserveImbalance) - (burnedTxFees + burnedForTransfer)

-----------------------------------------------------------------------------
(* The source                                                              *)

Transferred ==
    SlotSum(mints, Slots) + (InitialReserveImbalance - currentReserveImbalance) + totalMinted

SendMint(i, amount) ==
    /\ mints[i] = 0
    /\ Transferred + amount <= MaxTransferred
    /\ mints' = [mints EXCEPT ![i] = amount]

\* NativeTokenSource: the whole value is locked and sent.
TransferNativeToDestination(i, amount) ==
    /\ SendMint(i, amount)
    /\ locked' = locked + amount
    /\ UNCHANGED << destinationBurnedTotal, destinationVars, unlocks, reports >>

\* (Mutant: the amount asked for is sent, not the amount received.)
AmountAskedFor(totalAmount, received, feeAmount) == totalAmount - feeAmount
TransferAmount(totalAmount, received, feeAmount) == received - feeAmount

\* ERC20TokenSource: the token may keep a part, and the messenger draws its fee
\* from what has arrived.
TransferERC20ToDestination(i, totalAmount, received, feeAmount) ==
    /\ received \in 1..totalAmount
    /\ received > feeAmount
    /\ SendMint(i, TransferAmount(totalAmount, received, feeAmount))
    /\ locked' = locked + received - feeAmount
    /\ UNCHANGED << destinationBurnedTotal, destinationVars, unlocks, reports >>

\* Reverts, and waits for a retry, if the balance is too low.
UnlockTokens(i) ==
    /\ unlocks[i] # 0
    /\ locked >= unlocks[i]
    /\ locked' = locked - unlocks[i]
    /\ unlocks' = [unlocks EXCEPT ![i] = 0]
    /\ UNCHANGED << destinationBurnedTotal, destinationVars, mints, reports >>

\* (Mutant: a report is taken for the amount to burn.)
BurnReported(newBurnTotal) ==
    /\ newBurnTotal \in reports
    /\ locked >= newBurnTotal
    /\ locked' = locked - newBurnTotal
    /\ destinationBurnedTotal' = newBurnTotal
    /\ reports' = reports \ {newBurnTotal}
    /\ UNCHANGED << destinationVars, mints, unlocks >>

\* Reverts, and waits for a retry, if the balance is too low.
HandleBurnTokens(newBurnTotal) ==
    /\ newBurnTotal \in reports
    /\ IF newBurnTotal > destinationBurnedTotal
       THEN LET difference == newBurnTotal - destinationBurnedTotal
            IN  /\ locked >= difference
                /\ locked' = locked - difference
                /\ destinationBurnedTotal' = newBurnTotal
       ELSE UNCHANGED sourceVars
    /\ reports' = reports \ {newBurnTotal}
    /\ UNCHANGED << destinationVars, mints, unlocks >>

-----------------------------------------------------------------------------
(* The destination                                                         *)

\* (Mutant: the transfer that completes the collateral is minted in full.)
AddWholeTransfer(amount) ==
    /\ currentReserveImbalance > 0
    /\ IF amount > currentReserveImbalance
       THEN /\ currentReserveImbalance' = 0
            /\ totalMinted' = totalMinted + amount
       ELSE /\ currentReserveImbalance' = currentReserveImbalance - amount
            /\ UNCHANGED totalMinted

\* Tokens fill the imbalance first; only an excess is minted.
AddCollateral(amount) ==
    /\ currentReserveImbalance > 0
    /\ IF amount > currentReserveImbalance
       THEN /\ currentReserveImbalance' = 0
            /\ totalMinted' = totalMinted + (amount - currentReserveImbalance)
       ELSE /\ currentReserveImbalance' = currentReserveImbalance - amount
            /\ UNCHANGED totalMinted

ReceiveTransfer(i) ==
    /\ mints[i] # 0
    /\ \/ AddCollateral(mints[i])
       \/ /\ currentReserveImbalance = 0
          /\ totalMinted' = totalMinted + mints[i]
          /\ UNCHANGED currentReserveImbalance
    /\ mints' = [mints EXCEPT ![i] = 0]
    /\ UNCHANGED << sourceVars, burnedTxFees, burnedForTransfer, unlocks, reports >>

\* (Mutant: tokens can be sent back before the collateral is complete.)
TransferUncollateralized(i, amount) ==
    /\ amount <= TotalSupply
    /\ unlocks[i] = 0
    /\ burnedForTransfer' = burnedForTransfer + amount
    /\ unlocks' = [unlocks EXCEPT ![i] = amount]
    /\ UNCHANGED << sourceVars, currentReserveImbalance, totalMinted, burnedTxFees, mints, reports >>

TransferToSource(i, amount) ==
    /\ currentReserveImbalance = 0
    /\ amount <= TotalSupply
    /\ unlocks[i] = 0
    /\ burnedForTransfer' = burnedForTransfer + amount
    /\ unlocks' = [unlocks EXCEPT ![i] = amount]
    /\ UNCHANGED << sourceVars, currentReserveImbalance, totalMinted, burnedTxFees, mints, reports >>

\* (Mutant: what was burned for transfers is reported too.)
AllBurned == burnedTxFees + burnedForTransfer
TotalBurnedTxFees == burnedTxFees

ReportTotalBurnedTxFees ==
    /\ reports' = reports \cup {TotalBurnedTxFees}
    /\ Cardinality(reports') <= MaxReports
    /\ UNCHANGED << sourceVars, destinationVars, mints, unlocks >>

\* The chain credits the fees of every transaction to BURNED_TX_FEES_ADDRESS.
BurnTxFees(amount) ==
    /\ amount <= TotalSupply
    /\ burnedTxFees' = burnedTxFees + amount
    /\ UNCHANGED << sourceVars, currentReserveImbalance, totalMinted, burnedForTransfer,
                    mints, unlocks, reports >>

\* Anybody can send tokens to BURN_FOR_TRANSFER_ADDRESS, and lose them.
SendToBurnAddress(amount) ==
    /\ amount <= TotalSupply
    /\ burnedForTransfer' = burnedForTransfer + amount
    /\ UNCHANGED << sourceVars, currentReserveImbalance, totalMinted, burnedTxFees,
                    mints, unlocks, reports >>

-----------------------------------------------------------------------------

Transfer ==
    \E i \in 1..Slots :
        \/ \E amount \in Amounts : TransferNativeToDestination(i, amount)
        \/ \E totalAmount, received \in Amounts, feeAmount \in 0..MaxAmount :
               TransferERC20ToDestination(i, totalAmount, received, feeAmount)
        \/ \E amount \in Amounts : TransferToSource(i, amount)

Burn == \E amount \in Amounts : BurnTxFees(amount) \/ SendToBurnAddress(amount)

\* Teleporter executes a message, at delivery or by a retry.
Execute ==
    \/ \E i \in 1..Slots : ReceiveTransfer(i) \/ UnlockTokens(i)
    \/ \E newBurnTotal \in reports : HandleBurnTokens(newBurnTotal)

Next == Transfer \/ Burn \/ ReportTotalBurnedTxFees \/ Execute

Spec == Init /\ [][Next]_vars

\* Teleporter delivers every message and lets anybody retry it.
Fairness ==
    /\ \A i \in 1..Slots : WF_vars(ReceiveTransfer(i)) /\ WF_vars(UnlockTokens(i))
    /\ \A total \in 0..(InitialReserveImbalance + MaxTransferred) :
           WF_vars(HandleBurnTokens(total))

FairSpec == Spec /\ Fairness

-----------------------------------------------------------------------------

\* The type invariant.
TypeOK ==
    /\ locked \in Nat /\ destinationBurnedTotal \in Nat
    /\ currentReserveImbalance \in 0..InitialReserveImbalance
    /\ totalMinted \in Nat /\ burnedTxFees \in Nat /\ burnedForTransfer \in Nat
    /\ mints \in [1..Slots -> Nat]
    /\ unlocks \in [1..Slots -> Nat]
    /\ reports \subseteq Nat

\* The source holds enough for everything that may still be asked of it: tokens
\* on their way in both directions, tokens in circulation, and burned fees that
\* are not yet reported; short only of the imbalance that remains.
Backed ==
    locked + currentReserveImbalance >=
        SlotSum(mints, Slots) + TotalSupply + SlotSum(unlocks, Slots)
            + (burnedTxFees - destinationBurnedTotal)

\* Nothing is minted, and nothing returned to the source, before the genesis
\* supply is backed; then all transfers on their way back can be paid at once, so
\* that none ever fails for want of collateral.
UnlocksPayable ==
    /\ (totalMinted # 0 \/ SlotSum(unlocks, Slots) # 0) => currentReserveImbalance = 0
    /\ SlotSum(unlocks, Slots) <= locked

\* The source never believes that more fees were burned than were, whatever the
\* order in which the reports arrive.
ReportsTrue ==
    /\ destinationBurnedTotal <= burnedTxFees
    /\ \A total \in reports : total <= burnedTxFees

\* A token that is locked is minted, or returned, in the end.
TransfersArrive ==
    \A i \in 1..Slots : (mints[i] # 0 ~> mints[i] = 0) /\ (unlocks[i] # 0 ~> unlocks[i] = 0)

\* Once the bridge is collateralized, reports of burned fees are not stuck.
ReportsArrive ==
    \A total \in 0..(InitialReserveImbalance + MaxTransferred) :
        total \in reports /\ currentReserveImbalance = 0 ~> total \notin reports
=============================================================================
