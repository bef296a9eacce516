# TLA+ verification of Teleporter

Teleporter is a cross-chain messaging protocol for Avalanche subnets. The same
`TeleporterMessenger` contract is deployed at the same address on every chain; it sends
messages as Avalanche Warp Messages, which relayers carry to the destination chain, and it
pays the relayers with fees that are released by receipts travelling back. This directory
holds TLA+ models of the contracts, TLC configurations that check them on small instances,
and TLAPS proofs of the main results for every instance.

Paths below are relative to the repository; `Teleporter/` stands for
`src/contracts/src/Teleporter/`, `Apps/` for `src/contracts/src/CrossChainApplications/`.

- [Inventory](#inventory): the components, their state, operations, hazards and properties
- [Modules](#modules): what models what
- [Runs](#runs): what TLC checks, the bounds, the fairness
- [Proofs](#proofs): what holds for every value of the constants, and along which argument
- [What the models leave out](#what-the-models-leave-out)
- [Plan](#plan): what is done and what comes next

## Inventory

### TeleporterMessenger (`Teleporter/TeleporterMessenger.sol`) - modelled

*State, on each chain.* `latestMessageIDs[destination]`; `receiptQueues[source]`, the
receipts of messages delivered here and not yet returned; `sentMessageInfo[destination][id]`,
the hash and the fee of each message sent and not yet acknowledged;
`receivedFailedMessageHashes[source][id]`, what is kept of a delivered message whose execution
failed; `_relayerRewardAddresses[source][id]`, the reward address of each delivery, which
doubles as the replay protection; `_relayerRewardAmounts[relayer][asset]`; and the ERC20
balances the contract holds.

*Operations.* `sendCrossChainMessage`, `sendSpecifiedReceipts` (both through
`_sendTeleporterMessage`), `retrySendCrossChainMessage`, `addFeeAmount`,
`receiveCrossChainMessage`, `retryMessageExecution`, `redeemRelayerRewards`.

*Interactions.* Chains interact only by messages: a send emits a warp message, which a relayer
presents, with an aggregate signature of the source chain's validators, to
`receiveCrossChainMessage`. A delivery stores the relayer's reward address, calls the
destination contract, credits the fees of the receipts it carries and queues a receipt of its
own for the way back. Fees are ERC20 transfers; the token and the destination are other
people's code.

*What is hard.* Warp messages are lost (validators leave before anybody collected their
signatures), repeated and delivered in any order. Receipts leave the queue with a message that
may never arrive, and may be sent again on request, so that they arrive twice or never.
The destination may have no code yet, or fail. Tokens may keep part of what is transferred.
A chain may send to itself, so that one delivery touches both ends of a route.

*What makes it correct.* Every ID used is still stored or was delivered; each message is
delivered at most once and executed exactly once or kept for a retry; every receipt is true; a
delivered message whose fee is not yet credited has a receipt on its way; the contract holds
exactly the tokens it owes; with retries, everything is delivered and executed in the end.

### Receipt queue (`Teleporter/ReceiptQueue.sol`) - modelled

*State.* `first`, `last` and a mapping of cells. *Operations.* `enqueue`, `dequeue`,
`getOutstandingReceiptsToSend` (up to five dequeues), `size`, `getReceiptAtIndex`. *Hard:*
counters that only grow, cells deleted as they are read, an unsigned difference as the size.
*Correct:* it is a first-in first-out queue read in batches, no cell between the counters is
empty and none outside is left behind.

### ReentrancyGuards (`Teleporter/ReentrancyGuards.sol`) - modelled

*State.* `_sendEntered`, `_receiveEntered`. *Operations.* The modifiers `senderNonReentrant`
(all sending functions and `addFeeAmount`) and `receiverNonReentrant` (delivery and retried
execution); `redeemRelayerRewards` has neither. *Hard:* the destination of a message may send
inside its delivery; the fee token may deliver a message inside a send or inside
`addFeeAmount`, which checks the stored message before the call and changes it after; the
balance that tells what a transfer brought is read before and after a call in which the same
tokens may come in or go out. *Correct:* at most one call of each kind on the stack; the contract
never owes more than it holds, at no point of a nested call; receipts that a waiting send holds in
memory are not lost; nothing is executed twice; a settled message does not come back.

### TeleporterRegistry and TeleporterUpgradeable (`Teleporter/upgrades/`) - modelled

*State.* `_versionToAddress`, `_addressToVersion`, `latestVersion` in the registry;
`_minTeleporterVersion` and `_pausedTeleporterAddresses` in each application. *Operations.*
`addProtocolVersion` (a warp message of the validators themselves), the getters,
`updateMinTeleporterVersion`, `pauseTeleporterAddress`, `unpauseTeleporterAddress`,
`receiveTeleporterMessage` and `_getTeleporterMessenger`. *Hard:* versions registered out of
order, skipping some, one address under several versions; a minimum raised while messages
delivered by older versions wait to be retried. *Correct:* the maps agree, an address keeps its
highest version, the minimum never falls, an application accepts the Teleporter it sends through,
no registration takes an address from it, and a retired address comes back only with a new version
of its own.

### ERC20Bridge (`Apps/ERC20Bridge/`) - modelled

*State.* On the home chain the locked tokens, `bridgedBalances[destination][bridge][token]` and
`submittedBridgeTokenCreations`; elsewhere the wrapped tokens, `nativeToWrappedTokens`,
`wrappedTokenContracts`. *Operations.* Create a bridge token, bridge a native token, bridge a
wrapped token back or on to a third chain, and the three message handlers. *Hard:* several hops,
where the home chain only knows a balance per bridge; fees in the bridged token, one paid before
the first message and one out of what arrives; a mint delivered before the creation; a contract of
other code registered as a bridge. *Correct:* the home bridge holds what it owes to all bridges,
nothing an `ERC20Bridge` sends back fails for want of balance, tokens or fee, no bridge draws on the tokens of another, and
all together keep one ledger.

### Native token bridge (`Apps/NativeTokenBridge/`) - modelled

*State.* On the source `destinationBurnedTotal` and the locked tokens; on the destination
`currentReserveImbalance`, `totalMinted`, the burned balances. *Operations.* `transferToDestination`
of a native or an ERC20 source, `transferToSource`, `reportTotalBurnedTxFees`, and the message
handlers. *Hard:* the transfer that completes the collateral is split; burn totals arrive in any
order; executions that revert for want of collateral wait for a retry; a locked token may keep a
part of a transfer. *Correct:* nothing is minted or returned before the genesis supply is backed,
the source can always pay what the destination can send back, no fee is burned twice, and no
transfer stays stuck.

### Verified block hashes (`Apps/VerifiedBlockHash/`) - modelled

*State.* `latestBlockHeight` and `latestBlockHash` in the receiver; the publisher has none.
*Operations.* `publishLatestBlockHash` (anybody, at any time), the receiver's message handler.
*Hard:* the messages arrive in any order and some heights are never published. *Correct:* the
receiver never falls behind what it has shown, its hash is the source chain's own for that height, and nothing published
is missed for good.

### Other code - not modelled

- `Apps/ExampleMessenger` stores the last message per origin and adds no protocol of its own.
- `src/utils/gas-utils`: `CalculateReceiveMessageGasLimit` is one sum over its arguments, without
  state. Its additions are checked for overflow, its product of gas per signer and number of signers
  is not; the number of signers is counted from a bit set, far below what could wrap.
- `src/utils/deployment-utils` builds the bytes of a key-less transaction.
- The Go ABI bindings are generated from the contracts, and their helpers pack and unpack;
  `teleporter-cli` decodes events and messages for display. They make up most of the repository's Go
  code and keep no protocol state: the protocol itself is in the Solidity contracts, which is why
  the models are of those.
- The end-to-end flows under `src/tests/flows` and the mocks are tests: they were read for the
  environment they expect, such as validator churn and deployment after delivery.

## Modules

| Module | Models | State and actions |
|---|---|---|
| `TeleporterMessenger` | `TeleporterMessenger.sol` on every chain, the warp messages between them, `SafeERC20TransferFrom.sol` | one variable per mapping of the contract, with the chain (or a message key) as first index; one action per external function |
| `ReceiptBatch` | what `getOutstandingReceiptsToSend` takes from a queue and leaves in it | operators on sequences |
| `ReceiptQueue` | `ReceiptQueue.sol`: counters, cells, the loop of dequeues | `Enqueue`, `GetOutstandingReceiptsToSend` |
| `ReceiptFIFO` | abstract: a FIFO queue read in batches | `Put`, `Take` |
| `MessageDelivery` | abstract: what Teleporter promises of each message | `Send`, `Deliver`, `Execute` |
| `MCTeleporter` | constants of the runs | |
| `TeleporterRegistry` | `TeleporterRegistry.sol` on one chain | the mappings and the latest version; the constructor, `AddProtocolVersion` |
| `TeleporterUpgradeable` | `TeleporterUpgradeable.sol` with its registry, and the deliveries and retries of several Teleporters | minimum version, paused addresses, state of each message |
| `MCUpgradeable` | constants of the runs | |
| `TeleporterUpgradeProofs` | proofs | |
| `NativeTokenBridge` | `NativeTokenSource.sol` or `ERC20TokenSource.sol`, with `NativeTokenDestination.sol` | the two contracts' variables and balances, the messages between them; one action per function and handler |
| `ERC20Bridge` | `ERC20Bridge.sol` on a home chain and `N` other chains, for one token | the balances of the home bridge, the wrapped tokens, amounts on their way; one action per function and handler, and what a foreign bridge may do |
| `TokenLedger` | abstract: a vault and the claims on it | `Deposit`, `Withdraw`, `Move`, `Lose` |
| `ReentrantMessenger` | `TeleporterMessenger.sol`, `ReentrancyGuards.sol` and `SafeERC20TransferFrom.sol` on one chain, call by call | the contract's state, a stack of calls that have not returned; two actions for a function that calls another contract, one before and one after |
| `VerifiedBlockHash` | `BlockHashPublisher.sol` and `BlockHashReceiver.sol` | the source chain's blocks, the messages, the receiver's two variables |
| `MCBlockHash` | constants of the run | |
| `SlotSums` | the sum of a function's amounts | |
| `CommonLemmas` | proofs | induction over the naturals and over finite sets, sums of slots and of sets, splitting a sequence |
| `TeleporterMessengerProofs` | proofs about `TeleporterMessenger`: delivery, fees, outcomes | |
| `ReceiptQueueProofs`, `ReentrantProofs`, `NativeBridgeProofs`, `ERC20BridgeProofs`, `VerifiedBlockHashProofs` | proofs about the modules of those names | |

### How TeleporterMessenger corresponds to the contract

A transaction of the contract is one step. The two ends of a route live on different chains;
their variables are indexed by a *message key* `[src, dst, id]`: `sentMessageInfo[k]` and
`latestMessageIDs` are on `k.src`, `relayerRewardAddresses[k]` and
`receivedFailedMessageHashes[k]` on `k.dst`. `executed[k]` records the messages of the
`MessageExecuted` events of `k`, as the sequence of calls that succeeded.

| Action | Function | Remarks |
|---|---|---|
| `SendCrossChainMessage` | `sendCrossChainMessage`, `_sendTeleporterMessage` | takes the batch of receipts out of the queue; the fee recorded is the balance increase |
| `SendSpecifiedReceipts` | `sendSpecifiedReceipts` | looks the receipts up by ID and leaves the queue alone; the list may be empty or repeat |
| `RetrySendCrossChainMessage` | `retrySendCrossChainMessage` | same message, checked against its stored hash |
| `AddFeeAmount` | `addFeeAmount` | same asset, balance increase added |
| `ReceiveCrossChainMessage` | `receiveCrossChainMessage`, `_handleInitialMessageExecution`, `_markReceipt` | call succeeds, or fails and is stored; then the loop over the receipts, as a recursive function over the ledger; then the own receipt is queued |
| `RetryMessageExecution` | `retryMessageExecution` | a retry that fails reverts and is no step |
| `RedeemRelayerRewards` | `redeemRelayerRewards` | |
| `DeployDestination` | (environment) | the destination address gets code, possibly after messages were sent to it |
| `LoseWarpMessage` | (environment) | the signatures are no longer available; `retrySendCrossChainMessage` exists for this |

A delivery leaves its warp message where it is, so relayers may present it again at any time.
`warpMessages` is a set: order and multiplicity of delivery are free. `OtherWarpMessages` are
signed messages of other contracts, which `receiveCrossChainMessage` must refuse; the delivery
run has one that imitates a receipt.

The properties are at the end of `TeleporterMessenger.tla`, each with a comment on what it says
of the code. Operators marked "(Mutant: ...)" stand before the definition they change; they are
plausible bugs, each of which makes one of the properties fail.

### How TeleporterUpgradeable corresponds to the contracts

`TeleporterRegistry` holds the state of one registry in a record; `AddToRegistry` is
`_addToRegistry`, `CanRegister` its requirements, and the constructor is the loop over its entries
as a recursive function. The signed messages are a constant set that stays presentable for ever,
with messages of another chain, of a contract and for another registry in it, which must be
refused.

`TeleporterUpgradeable` EXTENDS it with one application. Its actions are the constructor (at any
time, also before the first version), `updateMinTeleporterVersion`, pausing and unpausing, and what
the messengers do with the messages they hold for it: `DeliverMessage` is the first delivery, whose
call fails when the application refuses this Teleporter, does not exist yet, or fails by itself;
`RetryMessage` is `retryMessageExecution`. `Accepts` is the check of `receiveTeleporterMessage`,
`SendsThrough` the one of `_getTeleporterMessenger`; the first looks an address up in one mapping,
the second a version in the other. Messengers may be at addresses that are not registered (yet).
The functions restricted by `_checkTeleporterUpgradeAccess` are steps of the owner.

### How NativeTokenBridge corresponds to the contracts

The source here takes transfers of both kinds of source contract, which differ in nothing else; the
destination is the same for both. `locked` is what the
source contract holds of the locked token, and `burnedTxFees` and `burnedForTransfer` are the two
balances that `totalSupply` subtracts. `TransferNativeToDestination` and `TransferERC20ToDestination`
are the two `transferToDestination`; `ReceiveTransfer` is the destination's
`receiveTeleporterMessage`, `UnlockTokens` and `HandleBurnTokens` are what the source's does with
its two actions. `BurnTxFees` is the chain, which credits fees to an address nobody owns, and
`SendToBurnAddress` is anybody who sends tokens to the other one.

Of Teleporter the model takes what is proved above: a message is executed at most once, in any
order, and one whose execution reverts stays to be retried. A transfer on its way is an amount in one
of `Slots` slots; reports are a set, because a second report of the same total changes nothing.

### How ReentrantMessenger corresponds to the contract

`TeleporterMessenger` takes each function as one step. That is the truth as long as nobody calls back;
`ReentrantMessenger` takes apart the same functions at their external calls: the transfer of a fee
(`BeginSend` and `EndSend`, `AddFeeAmount` and `EndAddFeeAmount`), the call of the destination
(`BeginReceive` and `EndReceive`, `BeginRetryExecution` and `EndRetryExecution`) and the transfer of a
reward (`BeginRedeem` and `EndRedeem`). A frame of the stack is what the waiting function holds in its
local variables: the ID and the receipts of the message it is about to store, the balance before the
transfer, the receipts of the message it is delivering. Between the two halves the other contract may
call any function, as deep as `MaxDepth`; `MoveTokensIn` and `MoveTokensOut` are the moment at which
the token moves, with calls before and after it.

A call that reverts undoes all it did, so it is modelled as never begun (a failing delivery, which
the contract catches, is `ReceiveUnexecuted`), and a call that could only revert does not return. A
message can be acknowledged by the other chain only when its transaction is finished (`accepted`).

One thing is visible here that the atomic model cannot show: a token that lets the receipt of a message
be delivered while `addFeeAmount` waits for it makes its amount be added to a message no longer stored.
Those tokens are counted for nobody. The contract stays solvent, and `SettledForGood` says that the
message does not come back, so that no other fee is paid twice.

### How ERC20Bridge corresponds to the contracts

Everything is for one native token: the mappings are keyed by token and no operation touches two.
`Bridges` are the contracts on other chains that the home bridge was told of; `Foreign` ones are not
an `ERC20Bridge` and do as they like (`ForeignExecute`, `ForeignTransfer`), which the home bridge must
survive. `BridgeNativeTokens` is `bridgeTokens` of the native token with `_processNativeTokenTransfer`,
`BridgeWrappedTokens` is `bridgeTokens` of a wrapped token with `_processWrappedTokenTransfer`;
`MintBridgeTokens`, `ReleaseTokens` and `ForwardTokens` are the handlers of what these send. A transfer
on its way is an amount in a slot, with the destination and the second fee beside it if it goes back.

### How VerifiedBlockHash corresponds to the contracts

`blocks` are the hashes of the source chain up to the last accepted block; a transaction of
`publishLatestBlockHash` is in the next one. `OtherMessages` are messages of other senders, which the
receiver refuses for ever.

### Refinement

`MessageDelivery` describes each message by its stage (`unsent`, `sent`, `failed`, `done`), the
reward address of its delivery and whether its fee was credited. Its `Deliver` lets a delivery
settle only messages delivered before. `TeleporterMessenger!Delivery` maps the contract's state
to it: a message with a reward address is `failed` when its hash is kept for a retry and `done`
otherwise, one without is `sent` while its sender stores it. `ImplementsDelivery` is checked by
TLC and proved by TLAPS. `ReceiptQueue!FIFO` maps the counters and cells to the sequence that
`getReceiptAtIndex` shows. `ERC20Bridge!Ledger` maps the home bridge's balance to a vault, and all that
a bridge answers for (minted, on its way there or back) to its claim; a foreign bridge's claim is the
balance kept for it. Deliveries move nothing in that ledger. Both refinements are checked and proved too.

## Runs

| Run | Checks | Instance | States |
|---|---|---|---|
| `delivery` | `TypeOK`, `MessageNeverLost`, `ReceiptsTruthful`, `ReceiptNeverLost`, `ExecutedXorRetryable`, `SignedMessagesAreSent`, `ImplementsDelivery` | 2 chains, 2 relayers; 2 messages there, 1 back, some for one relayer only, one imitation | 95,132 |
| `fees` | `FeesAccounted`, `RewardsAreEarned` | 2 chains, 2 relayers (symmetric), 1 token; 2 messages, one of them with a fee of up to 2, 2 messages back | 606,324 |
| `self` | `ReceiptNeverLost`, `FeesAccounted` | 1 chain that sends 3 messages to itself, lists of 2 specified receipts | 355,458 |
| `liveness` | `EventuallyDelivered`, `EventuallyExecuted`, `ReturnedReceiptSettles`, `ReceiptsSentOnRequest` | 2 chains, 2 relayers, of which 1 keeps delivering; 1 message there, 2 back | 42,492 |
| `queue` | `CellsMatchCounters`, `ImplementsFIFO` | 6 receipts of 3 kinds, batches of 2 | 4,876 |
| `reentrant` | `NoRecursion`, `Solvent`, `ReceiptKept`, `ExecutedOnce`, `SettledForGood` | 4 nested calls; 2 messages each way, 2 relayers, amounts up to 2, 3 tokens | 562,030 |
| `upgrade` | `RegistryConsistent`, `VersionsAuthorized`, `SendersAccepted`, `VersionsPermanent`, `OnlyOwnerRevokes`, `RetiredStaysRetired`, `RetriesSucceed` | 3 addresses, 4 versions (increments of at most 2), a message at each address, 4 lists of initial entries | 125,136 |
| `bridge` | `Backed`, `UnlocksPayable`, `ReportsTrue`, `TransfersArrive`, `ReportsArrive` | genesis supply 2, amounts up to 3, 6 tokens in all, 2 transfers on their way each way, 3 reports | 32,013 |
| `erc20bridge` | `Collateralized`, `ReturnsPayable`, `TokensArrive`, `LedgerSpec` | 3 bridges, one of them foreign; amounts and fees up to 2, 3 tokens, 1 message each way per bridge | 178,275 |
| `blockhash` | `HashOfHeight`, `CatchesUp` | 4 blocks, 2 hashes, made-up messages | 2,598 |
| `addfee` | `FeeAddedBeforeDelivery` is violated | as `fees`, one round trip | |
| `minversion` | `MinUpdatedBelowLatest` is violated | 2 addresses, 3 versions | |

The type invariants of the modules other than `TeleporterMessenger` are in no run: they are proved.

**What they show.**
`delivery`: whatever is lost, sent again, delivered twice or in any order, no message is lost,
delivered or executed twice; no receipt is invented and none is dropped before it has done its
work. `fees`: also for a token that keeps part of every transfer, the contract holds exactly the
fees of unacknowledged messages plus the rewards not redeemed, and a reward grows only by the
fees of the messages that this step settles for that relayer, so that a receipt that arrives
twice pays once. `self`: receipts and fees when the two ends of a route are one contract, where a
delivery settles messages of the maps it changes. `liveness`: with signatures lost again and again,
what an active relayer may deliver is delivered, what failed is executed, receipts settle once a deliverable message
carries them, and a receipt taken by a message that its only relayer never delivers gets home in another one. `queue`: counters, cells and
batches are a FIFO queue.

`reentrant`: fee tokens and destinations call back before and after they do what they were called for,
up to four calls deep: there is at most one send and one delivery on the stack, the contract holds what
it owes at every point of the nesting, a receipt taken from the queue by a send that waits for its fee
is not lost, no message runs twice, and a message settled while a call that found it stored was
waiting is not stored again.

`upgrade`: in whatever order versions are registered, with gaps and with old addresses coming back,
the mappings agree; the application accepts what it sends through, loses an address only by its
owner's doing, and messages that a retired Teleporter keeps for a retry stay there until that
address gets a version of its own. When the application keeps sending through one Teleporter, no
message stays unexecuted there, even if it was delivered before the address was registered.

`bridge`: what the source holds, with the imbalance that remains, covers the tokens on
their way in both directions, those in circulation and the fees not yet reported, also when the
locked token keeps a part of a transfer. So once anything can be sent back, all of it can be paid. A
transfer that is locked is executed in the end, and a report of burned fees too, once
the bridge is collateralized; before, a report of fees burned from the genesis supply reverts and
waits, because nothing is locked yet that could be burned.

`erc20bridge`: with transfers over one and two hops, fees in the token at both hops, a token that keeps
a part of a transfer and a foreign bridge that sends whatever it likes, the home bridge holds the sum of
what it keeps for each bridge, nothing an `ERC20Bridge` sends back lacks balance, tokens or its second fee, tokens sent before their
wrapped token exists arrive, and it all is one ledger. `blockhash`: the receiver shows only the source
chain's own blocks, and in the end is at least as far as anything published, for good.

**Two places where code and documentation part.**
`addfee`: `addFeeAmount` accepts a fee while the message is stored, which lasts until the receipt
arrives; its documentation ("`message` must exist and not have been delivered yet", line 155) asks
for an undelivered message, which the sending chain cannot know. `FeesAccounted` shows the
tokens are not lost: they go to the relayer that delivered the message.
`minversion`: the README of the upgrade contracts (line 72) has the new minimum "less than"
the latest version; the code, its comments and its tests allow the latest version itself, which
is what an application needs to leave all older versions behind.

**Bounds.** `MaxMessageID` bounds the IDs of a route, `MaxFee` the fee of a message,
`MaxSpecified` the list of `sendSpecifiedReceipts`, `SendInputs` what senders ask for,
`MaxEnqueued` the receipts ever put in one queue. Two messages one way with a batch size of 1
(`MaxReceiptCount`, 5 in the code) let a receipt stay in the queue behind another one, leave with
a message that is lost, and be sent again; one message back suffices to carry a receipt and to be
itself acknowledged by the second message there; the `fees` run has two messages back so that the
same receipt can be sent from the queue and again on request. A fee of 2 with a token that keeps 1
tells the amount asked for from the amount received. In `self` the third message can carry the
receipts of the first two, or one of them twice. In `liveness` the first message back takes the receipt
out of the queue and may be one for the idle relayer only, the second one can bring it on request.
Nothing here depends on larger numbers, and the proofs remove the bounds from all the properties of
`delivery`. The queue run passes three times the batch size through the queue, so that a
batch is full, partial and empty, and both counters pass every cell.

In `upgrade`, four versions with increments of at most two leave room for gaps, for an address with
two versions registered in either order, and for one that is too far ahead; `MaxVersion` bounds
versions. Three addresses are one in use, one new and one never registered.

In `bridge`, a genesis supply of 2 and amounts of up to 3 let a transfer fill a part of
the imbalance, exactly the rest of it, or more than it; 6 tokens (`MaxTransferred`) leave some in
circulation after both slots of a direction have been used, and three reports (`MaxReports`) on their
way can arrive in any order.

In `erc20bridge`, two own bridges and a foreign one give transfers from an own bridge to another, to a
foreign one and back; amounts of 2 leave something after each of two fees. `MaxLocked` bounds the home
bridge's tokens: 3 of them let one bridge hold less than the whole, so that drawing on another's tokens
would show. With one slot per bridge and direction, messages to different bridges, and the two directions
of one, overtake each other.

In `reentrant`, four calls (`MaxDepth`) are two more than the guards let a send and a delivery make
together, which leaves room for redemptions inside either; two messages each way let one be sent or
settled while another waits. `MaxHoldings` and `MaxFee` bound the tokens; `MaxReceipts` is one receipt
per message received.

In `blockhash`, four blocks let a height be skipped and two messages overtake a third; two hashes tell
one block from another.

**Deadlock** is not checked in the runs of `TeleporterMessenger` and `ReentrantMessenger`, where the
bounds on IDs stop the system, and in those of `ERC20Bridge`, where a foreign bridge may hold all
tokens for ever; it is checked in `queue`, where a batch can always be taken, in `upgrade`, where
the owner can always pause or unpause an address, in `bridge`, where a total can always
be reported again, and in `blockhash`, where the last block can always be published again.

**Fairness** (`Fairness` in `TeleporterMessenger`). The contracts do nothing by themselves, so
progress rests on the actors the protocol's README names. Weak fairness of
`retrySendCrossChainMessage`, per message: anybody may call it as long as the message is stored,
and the point of storing it is that somebody does. Strong fairness of `receiveCrossChainMessage`,
per message: a signed message can disappear again before it is delivered, so that delivery is
possible only now and then; relayers that keep trying get one of the chances. Weak fairness of
`retryMessageExecution` and of deploying the destination: the application's users want the message
executed; a destination that accepts a call accepts the retry. Deliveries are those of `ActiveRelayers` only: of a message
that only other relayers may deliver nothing is promised, and in `liveness` such a relayer may act or stop at
any time. There is no fairness of sending: `ReturnedReceiptSettles` therefore speaks of receipts that a
message carries, not of receipts that wait for a message that nobody may ever send.
`ReceiptsSentOnRequest` has a fairness condition of its own, as its hypothesis: whoever is owed a
fee calls `sendSpecifiedReceipts` for that one message, with any active relayer allowed, as long as no message that
will be delivered carries the receipt. A relayer can see all of that on the two chains. The
property then covers receipts in the queue and receipts that were swept into a message nobody delivers;
only a route whose bound on IDs is used up is excepted (`OutOfIDs`). `FairSpec` of `TeleporterUpgradeable` assumes weak
fairness of `retryMessageExecution` only: of a message that is refused for ever it demands nothing.
`NativeTokenBridge`, `ERC20Bridge` and `VerifiedBlockHash` assume weak fairness
of the execution of each message, which is what Teleporter's liveness and its users' retries give; a
message that reverts demands nothing until it can succeed. `ERC20Bridge` demands nothing of transfers that
travel on to a third chain: their second message may find no free slot, and its fee may not be covered if
a foreign bridge sent them. `ReentrantMessenger` has no fairness: a call need not return.

## Proofs

Everything below is proved by TLAPS for any finite sets of chains and relayers, any set of tokens, any number of
messages, any batch size, any inputs and any fees. The proofs assume what the modules' `ASSUME`s say: the bounds are
numbers, the zero value is no address, no token and no message, the inputs are well typed, and a warp
message of another contract does not carry this contract's address as its origin (the precompile
sets the origin to the caller).

| Theorem | Statement |
|---|---|
| `TypeCorrect` | `Spec => []TypeOK` |
| `DeliverySafety` | `Spec => []IInv`, the inductive invariant |
| `MessagesNeverLost` | `Spec => []MessageNeverLost` |
| `ReceiptsAlwaysTruthful` | `Spec => []ReceiptsTruthful` |
| `SignedMessagesAlwaysSent` | `Spec => []SignedMessagesAreSent` |
| `ExecutedOnce` | `Spec => []ExecutedXorRetryable` |
| `ReceiptsNeverLost` | `Spec => []ReceiptNeverLost` |
| `DeliveryImplemented` | `Spec => ImplementsDelivery` |
| `FeesAlwaysAccounted`, `RewardsAlwaysEarned` | `Spec => []FeesAccounted`, `Spec => RewardsAreEarned` |
| `OutcomesNeverUndone` | `Spec => OutcomesPermanent`: what a delivery decided stays decided |
| `QueueTypeCorrect`, `CellsAlwaysMatch`, `QueueImplementsFIFO` | `Spec` of `ReceiptQueue` implies `[]TypeOK`, `[]CellsMatchCounters` and `ImplementsFIFO` |
| `ReentrantSafety`, `ReentrantTypeCorrect` | `Spec` of `ReentrantMessenger` implies `[]IInv`, its inductive invariant, and `[]TypeOK` |
| `NeverRecursive`, `AlwaysSolvent`, `ReceiptAlwaysKept`, `NeverExecutedTwice`, `AlwaysSettledForGood` | it implies the properties of `reentrant` |
| `UpgradeTypeCorrect`, `RegistryAlwaysConsistent`, `VersionsAlwaysAuthorized`, `SendersAlwaysAccepted` | `Spec` of `TeleporterUpgradeable` implies `[]` of its type invariant and of the invariants of `upgrade` |
| `VersionsNeverChange`, `OwnerAloneRevokes`, `RetiredComesBackByVersion` | it implies the action properties of `upgrade` |
| `BridgeSafety`, `BridgeTypeCorrect` | `Spec` of `NativeTokenBridge` implies `[]IInv`, the inductive invariant of the bridge, and `[]TypeOK` |
| `AlwaysBacked`, `ReportsAlwaysTrue`, `UnlocksAlwaysPayable` | it implies `[]Backed`, `[]ReportsTrue`, `[]UnlocksPayable` |
| `ERC20BridgeTypeCorrect`, `ERC20BridgesCovered`, `ERC20Collateralized`, `ERC20ReturnsPayable` | `Spec` of `ERC20Bridge` implies `[]` of `TypeOK`, `BridgesCovered`, `Collateralized`, `ReturnsPayable` |
| `ERC20BridgeImplementsLedger` | it implies `LedgerSpec` |
| `BlockHashSafety`, `HashAlwaysOfHeight` | `Spec` of `VerifiedBlockHash` implies `[]IInv`, its inductive invariant, and `[]HashOfHeight` |

**The argument for delivery.** `TeleporterMessengerProofs!IInv` is the conjunction of `TypeOK`, the five safety
properties and `StoredUnderOwnKey` (a stored message bears the ID and destination it is stored
under). None of the properties is inductive alone:

- A delivery is of a *signed* message; that it is also a stored or delivered one, hence that its ID
  is in use, is `SignedMessagesAreSent`. So `MessageNeverLost` needs it.
- A delivery deletes what its receipts name; that this never deletes an undelivered message is
  `ReceiptsTruthful`, with the fact that reward addresses are never zero.
- A send uses the ID after the latest one; that this ID is neither stored nor delivered nor signed
  is `MessageNeverLost`. So `SignedMessagesAreSent` needs it in turn.
- A message sent again keeps its receipts true because of `StoredUnderOwnKey`: without it, the
  route of the resent message would not be the one its receipts were true of.
- `ExecutedXorRetryable` needs that the delivered message is the stored one, and that no message
  is delivered twice.
- `ReceiptNeverLost`: when a message is delivered that carries receipts, either it settles the
  message in question or it does not name it; when a message is settled it was delivered, so it
  was not a message still carrying receipts.

The steps of the contract are first brought to a short form each (`IsSent`, `IsDelivery`,
`IsRetried`, or a step that changes no message), and the invariant and the refinement are proved
from these forms.

**The argument for fees.** `FeesAccounted` adds up the fees of the stored messages with `MapThenSumSet`,
which chooses an element of a set and adds its amount to the sum over the rest. `CommonLemmas` shows
that this defines a function, that any element may be taken first, and so that a sum changes by what one
element changes (`SetSumUpdate`). `TeleporterMessengerProofs!Accounted` is `FeesAccounted` with sums over *all*
messages, those not stored counting 0, so that the set summed over does not change. A send and an added fee
move the amount received to one message that is stored afterwards (`FeeArrives`) - a send to an ID that no
stored message has, which is `MessageNeverLost` again. A receipt takes the fee of one message and adds it
to one reward, or finds nothing (`MarkReceiptPays`), so the loop over the receipts owes the same after
each of them (`MarkReceiptsPay`, by induction), also when a receipt is repeated. A redemption takes the
same amount from a reward and from the balance.

`RewardsAreEarned` follows the same loop for one relayer: after each receipt, its reward has grown by the
fees of the messages deleted so far that it delivered (`MarkReceiptsEarn`). That a receipt pays the relayer
recorded for the message is `ReceiptsTruthful`, so this theorem too rests on the delivery invariant.

**The argument for outcomes.** `OutcomesPermanent` relates every later state to the delivery of a message: the
relayer recorded for it never changes, a fee that was settled is never stored again, a message whose
execution cannot be retried never can be, and one that can is kept unchanged. A delivery could undo
this only for the message it delivers, which was not delivered before; a send only for an ID in use, which
`MessageNeverLost` excludes; an added fee or a message sent again only for a stored message, which is not settled.
The theorem therefore rests on the delivery invariant. It has no run of its own: with `delivery`'s
constants TLC confirms it.

**The argument for the queue.** The batch loop, a recursive function over the number of dequeues, has a
closed form (`After`): the head moves by that number, the cells passed are deleted, and their receipts
are taken in order. With `TypeOK` and `CellsMatchCounters` every cell taken holds a receipt, and what
is taken and left are the two parts of the abstract queue.

**The argument for nested calls.** `ReentrantProofs!IInv` adds three facts to the properties of `reentrant`:
while the transfer of a fee is measured, the balance before it covers all that is owed (`Measured`), so
that the whole increase may be promised; a send that waits has an ID that no other message uses and that
carries no receipts yet (`IDsUsed`), so that storing it overwrites none; what was executed was received
(`OnceInv`). `Measured` needs `NoRecursion`: a second send inside the first would promise the same
increase. A redemption inside lowers the balance and the debt by the same amount, the increase then comes
out smaller, and the contract holds more than it owes.

**The argument for upgrades.** `TeleporterUpgradeProofs!IInv` adds to the invariants of `upgrade` that
the minimum is at most the latest version (`MinWithinLatest`). The latest version has an address
(`SendsThrough`), that address has the highest version registered for it, which is at least the
latest one (`RegistryConsistent`), hence at least the minimum: `SendersAccepted`. The constructor's
loop is treated like the loop of receipts below, by induction over the number of its entries.

**The argument for the native bridge.** `NativeBridgeProofs!IInv` has four parts besides the types. `Covered`
is `Backed` without its differences: tokens on their way, minted and in the genesis are at most those
locked, missing as collateral, burned for transfers and burned at the source. Every operation moves
an amount from one summand to another (`BalanceMoves`); the sums over slots change by the one slot
written (`SlotSumUpdate` in `CommonLemmas`, by induction over the slots). `SupplyDefined` says that
`totalSupply` does not underflow, `CollateralFirst` that nothing was minted or sent back while an
imbalance remains. `UnlocksPayable` follows from all of them: without an imbalance, what is locked
covers the transfers back because what was reported is at most what was burned (`ReportsTrue`) and
what was burned at most what there was.

**The argument for the ERC20 bridge.** `ERC20BridgeProofs!IInv` is `TypeOK`, `Collateralized`,
`BridgesCovered` (the balance kept for a bridge is at least what it minted and has on its way there and
back) and `FeesPaid` (a transfer on its way to a third chain is more than its second fee).
`Collateralized` alone does not say that a transfer back is within the balance of its own bridge, and
`BridgesCovered` alone not that all balances together are held. A transfer that travels on moves a balance
from one bridge to another and its fee out of the vault, also when both bridges are the same.

**The argument for block hashes.** `HashOfHeight` is not inductive: the receiver stores what it is sent.
`VerifiedBlockHashProofs!IInv` adds that what the publisher sent is true (`PublishedTrue`). A message is sent with
the height of the last block and its hash; that it is still true when it arrives, any number of blocks later,
is that a chain only grows (`HashesStay`). Messages of other senders may say anything, and are refused.

**The loop.** `receiveCrossChainMessage` marks receipts in a loop, modelled as a recursive function.
`MarkReceiptsEffect` gives its closed form: exactly the stored messages that the receipts name are
deleted, and the ledger keeps its type. It is proved by induction over the number of receipts
marked, with `NatSetInduction`, which is itself proved from the well-foundedness of `<` on the
naturals.

**Model-checked only.** Every invariant and every action property that a passing run checks is a theorem, and so are
the three refinements. What remains is liveness (`EventuallyDelivered`, `EventuallyExecuted`,
`ReturnedReceiptSettles`, `ReceiptsSentOnRequest`, `RetriesSucceed`, `TransfersArrive`, `ReportsArrive`, `TokensArrive`,
`CatchesUp`: fairness is out of TLAPS's reach here), which TLC checks on small instances.

## What the models leave out

- **Hashes** are the hashed values: two hashes are equal only if the messages are. `Zero` is the zero
  hash and the zero address.
- **Blockchain IDs**: `blockchainID` is set on the first send or delivery to the chain's own ID; the
  models take it as given. The index of the warp message in the transaction, and the check that it is
  valid, are part of "a relayer presents a signed message".
- **Payloads**: of a payload only whether it is empty matters; of the list of allowed relayers only its members.
  Sender and destination addresses, and the required gas limit, are part of the message
  and stand for themselves; there is one destination contract per chain. Too little gas for the call
  makes the delivery revert, which is no step.
- **Calls inside a transaction** are in `ReentrantMessenger`, for one contract and one fee token; on many
  chains, a transaction is one step. Resending a message changes no storage and is left out there, and
  so is the list of more than one specified receipt.
- **Access control of the application** (`Ownable`): the restricted functions are the owner's steps;
  ownership does not change.
- **Amounts** are natural numbers: no overflow of 256 bits. `safeTransferFrom` requires the balance to
  grow, and a transfer to a relayer of what the contract holds succeeds.
- **Native bridge**: transfers of nothing (the destination refuses them for ever, the source unlocks
  nothing), recipients (one that refuses tokens makes its message revert until it accepts them), and
  the relayer fees of the native source and of the destination, which are another token's. The genesis
  is assumed to hold `initialReserveImbalance` tokens, as the constructor's documentation asks, and
  this contract to be the only minter of its chain.
- **ERC20 bridge**: recipients, and the fee of `submitCreateBridgeToken`, which is paid in another token.
  The messages that create a wrapped token are not kept apart, because only the first execution does
  anything. A token that keeps all of a second fee makes the second send revert, and so the transfer, which
  waits for a retry. One token: no operation touches the state of two.
- **Block hashes**: the chain and the publisher that the receiver was constructed with are one.
- **Events** other than `MessageExecuted`, and the view functions.
- **Not modelled at all**: the components listed under [Other code](#other-code---not-modelled).

## Plan

Done: the messenger on many chains, its queue, nested calls, upgrades, both bridges and block hashes, with
their abstract specifications, and proofs of all their safety properties. What would add most from here:

1. Two fee tokens in `ReentrantMessenger`, with a call back to the other token's operations.
