---------------------------- MODULE ERC20Bridge ------------------------------
(***************************************************************************)
(* One token of a home chain and the bridge contracts                      *)
(* (src/contracts/src/CrossChainApplications/ERC20Bridge/ERC20Bridge.sol)  *)
(* that carry it: the one of the home chain, which locks the token, and    *)
(* those of N other chains, which mint and burn wrapped tokens.  Each of   *)
(* these is an ERC20Bridge, except the foreign ones: contracts of another  *)
(* code that were registered as bridges and may send anything.             *)
(*                                                                         *)
(* Teleporter executes a message at most once, in any order; an execution  *)
(* that reverts leaves it to be retried.  A message on its way, or waiting *)
(* for a retry, is an amount in a slot; 0 is a free slot.  The messages    *)
(* that create the wrapped token are not kept apart: once one has been     *)
(* sent it can be executed, and only the first execution does anything.    *)
(***************************************************************************)
EXTENDS Naturals, SlotSums

CONSTANTS
    N,                        \* bridges of other chains are 1..N
    Foreign,                  \* those that are not an ERC20Bridge
    Slots,                    \* bound: messages on their way, per bridge and direction
    MaxAmount,                \* bound: tokens in one transfer
    MaxLocked                 \* bound: tokens in the home bridge

ASSUME ERC20BridgeAssumption ==
    /\ N \in Nat /\ Slots \in Nat /\ MaxAmount \in Nat
    /\ Foreign \subseteq 1..N

VARIABLES
    \* the bridge of the home chain
    locked,                   \* its balance of the token
    submitted,                \* bridges with submittedBridgeTokenCreations
    bridgedBalances,          \* [bridge]
    \* the bridges of the other chains
    created,                  \* those where nativeToWrappedTokens has the token
    supply,                   \* [bridge]: totalSupply of the wrapped token
    \* messages
    mints,                    \* [bridge][slot]: amount to mint there
    returns,                  \* [bridge][slot]: amount of a transfer sent from there
    routes                    \* [bridge][slot]: its destination and secondary fee

homeVars == << locked, submitted, bridgedBalances >>
wrappedVars == << created, supply >>
messageVars == << mints, returns, routes >>
vars == << locked, submitted, bridgedBalances, created, supply, mints, returns, routes >>

Home == 0
Bridges == 1..N
OwnBridges == Bridges \ Foreign
Amounts == 0..MaxAmount
SlotIds == 1..Slots
NoAmounts == [i \in SlotIds |-> 0]
NoRoute == [to |-> Home, fee |-> 0]
Routes == [to : {Home} \cup Bridges, fee : Amounts]

Init ==
    /\ locked = 0
    /\ submitted = {}
    /\ bridgedBalances = [d \in Bridges |-> 0]
    /\ created = {}
    /\ supply = [d \in Bridges |-> 0]
    /\ mints = [d \in Bridges |-> NoAmounts]
    /\ returns = [d \in Bridges |-> NoAmounts]
    /\ routes = [d \in Bridges |-> [i \in SlotIds |-> NoRoute]]

-----------------------------------------------------------------------------
(* The home chain                                                          *)

\* Can be repeated, for a message that was dropped.
SubmitCreateBridgeToken(d) ==
    /\ submitted' = submitted \cup {d}
    /\ UNCHANGED << locked, bridgedBalances, wrappedVars, messageVars >>

Credit(balance, totalAmount, feeAmount) == balance + (totalAmount - feeAmount)

\* The message to mint what is left after its fee.
SendMint(d, i, amount) ==
    /\ mints[d][i] = 0
    /\ mints' = [mints EXCEPT ![d][i] = amount]

\* (Mutant: the amount asked for is bridged, not the amount received.)
BridgedAmountAskedFor(totalAmount, adjustedAmount) == totalAmount
BridgedAmount(totalAmount, adjustedAmount) == adjustedAmount

\* bridgeTokens of the token itself, which may keep a part of what is transferred.
BridgeNativeTokens(d, i, totalAmount, adjustedAmount, feeAmount) ==
    /\ d \in submitted
    /\ adjustedAmount <= totalAmount
    /\ adjustedAmount > feeAmount
    /\ LET amount == BridgedAmount(totalAmount, adjustedAmount)
       IN  /\ bridgedBalances' = [bridgedBalances EXCEPT ![d] = Credit(@, amount, feeAmount)]
           /\ SendMint(d, i, amount - feeAmount)
    /\ locked' = locked + adjustedAmount - feeAmount
    /\ UNCHANGED << submitted, wrappedVars, returns, routes >>

\* What the bridge that returns tokens may still return.
\* (Mutant: tokens that travel on are not taken from the balance of the bridge
\* they come from.)
DebitHomeOnly(balance, amount, to) == IF to = Home THEN balance - amount ELSE balance
Debit(balance, amount, to) == balance - amount

\* (Mutant: a balance can never be used up.)
StrictlyCovered(s, amount) == bridgedBalances[s] > amount
Covered(s, amount) == bridgedBalances[s] >= amount

FreeReturn(s, i) ==
    /\ returns' = [returns EXCEPT ![s][i] = 0]
    /\ routes' = [routes EXCEPT ![s][i] = NoRoute]

\* transferBridgeTokens to a recipient on the home chain.
ReleaseTokens(s, i) ==
    /\ returns[s][i] # 0
    /\ routes[s][i].to = Home
    /\ Covered(s, returns[s][i])
    /\ locked >= returns[s][i]
    /\ bridgedBalances' =
           [bridgedBalances EXCEPT ![s] = Debit(@, returns[s][i], Home)]
    /\ locked' = locked - returns[s][i]
    /\ FreeReturn(s, i)
    /\ UNCHANGED << submitted, wrappedVars, mints >>

\* transferBridgeTokens to another bridge: a second message, whose fee is taken
\* from the tokens.  Whether that bridge has the wrapped token is not asked.
ForwardTokens(s, i, j) ==
    LET amount == returns[s][i]
        to == routes[s][i].to
        fee == routes[s][i].fee
        debited == [bridgedBalances EXCEPT ![s] = Debit(@, amount, to)]
    IN  /\ amount # 0
        /\ to # Home
        /\ Covered(s, amount)
        /\ fee <= amount
        /\ locked >= fee
        /\ bridgedBalances' = [debited EXCEPT ![to] = Credit(@, amount, fee)]
        /\ SendMint(to, j, amount - fee)
        /\ locked' = locked - fee
        /\ FreeReturn(s, i)
        /\ UNCHANGED << submitted, wrappedVars >>

-----------------------------------------------------------------------------
(* The other chains                                                        *)

CreateBridgeToken(d) ==
    /\ d \in submitted
    /\ d \notin Foreign
    /\ d \notin created
    /\ created' = created \cup {d}
    /\ UNCHANGED << homeVars, supply, messageVars >>

\* Reverts, and waits for a retry, until the wrapped token exists.
MintBridgeTokens(d, i) ==
    /\ d \in created
    /\ mints[d][i] # 0
    /\ supply' = [supply EXCEPT ![d] = @ + mints[d][i]]
    /\ mints' = [mints EXCEPT ![d][i] = 0]
    /\ UNCHANGED << homeVars, created, returns, routes >>

TransferAmount(totalAmount, primaryFeeAmount) == totalAmount - primaryFeeAmount

\* (Mutant: the second fee is forgotten.)
CoversPrimaryFee(totalAmount, primaryFeeAmount, secondaryFeeAmount) ==
    totalAmount > primaryFeeAmount
CoversFees(totalAmount, primaryFeeAmount, secondaryFeeAmount) ==
    totalAmount > primaryFeeAmount + secondaryFeeAmount

\* bridgeTokens of the wrapped token.  The primary fee stays in circulation, with
\* the messenger; the rest is burned and returned to the home bridge.
BridgeWrappedTokens(s, i, to, totalAmount, primaryFeeAmount, secondaryFeeAmount) ==
    /\ s \in created
    /\ to # s
    /\ CoversFees(totalAmount, primaryFeeAmount, secondaryFeeAmount)
    /\ totalAmount <= supply[s]
    /\ returns[s][i] = 0
    /\ supply' = [supply EXCEPT ![s] = @ - (totalAmount - primaryFeeAmount)]
    /\ returns' = [returns EXCEPT ![s][i] = TransferAmount(totalAmount, primaryFeeAmount)]
    /\ routes' = [routes EXCEPT ![s][i] = [to |-> to, fee |-> secondaryFeeAmount]]
    /\ UNCHANGED << homeVars, created, mints >>

\* The wrapped token is burnable by its holders.
BurnWrappedTokens(d, amount) ==
    /\ d \in created
    /\ amount <= supply[d]
    /\ supply' = [supply EXCEPT ![d] = @ - amount]
    /\ UNCHANGED << homeVars, created, messageVars >>

\* A foreign bridge executes what it is sent as it likes, and sends any transfer.
ForeignExecute(d, i) ==
    /\ d \in Foreign
    /\ mints[d][i] # 0
    /\ mints' = [mints EXCEPT ![d][i] = 0]
    /\ UNCHANGED << homeVars, wrappedVars, returns, routes >>

ForeignTransfer(s, i, to, amount, fee) ==
    /\ s \in Foreign
    /\ amount # 0
    /\ returns[s][i] = 0
    /\ returns' = [returns EXCEPT ![s][i] = amount]
    /\ routes' = [routes EXCEPT ![s][i] = [to |-> to, fee |-> fee]]
    /\ UNCHANGED << homeVars, wrappedVars, mints >>

-----------------------------------------------------------------------------

Transfer ==
    \E d \in Bridges, i \in SlotIds, amount, fee \in Amounts :
        \/ /\ locked + amount <= MaxLocked
           /\ \E received \in Amounts : BridgeNativeTokens(d, i, amount, received, fee)
        \/ \E to \in {Home} \cup Bridges :
               \/ \E primaryFee \in Amounts :
                      BridgeWrappedTokens(d, i, to, amount, primaryFee, fee)
               \/ ForeignTransfer(d, i, to, amount, fee)

\* Teleporter executes a message, at delivery or by a retry.
Execute ==
    \E d \in Bridges, i \in SlotIds :
        \/ MintBridgeTokens(d, i)
        \/ ReleaseTokens(d, i)
        \/ \E j \in SlotIds : ForwardTokens(d, i, j)
        \/ ForeignExecute(d, i)

Next ==
    \/ Transfer
    \/ Execute
    \/ \E d \in Bridges : SubmitCreateBridgeToken(d) \/ CreateBridgeToken(d)
    \/ \E d \in Bridges, amount \in Amounts : BurnWrappedTokens(d, amount)

Spec == Init /\ [][Next]_vars

\* Teleporter delivers every message and lets anybody retry it.
Fairness ==
    \A d \in OwnBridges :
        /\ WF_vars(CreateBridgeToken(d))
        /\ \A i \in SlotIds : WF_vars(MintBridgeTokens(d, i)) /\ WF_vars(ReleaseTokens(d, i))

FairSpec == Spec /\ Fairness

-----------------------------------------------------------------------------

\* The type invariant.
TypeOK ==
    /\ locked \in Nat
    /\ submitted \subseteq Bridges
    /\ bridgedBalances \in [Bridges -> Nat]
    /\ created \subseteq OwnBridges
    /\ supply \in [Bridges -> Nat]
    /\ mints \in [Bridges -> [SlotIds -> Amounts]]
    /\ returns \in [Bridges -> [SlotIds -> Amounts]]
    /\ routes \in [Bridges -> [SlotIds -> Routes]]

\* The tokens a bridge answers for: on their way to it, minted, and on their way
\* back.
Outstanding(d) == SlotSum(mints[d], Slots) + supply[d] + SlotSum(returns[d], Slots)

\* The balance the home bridge keeps for another bridge covers all that this one
\* answers for, whatever the other bridges do: no transfer back is ever refused
\* for want of balance.
BridgesCovered == \A d \in OwnBridges : Outstanding(d) <= bridgedBalances[d]

\* The home bridge holds the sum of these balances: what it releases or pays as a
\* fee is always there, and no bridge can draw on the tokens of another.
Collateralized == SlotSum(bridgedBalances, N) <= locked

\* No transfer that an ERC20Bridge sends back fails for one of three reasons: its
\* bridge's balance, the tokens held, or a second fee that its tokens do not pay.
ReturnsPayable ==
    \A s \in OwnBridges, i \in SlotIds :
        returns[s][i] # 0 =>
            /\ Covered(s, returns[s][i])
            /\ locked >= returns[s][i]
            /\ routes[s][i].to = Home \/ routes[s][i].fee < returns[s][i]

\* Tokens bridged where the creation was submitted are minted, and tokens sent
\* back to the home chain released.
TokensArrive ==
    \A d \in OwnBridges, i \in SlotIds :
        /\ mints[d][i] # 0 /\ d \in submitted ~> mints[d][i] = 0
        /\ returns[d][i] # 0 /\ routes[d][i].to = Home ~> returns[d][i] = 0

\* Tokens are moved as in a single ledger: messages on their way, their order, and
\* the split between bridges do not show.
Ledger == INSTANCE TokenLedger WITH
    vault <- locked,
    claims <- [d \in Bridges |-> IF d \in Foreign THEN bridgedBalances[d] ELSE Outstanding(d)]
LedgerSpec == Ledger!LedgerSpec
=============================================================================
