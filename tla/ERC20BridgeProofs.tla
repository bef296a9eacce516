-------------------------- MODULE ERC20BridgeProofs --------------------------
(***************************************************************************)
(* Proofs about ERC20Bridge.  All that a bridge answers for is one number, *)
(* Total, which the steps of its own chain leave alone; so each action is  *)
(* first reduced to what it does to the totals and to the balances of the  *)
(* home bridge, and the invariants and the refinement follow from that.    *)
(***************************************************************************)
EXTENDS ERC20Bridge, CommonLemmas

\* A function that differs from f at i only, where it is x.
Updated(f, i, x, g) == g = [f EXCEPT ![i] = x]

Total(m, u, r) == SlotSum(m, Slots) + u + SlotSum(r, Slots)
Totals(m, u, r) == [d \in Bridges |-> Total(m[d], u[d], r[d])]

\* The transfers that an ERC20Bridge sends back can pay their second fee.
FeesPaid ==
    \A s \in OwnBridges, i \in SlotIds :
        returns[s][i] # 0 =>
            routes[s][i].to = Home \/ routes[s][i].fee < returns[s][i]

IInv == TypeOK /\ Collateralized /\ BridgesCovered /\ FeesPaid

-----------------------------------------------------------------------------
(* Totals                                                                  *)

\* A total is a natural number.
LEMMA TotalType ==
    ASSUME NEW m \in [SlotIds -> Nat], NEW u \in Nat, NEW r \in [SlotIds -> Nat]
    PROVE  Total(m, u, r) \in Nat /\ u <= Total(m, u, r)
<1>1. SlotSum(m, Slots) \in Nat /\ SlotSum(r, Slots) \in Nat
    BY SlotSumType, ERC20BridgeAssumption DEF SlotIds
<1> QED
    BY <1>1 DEF Total

\* A slot that takes another amount.
LEMMA SlotChanges ==
    ASSUME NEW f \in [SlotIds -> Nat], NEW i \in SlotIds, NEW x \in Nat,
           NEW g, Updated(f, i, x, g)
    PROVE  SlotSum(g, Slots) = SlotSum(f, Slots) - f[i] + x
<1>1. g \in [SlotIds -> Nat] /\ g[i] = x /\ \A j \in SlotIds : j # i => g[j] = f[j]
    BY DEF Updated
<1>2. SlotSum(g, Slots) = SlotSum(f, Slots) - f[i] + g[i]
    BY <1>1, SlotSumUpdate, ERC20BridgeAssumption DEF SlotIds
<1> QED
    BY <1>1, <1>2

\* A message to mint adds its amount to the total of its bridge.
LEMMA TotalOfMessage ==
    ASSUME NEW m \in [SlotIds -> Nat], NEW u \in Nat, NEW r \in [SlotIds -> Nat],
           NEW i \in SlotIds, NEW x \in Nat, m[i] = 0, NEW g, Updated(m, i, x, g)
    PROVE  Total(g, u, r) = Total(m, u, r) + x
<1>1. SlotSum(g, Slots) = SlotSum(m, Slots) - m[i] + x
    BY SlotChanges
<1>2. SlotSum(m, Slots) \in Nat /\ SlotSum(r, Slots) \in Nat /\ m[i] \in Nat
    BY SlotSumType, ERC20BridgeAssumption DEF SlotIds
<1> QED
    BY <1>1, <1>2 DEF Total

\* Minting moves the amount within the total.
LEMMA TotalOfMint ==
    ASSUME NEW m \in [SlotIds -> Nat], NEW u \in Nat, NEW r \in [SlotIds -> Nat],
           NEW i \in SlotIds, NEW g, Updated(m, i, 0, g)
    PROVE  Total(g, u + m[i], r) = Total(m, u, r)
<1>1. SlotSum(g, Slots) = SlotSum(m, Slots) - m[i] + 0
    BY SlotChanges
<1>2. SlotSum(m, Slots) \in Nat /\ SlotSum(r, Slots) \in Nat /\ m[i] \in Nat
    BY SlotSumType, ERC20BridgeAssumption DEF SlotIds
<1> QED
    BY <1>1, <1>2 DEF Total

\* So does burning wrapped tokens to return them.
LEMMA TotalOfReturn ==
    ASSUME NEW m \in [SlotIds -> Nat], NEW u \in Nat, NEW r \in [SlotIds -> Nat],
           NEW i \in SlotIds, NEW x \in Nat, r[i] = 0, x <= u, NEW g, Updated(r, i, x, g)
    PROVE  Total(m, u - x, g) = Total(m, u, r)
<1>1. SlotSum(g, Slots) = SlotSum(r, Slots) - r[i] + x
    BY SlotChanges
<1>2. SlotSum(m, Slots) \in Nat /\ SlotSum(r, Slots) \in Nat /\ r[i] \in Nat
    BY SlotSumType, ERC20BridgeAssumption DEF SlotIds
<1> QED
    BY <1>1, <1>2 DEF Total

\* The home bridge takes a returned amount off the total.
LEMMA TotalOfRelease ==
    ASSUME NEW m \in [SlotIds -> Nat], NEW u \in Nat, NEW r \in [SlotIds -> Nat],
           NEW i \in SlotIds, NEW g, Updated(r, i, 0, g)
    PROVE  Total(m, u, g) = Total(m, u, r) - r[i] /\ r[i] <= Total(m, u, r)
<1>1. SlotSum(g, Slots) = SlotSum(r, Slots) - r[i] + 0
    BY SlotChanges
<1>2. SlotSum(m, Slots) \in Nat /\ SlotSum(r, Slots) \in Nat /\ r[i] \in Nat
    BY SlotSumType, ERC20BridgeAssumption DEF SlotIds
<1>3. r[i] <= SlotSum(r, Slots)
    BY SlotSumBound, ERC20BridgeAssumption DEF SlotIds
<1> QED
    BY <1>1, <1>2, <1>3 DEF Total

\* Burned wrapped tokens leave the total.
LEMMA TotalOfBurn ==
    ASSUME NEW m \in [SlotIds -> Nat], NEW u \in Nat, NEW r \in [SlotIds -> Nat],
           NEW x \in Nat, x <= u
    PROVE  Total(m, u - x, r) = Total(m, u, r) - x /\ x <= Total(m, u, r)
<1>1. SlotSum(m, Slots) \in Nat /\ SlotSum(r, Slots) \in Nat
    BY SlotSumType, ERC20BridgeAssumption DEF SlotIds
<1> QED
    BY <1>1 DEF Total

\* The totals of all bridges.
LEMMA TotalsType ==
    TypeOK => Totals(mints, supply, returns) \in [Bridges -> Nat]
<1> SUFFICES ASSUME TypeOK, NEW d \in Bridges
             PROVE  Total(mints[d], supply[d], returns[d]) \in Nat
    BY DEF Totals
<1>1. mints[d] \in [SlotIds -> Nat] /\ supply[d] \in Nat /\ returns[d] \in [SlotIds -> Nat]
    BY DEF TypeOK, Amounts
<1> QED
    BY <1>1, TotalType

\* A step of one bridge changes its own total only.
LEMMA OneTotalChanges ==
    ASSUME NEW m, NEW u, NEW r, NEW m2, NEW u2, NEW r2, NEW d \in Bridges,
           \A e \in Bridges : e # d => m2[e] = m[e] /\ u2[e] = u[e] /\ r2[e] = r[e]
    PROVE  Updated(Totals(m, u, r), d, Total(m2[d], u2[d], r2[d]), Totals(m2, u2, r2))
BY DEF Updated, Totals

-----------------------------------------------------------------------------
(* Types                                                                   *)

\* The initial state has the types.
LEMMA InitTypeOK == Init => TypeOK
BY ERC20BridgeAssumption
   DEF Init, TypeOK, NoAmounts, NoRoute, Routes, Amounts, SlotIds, Home, OwnBridges

\* Every step keeps the types.
LEMMA NextTypeOK == TypeOK /\ [Next]_vars => TypeOK'
<1> SUFFICES ASSUME TypeOK, [Next]_vars PROVE TypeOK'
    OBVIOUS
<1> USE ERC20BridgeAssumption
<1>1. ASSUME NEW d \in Bridges, NEW i \in SlotIds, NEW amount \in Amounts,
             NEW received \in Amounts, NEW fee \in Amounts,
             BridgeNativeTokens(d, i, amount, received, fee)
      PROVE  TypeOK'
    <2>1. received - fee \in Nat /\ received - fee \in Amounts
        BY <1>1 DEF BridgeNativeTokens, Amounts
    <2>2. locked' \in Nat
        BY <1>1, <2>1 DEF BridgeNativeTokens, TypeOK, Amounts
    <2>3. bridgedBalances[d] + (received - fee) \in Nat
        BY <2>1 DEF TypeOK
    <2>4. bridgedBalances' \in [Bridges -> Nat]
        BY <1>1, <2>3 DEF BridgeNativeTokens, TypeOK, Credit, BridgedAmount
    <2>5. mints' \in [Bridges -> [SlotIds -> Amounts]]
        BY <1>1, <2>1 DEF BridgeNativeTokens, SendMint, TypeOK, BridgedAmount
    <2> QED
        BY <1>1, <2>2, <2>4, <2>5 DEF BridgeNativeTokens, TypeOK, wrappedVars
<1>2. ASSUME NEW s \in Bridges, NEW i \in SlotIds, ReleaseTokens(s, i)
      PROVE  TypeOK'
    <2>1. returns[s][i] \in Nat /\ bridgedBalances[s] \in Nat
        BY DEF TypeOK, Amounts
    <2>2. locked' \in Nat /\ bridgedBalances[s] - returns[s][i] \in Nat
        BY <1>2, <2>1 DEF ReleaseTokens, Covered, TypeOK
    <2>3. bridgedBalances' \in [Bridges -> Nat]
        BY <1>2, <2>2 DEF ReleaseTokens, TypeOK, Debit
    <2>4. /\ returns' \in [Bridges -> [SlotIds -> Amounts]]
          /\ routes' \in [Bridges -> [SlotIds -> Routes]]
        BY <1>2 DEF ReleaseTokens, FreeReturn, TypeOK, Amounts, NoRoute, Routes
    <2> QED
        BY <1>2, <2>2, <2>3, <2>4 DEF ReleaseTokens, TypeOK, wrappedVars
<1>3. ASSUME NEW s \in Bridges, NEW i \in SlotIds, NEW j \in SlotIds, ForwardTokens(s, i, j)
      PROVE  TypeOK'
    <2> DEFINE amount == returns[s][i]
               to == routes[s][i].to
               fee == routes[s][i].fee
               debited == [bridgedBalances EXCEPT ![s] = @ - amount]
    <2>1. /\ amount \in Nat /\ amount \in Amounts /\ to \in Bridges /\ fee \in Nat
          /\ fee <= amount /\ locked >= fee /\ bridgedBalances[s] >= amount
        BY <1>3 DEF ForwardTokens, TypeOK, Amounts, Routes, Covered
    <2>2. amount - fee \in Nat /\ amount - fee \in Amounts
        BY <2>1 DEF Amounts
    <2>3. debited \in [Bridges -> Nat]
        <3>1. bridgedBalances[s] - amount \in Nat
            BY <2>1 DEF TypeOK
        <3> HIDE DEF amount
        <3> QED
            BY <3>1 DEF TypeOK
    <2>4. bridgedBalances' = [debited EXCEPT ![to] = @ + (amount - fee)]
        BY <1>3 DEF ForwardTokens, Debit, Credit
    <2>5. locked' = locked - fee /\ mints' = [mints EXCEPT ![to][j] = amount - fee]
        BY <1>3 DEF ForwardTokens, SendMint
    <2>6. /\ returns' \in [Bridges -> [SlotIds -> Amounts]]
          /\ routes' \in [Bridges -> [SlotIds -> Routes]]
        BY <1>3 DEF ForwardTokens, FreeReturn, TypeOK, Amounts, NoRoute, Routes
    <2>7. submitted' = submitted /\ created' = created /\ supply' = supply
        BY <1>3 DEF ForwardTokens, wrappedVars
    <2> HIDE DEF amount, to, fee, debited
    <2>8. locked' \in Nat
        BY <2>1, <2>5 DEF TypeOK
    <2>9. bridgedBalances' \in [Bridges -> Nat]
        <3>1. debited[to] + (amount - fee) \in Nat
            BY <2>1, <2>2, <2>3
        <3> QED
            BY <2>3, <2>4, <3>1
    <2>10. mints' \in [Bridges -> [SlotIds -> Amounts]]
        BY <2>1, <2>2, <2>5 DEF TypeOK
    <2> QED
        BY <2>6, <2>7, <2>8, <2>9, <2>10 DEF TypeOK
<1>4. ASSUME NEW d \in Bridges, SubmitCreateBridgeToken(d) \/ CreateBridgeToken(d)
      PROVE  TypeOK'
    BY <1>4 DEF SubmitCreateBridgeToken, CreateBridgeToken, TypeOK, OwnBridges,
               homeVars, wrappedVars, messageVars
<1>5. ASSUME NEW d \in Bridges, NEW i \in SlotIds, MintBridgeTokens(d, i) \/ ForeignExecute(d, i)
      PROVE  TypeOK'
    <2>1. mints' \in [Bridges -> [SlotIds -> Amounts]]
        <3>1. mints' = [mints EXCEPT ![d][i] = 0]
            BY <1>5 DEF MintBridgeTokens, ForeignExecute
        <3>2. 0 \in Amounts /\ mints \in [Bridges -> [SlotIds -> Amounts]]
            BY ERC20BridgeAssumption DEF TypeOK, Amounts
        <3> QED
            BY ONLY <3>1, <3>2
    <2>2. supply[d] + mints[d][i] \in Nat
        BY DEF TypeOK, Amounts
    <2>3. supply' \in [Bridges -> Nat]
        BY <1>5, <2>2 DEF MintBridgeTokens, ForeignExecute, TypeOK, wrappedVars
    <2> QED
        BY <1>5, <2>1, <2>3 DEF MintBridgeTokens, ForeignExecute, TypeOK, homeVars, wrappedVars
<1>6. ASSUME NEW s \in Bridges, NEW i \in SlotIds, NEW to \in {Home} \cup Bridges,
             NEW amount \in Amounts, NEW primary \in Amounts, NEW fee \in Amounts,
             BridgeWrappedTokens(s, i, to, amount, primary, fee)
      PROVE  TypeOK'
    <2>1. /\ amount - primary \in Amounts /\ amount - primary \in Nat
          /\ supply[s] - (amount - primary) \in Nat
        BY <1>6 DEF BridgeWrappedTokens, CoversFees, Amounts, TypeOK
    <2>2. supply' \in [Bridges -> Nat]
        BY <1>6, <2>1 DEF BridgeWrappedTokens, TypeOK
    <2>3. returns' \in [Bridges -> [SlotIds -> Amounts]]
        BY <1>6, <2>1 DEF BridgeWrappedTokens, TransferAmount, TypeOK
    <2>4. routes' \in [Bridges -> [SlotIds -> Routes]]
        BY <1>6 DEF BridgeWrappedTokens, TypeOK, Routes
    <2> QED
        BY <1>6, <2>2, <2>3, <2>4 DEF BridgeWrappedTokens, TypeOK, homeVars
<1>7. ASSUME NEW s \in Bridges, NEW i \in SlotIds, NEW to \in {Home} \cup Bridges,
             NEW amount \in Amounts, NEW fee \in Amounts, ForeignTransfer(s, i, to, amount, fee)
      PROVE  TypeOK'
    <2>1. returns' \in [Bridges -> [SlotIds -> Amounts]]
        BY <1>7 DEF ForeignTransfer, TypeOK
    <2>2. routes' \in [Bridges -> [SlotIds -> Routes]]
        BY <1>7 DEF ForeignTransfer, TypeOK, Routes
    <2> QED
        BY <1>7, <2>1, <2>2 DEF ForeignTransfer, TypeOK, homeVars, wrappedVars
<1>8. ASSUME NEW d \in Bridges, NEW amount \in Amounts, BurnWrappedTokens(d, amount)
      PROVE  TypeOK'
    <2>1. supply[d] - amount \in Nat
        BY <1>8 DEF BurnWrappedTokens, TypeOK, Amounts
    <2>2. supply' \in [Bridges -> Nat]
        BY <1>8, <2>1 DEF BurnWrappedTokens, TypeOK
    <2> QED
        BY <1>8, <2>2 DEF BurnWrappedTokens, TypeOK, homeVars, messageVars
<1>9. CASE UNCHANGED vars
    BY <1>9 DEF vars, TypeOK
<1> QED
    BY <1>1, <1>2, <1>3, <1>4, <1>5, <1>6, <1>7, <1>8, <1>9 DEF Next, Transfer, Execute

\* The state always has its types: no balance and no supply is ever drawn below 0.
THEOREM ERC20BridgeTypeCorrect == Spec => []TypeOK
BY InitTypeOK, NextTypeOK, PTL DEF Spec

-----------------------------------------------------------------------------
(* What the steps do to the totals and the balances                        *)

Outs == Totals(mints, supply, returns)

DepositStep(d, x) ==
    /\ Outs' = [Outs EXCEPT ![d] = @ + x]
    /\ bridgedBalances' = [bridgedBalances EXCEPT ![d] = @ + x]
    /\ locked' = locked + x

ReleaseStep(s, x) ==
    /\ x <= Outs[s] /\ x <= bridgedBalances[s] /\ x <= locked
    /\ Outs' = [Outs EXCEPT ![s] = @ - x]
    /\ bridgedBalances' = [bridgedBalances EXCEPT ![s] = @ - x]
    /\ locked' = locked - x

Moved(f, s, d, x, fee, g) ==
    LET h == [f EXCEPT ![s] = @ - x] IN g = [h EXCEPT ![d] = @ + (x - fee)]

ForwardStep(s, d, x, fee) ==
    /\ fee <= x /\ x <= Outs[s] /\ x <= bridgedBalances[s] /\ fee <= locked
    /\ Moved(Outs, s, d, x, fee, Outs')
    /\ Moved(bridgedBalances, s, d, x, fee, bridgedBalances')
    /\ locked' = locked - fee

BurnStep(d, x) ==
    /\ x <= Outs[d]
    /\ Outs' = [Outs EXCEPT ![d] = @ - x]
    /\ bridgedBalances' = bridgedBalances /\ locked' = locked

ForeignStep(d) ==
    /\ d \in Foreign
    /\ \E y \in Nat : Updated(Outs, d, y, Outs')
    /\ bridgedBalances' = bridgedBalances /\ locked' = locked

QuietStep ==
    /\ Outs' = Outs
    /\ bridgedBalances' = bridgedBalances /\ locked' = locked

\* What is on a chain is made of natural numbers.
LEMMA SlotTypes ==
    ASSUME TypeOK, NEW d \in Bridges
    PROVE  /\ mints[d] \in [SlotIds -> Nat] /\ supply[d] \in Nat
           /\ returns[d] \in [SlotIds -> Nat]
           /\ Outs[d] = Total(mints[d], supply[d], returns[d])
           /\ Outs[d] \in Nat
<1>1. mints[d] \in [SlotIds -> Nat] /\ supply[d] \in Nat /\ returns[d] \in [SlotIds -> Nat]
    BY DEF TypeOK, Amounts
<1>2. Total(mints[d], supply[d], returns[d]) \in Nat
    BY <1>1, TotalType
<1> QED
    BY <1>1, <1>2 DEF Outs, Totals

\* A deposit.
LEMMA DepositEffect ==
    ASSUME TypeOK, NEW d \in Bridges, NEW i \in SlotIds, NEW amount \in Amounts,
           NEW received \in Amounts, NEW fee \in Amounts,
           BridgeNativeTokens(d, i, amount, received, fee)
    PROVE  \E x \in Amounts : DepositStep(d, x)
<1> DEFINE x == received - fee
<1>1. x \in Nat /\ x \in Amounts /\ locked' = locked + received - fee
    BY ERC20BridgeAssumption DEF BridgeNativeTokens, Amounts
<1>2. locked' = locked + x
    BY <1>1 DEF TypeOK, Amounts
<1>3. /\ mints[d][i] = 0 /\ mints' = [mints EXCEPT ![d][i] = x]
      /\ supply' = supply /\ returns' = returns
      /\ bridgedBalances' = [bridgedBalances EXCEPT ![d] = @ + x]
    BY DEF BridgeNativeTokens, SendMint, BridgedAmount, Credit, wrappedVars
<1> HIDE DEF x
<1>4. Updated(mints[d], i, x, mints'[d]) /\ \A e \in Bridges : e # d => mints'[e] = mints[e]
    BY <1>3 DEF Updated, TypeOK
<1>5. Total(mints'[d], supply'[d], returns'[d]) = Outs[d] + x
    BY <1>1, <1>3, <1>4, SlotTypes, TotalOfMessage
<1>6. Updated(Outs, d, Outs[d] + x, Outs')
    <2>1. \A e \in Bridges : e # d =>
              mints'[e] = mints[e] /\ supply'[e] = supply[e] /\ returns'[e] = returns[e]
        BY <1>3, <1>4
    <2>2. Updated(Outs, d, Total(mints'[d], supply'[d], returns'[d]), Outs')
        BY <2>1, OneTotalChanges, Zenon DEF Outs
    <2> QED
        BY <1>5, <2>2
<1> QED
    BY <1>1, <1>2, <1>3, <1>6 DEF DepositStep, Updated

\* A slot for a return that is freed.
LEMMA FreedEffect ==
    ASSUME TypeOK, NEW s \in Bridges, NEW i \in SlotIds, FreeReturn(s, i)
    PROVE  /\ Totals(mints, supply, returns') = [Outs EXCEPT ![s] = @ - returns[s][i]]
           /\ returns[s][i] <= Outs[s]
           /\ returns[s][i] \in Nat /\ returns[s][i] \in Amounts
           /\ \A e \in Bridges : returns'[e] \in [SlotIds -> Nat]
<1>1. /\ Updated(returns[s], i, 0, returns'[s])
      /\ \A e \in Bridges : e # s => returns'[e] = returns[e]
      /\ returns[s][i] \in Nat /\ returns[s][i] \in Amounts
      /\ \A e \in Bridges : returns'[e] \in [SlotIds -> Nat]
    BY DEF FreeReturn, Updated, TypeOK, Amounts
<1>2. /\ Total(mints[s], supply[s], returns'[s]) = Outs[s] - returns[s][i]
      /\ returns[s][i] <= Outs[s]
    BY <1>1, SlotTypes, TotalOfRelease
<1>3. Updated(Outs, s, Outs[s] - returns[s][i], Totals(mints, supply, returns'))
    BY <1>1, <1>2, OneTotalChanges DEF Outs
<1> QED
    BY <1>1, <1>2, <1>3 DEF Updated

\* A release.
LEMMA ReleaseEffect ==
    ASSUME TypeOK, NEW s \in Bridges, NEW i \in SlotIds, ReleaseTokens(s, i)
    PROVE  \E x \in Amounts : ReleaseStep(s, x)
<1>1. /\ FreeReturn(s, i) /\ mints' = mints /\ supply' = supply
      /\ returns[s][i] <= bridgedBalances[s] /\ returns[s][i] <= locked
      /\ bridgedBalances' = [bridgedBalances EXCEPT ![s] = @ - returns[s][i]]
      /\ locked' = locked - returns[s][i]
    BY DEF ReleaseTokens, wrappedVars, Covered, Debit, TypeOK, Amounts
<1>2. /\ Outs' = [Outs EXCEPT ![s] = @ - returns[s][i]]
      /\ returns[s][i] <= Outs[s] /\ returns[s][i] \in Amounts
    BY <1>1, FreedEffect DEF Outs
<1> QED
    BY <1>1, <1>2 DEF ReleaseStep

\* A transfer that is sent on.
LEMMA ForwardEffect ==
    ASSUME TypeOK, NEW s \in Bridges, NEW i \in SlotIds, NEW j \in SlotIds,
           ForwardTokens(s, i, j)
    PROVE  \E d \in Bridges, x, fee \in Amounts : ForwardStep(s, d, x, fee)
<1> DEFINE x == returns[s][i]
           d == routes[s][i].to
           fee == routes[s][i].fee
           freed == Totals(mints, supply, returns')
<1>1. /\ FreeReturn(s, i) /\ supply' = supply
      /\ x \in Nat /\ x \in Amounts /\ d \in Bridges /\ fee \in Nat /\ fee \in Amounts
      /\ fee <= x /\ x <= bridgedBalances[s] /\ fee <= locked
      /\ Moved(bridgedBalances, s, d, x, fee, bridgedBalances')
      /\ mints[d][j] = 0 /\ mints' = [mints EXCEPT ![d][j] = x - fee]
      /\ locked' = locked - fee
    BY DEF ForwardTokens, wrappedVars, Covered, Debit, Credit, TypeOK, Amounts, Routes, SendMint,
           Moved
<1>2. freed = [Outs EXCEPT ![s] = @ - x] /\ x <= Outs[s]
    BY <1>1, FreedEffect
<1>3. \A e \in Bridges : returns'[e] \in [SlotIds -> Nat]
    BY <1>1, FreedEffect
<1> HIDE DEF x, d, fee
<1>4. x - fee \in Nat
    BY <1>1
<1>5. /\ Updated(mints[d], j, x - fee, mints'[d])
      /\ \A e \in Bridges : e # d => mints'[e] = mints[e]
    BY <1>1 DEF Updated, TypeOK
<1>6. freed[d] = Total(mints[d], supply[d], returns'[d])
    BY <1>1 DEF Totals
<1>7. Total(mints'[d], supply'[d], returns'[d]) = freed[d] + (x - fee)
    <2>1. Total(mints'[d], supply[d], returns'[d])
              = Total(mints[d], supply[d], returns'[d]) + (x - fee)
        <3>1. /\ mints[d] \in [SlotIds -> Nat] /\ supply[d] \in Nat
              /\ returns'[d] \in [SlotIds -> Nat]
            BY <1>1, <1>3, SlotTypes
        <3> DEFINE net == x - fee
        <3>2. /\ net \in Nat /\ mints[d][j] = 0
              /\ Updated(mints[d], j, net, mints'[d])
            BY <1>1, <1>4, <1>5
        <3> HIDE DEF net
        <3>3. Total(mints'[d], supply[d], returns'[d])
                  = Total(mints[d], supply[d], returns'[d]) + net
            BY ONLY <3>1, <3>2, j \in SlotIds, TotalOfMessage
        <3> QED
            BY <3>3 DEF net
    <2> QED
        BY <1>1, <1>6, <2>1
<1>8. Updated(freed, d, freed[d] + (x - fee), Outs')
    <2>1. \A e \in Bridges : e # d =>
              mints'[e] = mints[e] /\ supply'[e] = supply[e] /\ returns'[e] = returns'[e]
        BY <1>1, <1>5
    <2>2. Updated(freed, d, Total(mints'[d], supply'[d], returns'[d]), Outs')
        BY <1>1, <2>1, OneTotalChanges, Zenon DEF Outs
    <2> QED
        BY <1>7, <2>2
<1> HIDE DEF freed
<1>9. Moved(Outs, s, d, x, fee, Outs')
    BY <1>2, <1>8 DEF Moved, Updated
<1> QED
    BY <1>1, <1>2, <1>9 DEF ForwardStep

\* Minting, and sending wrapped tokens back, leave the totals alone.
LEMMA QuietEffects ==
    ASSUME TypeOK, NEW d \in Bridges, NEW i \in SlotIds
    PROVE  /\ MintBridgeTokens(d, i) => QuietStep
           /\ \A to \in {Home} \cup Bridges, amount, primary, fee \in Amounts :
                  BridgeWrappedTokens(d, i, to, amount, primary, fee) => QuietStep
<1>1. ASSUME NEW y, Updated(Outs, d, Outs[d], y) PROVE y = Outs
    BY <1>1 DEF Updated, Outs, Totals
<1>2. ASSUME MintBridgeTokens(d, i) PROVE QuietStep
    <2>1. /\ returns' = returns /\ bridgedBalances' = bridgedBalances /\ locked' = locked
          /\ supply'[d] = supply[d] + mints[d][i] /\ Updated(mints[d], i, 0, mints'[d])
          /\ \A e \in Bridges : e # d =>
                 mints'[e] = mints[e] /\ supply'[e] = supply[e] /\ returns'[e] = returns[e]
        BY <1>2 DEF MintBridgeTokens, homeVars, TypeOK, Updated
    <2>2. Total(mints'[d], supply'[d], returns'[d]) = Outs[d]
        BY <2>1, SlotTypes, TotalOfMint
    <2>3. Updated(Outs, d, Total(mints'[d], supply'[d], returns'[d]), Outs')
        BY <2>1, OneTotalChanges, Zenon DEF Outs
    <2> QED
        BY <1>1, <2>1, <2>2, <2>3 DEF QuietStep
<1>3. ASSUME NEW to \in {Home} \cup Bridges, NEW amount \in Amounts, NEW primary \in Amounts,
             NEW fee \in Amounts, BridgeWrappedTokens(d, i, to, amount, primary, fee)
      PROVE  QuietStep
    <2> DEFINE x == amount - primary
    <2>1. x \in Nat /\ x <= supply[d]
        BY <1>3, ERC20BridgeAssumption DEF BridgeWrappedTokens, CoversFees, Amounts, TypeOK
    <2>2. /\ mints' = mints /\ bridgedBalances' = bridgedBalances /\ locked' = locked
          /\ returns[d][i] = 0
          /\ supply'[d] = supply[d] - x /\ Updated(returns[d], i, x, returns'[d])
          /\ \A e \in Bridges : e # d =>
                 mints'[e] = mints[e] /\ supply'[e] = supply[e] /\ returns'[e] = returns[e]
        BY <1>3 DEF BridgeWrappedTokens, homeVars, TypeOK, Updated, TransferAmount
    <2> HIDE DEF x
    <2>3. Total(mints[d], supply[d] - x, returns'[d]) = Total(mints[d], supply[d], returns[d])
        BY <2>1, <2>2, SlotTypes, TotalOfReturn
    <2>4. Total(mints'[d], supply'[d], returns'[d]) = Outs[d]
        BY <2>2, <2>3, SlotTypes
    <2>5. Updated(Outs, d, Total(mints'[d], supply'[d], returns'[d]), Outs')
        BY <2>2, OneTotalChanges, Zenon DEF Outs
    <2> QED
        BY <1>1, <2>2, <2>4, <2>5 DEF QuietStep
<1> QED
    BY <1>2, <1>3

\* Wrapped tokens that their holder burns.
LEMMA BurnEffect ==
    ASSUME TypeOK, NEW d \in Bridges, NEW x \in Amounts, BurnWrappedTokens(d, x)
    PROVE  BurnStep(d, x)
<1>1. /\ x \in Nat /\ x <= supply[d] /\ supply'[d] = supply[d] - x
      /\ mints' = mints /\ returns' = returns
      /\ bridgedBalances' = bridgedBalances /\ locked' = locked
      /\ \A e \in Bridges : e # d =>
             mints'[e] = mints[e] /\ supply'[e] = supply[e] /\ returns'[e] = returns[e]
    BY DEF BurnWrappedTokens, homeVars, messageVars, TypeOK, Amounts
<1>2. /\ Total(mints[d], supply[d] - x, returns[d]) = Outs[d] - x
      /\ x <= Outs[d]
    <2>1. /\ Total(mints[d], supply[d] - x, returns[d])
                 = Total(mints[d], supply[d], returns[d]) - x
          /\ x <= Total(mints[d], supply[d], returns[d])
        <3>1. /\ mints[d] \in [SlotIds -> Nat] /\ supply[d] \in Nat
              /\ returns[d] \in [SlotIds -> Nat]
            BY SlotTypes
        <3> QED
            BY <1>1, <3>1, TotalOfBurn, Zenon
    <2> QED
        BY <2>1, SlotTypes
<1>3. Updated(Outs, d, Total(mints'[d], supply'[d], returns'[d]), Outs')
    BY <1>1, OneTotalChanges, Zenon DEF Outs
<1> QED
    BY <1>1, <1>2, <1>3 DEF BurnStep, Updated

\* What a foreign bridge does shows in its own total only.
LEMMA ForeignEffect ==
    ASSUME TypeOK, TypeOK', NEW d \in Bridges, NEW i \in SlotIds,
           \/ ForeignExecute(d, i)
           \/ \E to \in {Home} \cup Bridges, amount, fee \in Amounts :
                  ForeignTransfer(d, i, to, amount, fee)
    PROVE  ForeignStep(d)
<1>1. /\ d \in Foreign /\ bridgedBalances' = bridgedBalances /\ locked' = locked
      /\ \A e \in Bridges : e # d =>
             mints'[e] = mints[e] /\ supply'[e] = supply[e] /\ returns'[e] = returns[e]
    BY DEF ForeignExecute, ForeignTransfer, homeVars, wrappedVars, TypeOK
<1>2. Updated(Outs, d, Total(mints'[d], supply'[d], returns'[d]), Outs')
    BY <1>1, OneTotalChanges, Zenon DEF Outs
<1>3. mints'[d] \in [SlotIds -> Nat] /\ supply'[d] \in Nat /\ returns'[d] \in [SlotIds -> Nat]
    BY DEF TypeOK, Amounts
<1>4. Total(mints'[d], supply'[d], returns'[d]) \in Nat
    BY <1>3, TotalType
<1> QED
    BY <1>1, <1>2, <1>4 DEF ForeignStep

\* Every step is one of these.
LEMMA StepEffect ==
    ASSUME TypeOK, [Next]_vars
    PROVE  \/ \E d \in Bridges, x \in Amounts : DepositStep(d, x) \/ ReleaseStep(d, x) \/ BurnStep(d, x)
           \/ \E s, d \in Bridges, x, fee \in Amounts : ForwardStep(s, d, x, fee)
           \/ \E d \in Bridges : ForeignStep(d)
           \/ QuietStep
<1>0. TypeOK'
    BY NextTypeOK
<1>1. CASE UNCHANGED vars
    BY <1>1 DEF vars, QuietStep, Outs
<1>2. ASSUME NEW d \in Bridges, SubmitCreateBridgeToken(d) \/ CreateBridgeToken(d)
      PROVE  QuietStep
    BY <1>2 DEF SubmitCreateBridgeToken, CreateBridgeToken, QuietStep, Outs, homeVars, wrappedVars,
               messageVars
<1>3. CASE Transfer
    <2>1. PICK d \in Bridges, i \in SlotIds, amount \in Amounts, fee \in Amounts :
              \/ \E received \in Amounts : BridgeNativeTokens(d, i, amount, received, fee)
              \/ \E to \in {Home} \cup Bridges, primary \in Amounts :
                     BridgeWrappedTokens(d, i, to, amount, primary, fee)
              \/ \E to \in {Home} \cup Bridges : ForeignTransfer(d, i, to, amount, fee)
        BY <1>3 DEF Transfer
    <2> QED
        BY <1>0, <2>1, DepositEffect, QuietEffects, ForeignEffect
<1>4. CASE Execute
    <2>1. PICK d \in Bridges, i \in SlotIds :
              \/ MintBridgeTokens(d, i)
              \/ ReleaseTokens(d, i)
              \/ \E j \in SlotIds : ForwardTokens(d, i, j)
              \/ ForeignExecute(d, i)
        BY <1>4 DEF Execute
    <2> QED
        BY <1>0, <2>1, QuietEffects, ReleaseEffect, ForwardEffect, ForeignEffect
<1> QED
    BY <1>1, <1>2, <1>3, <1>4, BurnEffect DEF Next

-----------------------------------------------------------------------------
(* The balances of the home bridge                                         *)

\* A sum of balances of which one is changed.
LEMMA BalanceSum ==
    ASSUME NEW f \in [Bridges -> Nat], NEW d \in Bridges, NEW x \in Nat, NEW g,
           Updated(f, d, x, g)
    PROVE  /\ g \in [Bridges -> Nat]
           /\ SlotSum(g, N) = SlotSum(f, N) - f[d] + x
           /\ SlotSum(f, N) \in Nat /\ f[d] <= SlotSum(f, N) /\ f[d] \in Nat
<1>1. g \in [Bridges -> Nat] /\ g[d] = x /\ \A e \in Bridges : e # d => g[e] = f[e]
    BY DEF Updated
<1>2. SlotSum(g, N) = SlotSum(f, N) - f[d] + g[d]
    BY <1>1, SlotSumUpdate, ERC20BridgeAssumption DEF Bridges
<1>3. SlotSum(f, N) \in Nat /\ f[d] <= SlotSum(f, N)
    BY SlotSumType, SlotSumBound, ERC20BridgeAssumption DEF Bridges
<1> QED
    BY <1>1, <1>2, <1>3

\* Every step leaves enough tokens for all balances.
LEMMA CollateralKept ==
    ASSUME TypeOK, Collateralized, [Next]_vars PROVE Collateralized'
<1> DEFINE b == bridgedBalances
           c == bridgedBalances'
           before == SlotSum(b, N)
           after == SlotSum(c, N)
<1>1. b \in [Bridges -> Nat] /\ locked \in Nat /\ before <= locked
    BY DEF TypeOK, Collateralized
<1>2. SUFFICES after <= locked'
    BY DEF Collateralized
<1>3. ASSUME NEW d \in Bridges, NEW x \in Amounts, DepositStep(d, x) PROVE after <= locked'
    <2>1. x \in Nat /\ b[d] + x \in Nat /\ Updated(b, d, b[d] + x, c)
        BY <1>1, <1>3 DEF DepositStep, Updated, Amounts
    <2>2. after = before - b[d] + (b[d] + x) /\ before \in Nat /\ b[d] \in Nat
        BY <1>1, <2>1, BalanceSum
    <2>3. locked' = locked + x
        BY <1>3 DEF DepositStep
    <2> HIDE DEF after, before, b, c
    <2> QED
        BY <1>1, <2>1, <2>2, <2>3
<1>4. ASSUME NEW d \in Bridges, NEW x \in Amounts, ReleaseStep(d, x) PROVE after <= locked'
    <2>1. /\ x \in Nat /\ b[d] - x \in Nat /\ Updated(b, d, b[d] - x, c)
          /\ x <= locked /\ locked' = locked - x
        BY <1>1, <1>4 DEF ReleaseStep, Updated, Amounts
    <2>2. after = before - b[d] + (b[d] - x) /\ before \in Nat /\ b[d] \in Nat
        BY <1>1, <2>1, BalanceSum
    <2> HIDE DEF after, before, b, c
    <2> QED
        BY <1>1, <2>1, <2>2
<1>5. ASSUME NEW s \in Bridges, NEW d \in Bridges, NEW x \in Amounts, NEW fee \in Amounts,
             ForwardStep(s, d, x, fee)
      PROVE  after <= locked'
    <2> DEFINE h == [b EXCEPT ![s] = @ - x]
               between == SlotSum(h, N)
    <2>1. /\ x \in Nat /\ fee \in Nat /\ fee <= x /\ x <= b[s]
          /\ fee <= locked /\ locked' = locked - fee
          /\ c = [h EXCEPT ![d] = @ + (x - fee)] /\ b[s] \in Nat
        BY <1>1, <1>5 DEF ForwardStep, Moved, Amounts
    <2>2. b[s] - x \in Nat /\ x - fee \in Nat
        BY <2>1
    <2>3. Updated(b, s, b[s] - x, h) /\ Updated(h, d, h[d] + (x - fee), c)
        BY <2>1 DEF Updated
    <2> HIDE DEF h, b, c
    <2>4. /\ h \in [Bridges -> Nat] /\ between = before - b[s] + (b[s] - x)
          /\ before \in Nat
        BY <1>1, <2>2, <2>3, BalanceSum
    <2>5. h[d] \in Nat /\ h[d] + (x - fee) \in Nat
        BY <2>2, <2>4
    <2>6. after = between - h[d] + (h[d] + (x - fee)) /\ between \in Nat
        BY <2>3, <2>4, <2>5, BalanceSum
    <2> HIDE DEF after, before, between
    <2>7. between = before - x
        BY <2>1, <2>4
    <2>8. after = between + (x - fee)
        BY <2>2, <2>5, <2>6
    <2> QED
        BY <1>1, <2>1, <2>4, <2>7, <2>8
<1>6. CASE bridgedBalances' = bridgedBalances /\ locked' = locked
    BY <1>1, <1>6
<1> QED
    BY <1>3, <1>4, <1>5, <1>6, StepEffect DEF BurnStep, ForeignStep, QuietStep

\* The balance of an ERC20Bridge covers its total.
CoveredAt(d) == Outs[d] <= bridgedBalances[d]

\* The invariant in terms of totals.
LEMMA CoveredMeaning == BridgesCovered <=> \A d \in OwnBridges : CoveredAt(d)
BY DEF BridgesCovered, CoveredAt, Outs, Totals, Total, Outstanding, OwnBridges

\* Every step leaves each ERC20Bridge covered.
LEMMA CoverKept ==
    ASSUME TypeOK, [Next]_vars, NEW d \in OwnBridges, CoveredAt(d)
    PROVE  CoveredAt(d)'
<1> DEFINE o == Outs
           b == bridgedBalances
           p == Outs'
           c == bridgedBalances'
<1>1. o \in [Bridges -> Nat] /\ b \in [Bridges -> Nat] /\ d \in Bridges /\ d \notin Foreign
    BY TotalsType DEF TypeOK, Outs, OwnBridges
<1>2. o[d] <= b[d] /\ (CoveredAt(d)' <=> p[d] <= c[d])
    BY DEF CoveredAt
<1>3. ASSUME NEW e \in Bridges, NEW x \in Amounts, DepositStep(e, x) PROVE p[d] <= c[d]
    <2>1. p = [o EXCEPT ![e] = @ + x] /\ c = [b EXCEPT ![e] = @ + x] /\ x \in Nat
        BY <1>3 DEF DepositStep, Amounts
    <2> HIDE DEF o, b, p, c
    <2> QED
        BY <1>1, <1>2, <2>1
<1>4. ASSUME NEW e \in Bridges, NEW x \in Amounts, ReleaseStep(e, x) PROVE p[d] <= c[d]
    <2>1. /\ p = [o EXCEPT ![e] = @ - x] /\ c = [b EXCEPT ![e] = @ - x] /\ x \in Nat
          /\ x <= o[e] /\ x <= b[e]
        BY <1>4 DEF ReleaseStep, Amounts
    <2> HIDE DEF o, b, p, c
    <2> QED
        BY <1>1, <1>2, <2>1
<1>5. ASSUME NEW s \in Bridges, NEW e \in Bridges, NEW x \in Amounts, NEW fee \in Amounts,
             ForwardStep(s, e, x, fee)
      PROVE  p[d] <= c[d]
    <2>1. /\ Moved(o, s, e, x, fee, p) /\ Moved(b, s, e, x, fee, c)
          /\ x \in Nat /\ fee \in Nat /\ fee <= x /\ x <= o[s] /\ x <= b[s]
        BY <1>5 DEF ForwardStep, Amounts
    <2> HIDE DEF o, b, p, c
    <2> DEFINE h == [o EXCEPT ![s] = @ - x]
               k == [b EXCEPT ![s] = @ - x]
    <2>2. p = [h EXCEPT ![e] = @ + (x - fee)] /\ c = [k EXCEPT ![e] = @ + (x - fee)]
        BY <2>1 DEF Moved
    <2>3. h \in [Bridges -> Nat] /\ k \in [Bridges -> Nat] /\ h[d] <= k[d]
        <3>1. o[s] - x \in Nat /\ b[s] - x \in Nat
            BY <1>1, <2>1
        <3> QED
            BY <1>1, <1>2, <2>1, <3>1
    <2>4. x - fee \in Nat
        BY <2>1
    <2> HIDE DEF h, k
    <2> QED
        BY <1>1, <2>2, <2>3, <2>4
<1>6. ASSUME NEW e \in Bridges, NEW x \in Amounts, BurnStep(e, x) PROVE p[d] <= c[d]
    <2>1. p = [o EXCEPT ![e] = @ - x] /\ c = b /\ x \in Nat /\ x <= o[e]
        BY <1>6 DEF BurnStep, Amounts
    <2> HIDE DEF o, b, p, c
    <2> QED
        BY <1>1, <1>2, <2>1
<1>7. ASSUME NEW e \in Bridges, ForeignStep(e) PROVE p[d] <= c[d]
    <2>1. PICK y \in Nat : p = [o EXCEPT ![e] = y] /\ c = b /\ e \in Foreign
        BY <1>7 DEF ForeignStep, Updated
    <2> HIDE DEF o, b, p, c
    <2> QED
        BY <1>1, <1>2, <2>1
<1>8. CASE QuietStep
    BY <1>2, <1>8 DEF QuietStep
<1> QED
    BY <1>2, <1>3, <1>4, <1>5, <1>6, <1>7, <1>8, StepEffect

\* Transfers sent back by an ERC20Bridge keep paying their second fee.
LEMMA FeesPaidKept ==
    ASSUME TypeOK, FeesPaid, [Next]_vars PROVE FeesPaid'
<1> SUFFICES ASSUME NEW s \in OwnBridges, NEW i \in SlotIds, returns'[s][i] # 0
             PROVE  routes'[s][i].to = Home \/ routes'[s][i].fee < returns'[s][i]
    BY DEF FeesPaid
<1>1. CASE returns'[s][i] = returns[s][i] /\ routes'[s][i] = routes[s][i]
    BY <1>1 DEF FeesPaid
<1>2. ASSUME NEW d \in Bridges, NEW j \in SlotIds, NEW to \in {Home} \cup Bridges,
             NEW amount \in Amounts, NEW primary \in Amounts, NEW fee \in Amounts,
             BridgeWrappedTokens(d, j, to, amount, primary, fee)
      PROVE  \/ routes'[s][i].fee < returns'[s][i]
             \/ returns'[s][i] = returns[s][i] /\ routes'[s][i] = routes[s][i]
    <2>1. CASE d = s /\ j = i
        <3>1. returns'[s][i] = amount - primary /\ routes'[s][i].fee = fee
            BY <1>2, <2>1 DEF BridgeWrappedTokens, TransferAmount, TypeOK, OwnBridges
        <3>2. fee < amount - primary
            BY <1>2, ERC20BridgeAssumption DEF BridgeWrappedTokens, CoversFees, Amounts
        <3> QED
            BY <3>1, <3>2
    <2>2. CASE ~(d = s /\ j = i)
        BY <1>2, <2>2 DEF BridgeWrappedTokens, TypeOK, OwnBridges
    <2> QED
        BY <2>1, <2>2
<1>3. ASSUME NEW d \in Bridges, NEW j \in SlotIds, FreeReturn(d, j)
      PROVE  returns'[s][i] = returns[s][i] /\ routes'[s][i] = routes[s][i]
    BY <1>3 DEF FreeReturn, TypeOK, OwnBridges
<1>4. ASSUME NEW d \in Bridges, NEW j \in SlotIds, NEW to \in {Home} \cup Bridges,
             NEW amount \in Amounts, NEW fee \in Amounts, ForeignTransfer(d, j, to, amount, fee)
      PROVE  returns'[s][i] = returns[s][i] /\ routes'[s][i] = routes[s][i]
    BY <1>4 DEF ForeignTransfer, TypeOK, OwnBridges
<1>5. CASE returns' = returns /\ routes' = routes
    BY <1>1, <1>5
<1>6. \/ returns' = returns /\ routes' = routes
      \/ \E d \in Bridges, j \in SlotIds : FreeReturn(d, j)
      \/ \E d \in Bridges, j \in SlotIds, to \in {Home} \cup Bridges, amount, fee \in Amounts :
             \/ \E primary \in Amounts : BridgeWrappedTokens(d, j, to, amount, primary, fee)
             \/ ForeignTransfer(d, j, to, amount, fee)
    <2>1. CASE Transfer
        BY <2>1 DEF Transfer, BridgeNativeTokens
    <2>2. CASE Execute
        BY <2>2 DEF Execute, MintBridgeTokens, ReleaseTokens, ForwardTokens, ForeignExecute
    <2>3. CASE ~Transfer /\ ~Execute
        BY <2>3 DEF Next, SubmitCreateBridgeToken, CreateBridgeToken, BurnWrappedTokens,
                   messageVars, vars
    <2> QED
        BY <2>1, <2>2, <2>3
<1> QED
    BY <1>1, <1>2, <1>3, <1>4, <1>5, <1>6

-----------------------------------------------------------------------------
(* The invariants                                                          *)

\* The inductive invariant holds at the start.
LEMMA InitIInv == Init => IInv
<1> SUFFICES ASSUME Init PROVE IInv
    OBVIOUS
<1>1. TypeOK
    BY InitTypeOK
<1>2. SlotSum([i \in 1..Slots |-> 0], Slots) = 0 /\ SlotSum([d \in 1..N |-> 0], N) = 0
    BY SlotSumZero, ERC20BridgeAssumption
<1>3. Collateralized
    BY <1>2 DEF Init, Collateralized, Bridges
<1>4. BridgesCovered
    <2>1. \A d \in Bridges : /\ SlotSum(mints[d], Slots) = 0 /\ SlotSum(returns[d], Slots) = 0
                             /\ supply[d] = 0 /\ bridgedBalances[d] = 0
        BY <1>2 DEF Init, NoAmounts, SlotIds
    <2> QED
        BY <2>1 DEF BridgesCovered, Outstanding, OwnBridges
<1>5. FeesPaid
    BY DEF Init, FeesPaid, NoAmounts, OwnBridges
<1> QED
    BY <1>1, <1>3, <1>4, <1>5 DEF IInv

\* Every step keeps it.
LEMMA NextIInv == IInv /\ [Next]_vars => IInv'
<1> SUFFICES ASSUME IInv, [Next]_vars PROVE IInv'
    OBVIOUS
<1>1. TypeOK' /\ Collateralized' /\ FeesPaid'
    BY NextTypeOK, CollateralKept, FeesPaidKept DEF IInv
<1>2. BridgesCovered'
    <2>1. \A d \in OwnBridges : CoveredAt(d)
        BY CoveredMeaning DEF IInv
    <2>2. \A d \in OwnBridges : CoveredAt(d)'
        BY <2>1, CoverKept DEF IInv
    <2> QED
        BY <2>2 DEF BridgesCovered, CoveredAt, Outs, Totals, Total, Outstanding, OwnBridges
<1> QED
    BY <1>1, <1>2 DEF IInv

\* The inductive invariant leaves every return payable.
LEMMA PayableFromIInv == IInv => ReturnsPayable
<1> SUFFICES ASSUME IInv, NEW s \in OwnBridges, NEW i \in SlotIds, returns[s][i] # 0
             PROVE  /\ Covered(s, returns[s][i])
                    /\ locked >= returns[s][i]
                    /\ routes[s][i].to = Home \/ routes[s][i].fee < returns[s][i]
    BY DEF ReturnsPayable
<1> DEFINE x == returns[s][i]
           b == bridgedBalances[s]
           sum == SlotSum(bridgedBalances, N)
<1>1. s \in Bridges /\ TypeOK /\ bridgedBalances \in [Bridges -> Nat] /\ locked \in Nat
    BY DEF IInv, TypeOK, OwnBridges
<1>2. Outs[s] \in Nat /\ Outs[s] <= b
    BY <1>1, SlotTypes, CoveredMeaning DEF IInv, CoveredAt
<1>3. x \in Nat /\ x <= Outs[s]
    <2>1. Updated(returns[s], i, 0, [returns[s] EXCEPT ![i] = 0])
        BY DEF Updated
    <2>2. x <= Total(mints[s], supply[s], returns[s])
        BY <1>1, <2>1, SlotTypes, TotalOfRelease
    <2> QED
        BY <1>1, <2>2, SlotTypes
<1>4. sum \in Nat /\ b <= sum /\ sum <= locked /\ b \in Nat
    <2>1. sum \in Nat /\ b <= sum
        BY <1>1, SlotSumType, SlotSumBound, ERC20BridgeAssumption DEF Bridges
    <2> QED
        BY <1>1, <2>1 DEF IInv, Collateralized
<1>5. routes[s][i].to = Home \/ routes[s][i].fee < returns[s][i]
    BY DEF IInv, FeesPaid
<1> HIDE DEF x, b, sum
<1>6. x <= b /\ x <= locked
    BY <1>1, <1>2, <1>3, <1>4
<1> QED
    BY <1>1, <1>3, <1>4, <1>5, <1>6 DEF Covered, x, b

\* What an ERC20Bridge of another chain answers for never exceeds what the home
\* bridge keeps for it.
THEOREM ERC20BridgesCovered == Spec => []BridgesCovered
<1>1. IInv => BridgesCovered
    BY DEF IInv
<1> QED
    BY <1>1, InitIInv, NextIInv, PTL DEF Spec

\* The home bridge holds the tokens for all the balances it keeps.
THEOREM ERC20Collateralized == Spec => []Collateralized
<1>1. IInv => Collateralized
    BY DEF IInv
<1> QED
    BY <1>1, InitIInv, NextIInv, PTL DEF Spec

\* A transfer that an ERC20Bridge sends back is never refused, whatever the foreign
\* bridges do.
THEOREM ERC20ReturnsPayable == Spec => []ReturnsPayable
BY InitIInv, NextIInv, PayableFromIInv, PTL DEF Spec

-----------------------------------------------------------------------------
(* The ledger                                                              *)

Claims == [d \in Bridges |-> IF d \in Foreign THEN bridgedBalances[d] ELSE Outs[d]]

\* The claims of the refinement mapping.
LEMMA MappedClaims ==
    [d \in Bridges |-> IF d \in Foreign THEN bridgedBalances[d] ELSE Outstanding(d)] = Claims
BY DEF Claims, Outs, Totals, Total, Outstanding

\* Initial states map to initial states.
LEMMA InitRefines == Init => Ledger!LedgerInit
<1> SUFFICES ASSUME Init PROVE Ledger!LedgerInit
    OBVIOUS
<1>1. SlotSum([i \in 1..Slots |-> 0], Slots) = 0
    BY SlotSumZero, ERC20BridgeAssumption
<1>2. \A d \in Bridges : Outstanding(d) = 0
    BY <1>1 DEF Init, Outstanding, NoAmounts, SlotIds
<1> QED
    BY <1>2 DEF Init, Ledger!LedgerInit, Bridges

\* Every step maps to a step of the ledger or to none.
LEMMA StepRefines ==
    ASSUME TypeOK, [Next]_vars
    PROVE  [Ledger!LedgerNext]_(Ledger!ledgerVars)
<1> DEFINE q == Claims
           t == Claims'
<1>1. /\ Outs \in [Bridges -> Nat] /\ bridgedBalances \in [Bridges -> Nat]
      /\ locked \in Nat /\ Bridges = 1..N
    BY TotalsType DEF TypeOK, Outs, Bridges
<1>2. [d \in Bridges |-> IF d \in Foreign THEN bridgedBalances[d] ELSE Outstanding(d)]' = t
    BY DEF Claims, Outs, Totals, Total, Outstanding
<1>3. ASSUME NEW d \in Bridges, NEW x \in Amounts, DepositStep(d, x)
      PROVE  locked' = locked + x /\ t = [q EXCEPT ![d] = @ + x]
    BY <1>1, <1>3 DEF DepositStep, Claims
<1>4. ASSUME NEW d \in Bridges, NEW x \in Amounts, ReleaseStep(d, x)
      PROVE  x <= q[d] /\ x <= locked /\ locked' = locked - x /\ t = [q EXCEPT ![d] = @ - x]
    BY <1>1, <1>4 DEF ReleaseStep, Claims
<1>5. ASSUME NEW s \in Bridges, NEW d \in Bridges, NEW x \in Amounts, NEW fee \in Amounts,
             ForwardStep(s, d, x, fee)
      PROVE  /\ fee <= x /\ x <= q[s] /\ fee <= locked /\ locked' = locked - fee
             /\ Moved(q, s, d, x, fee, t)
    <2>1. fee <= x /\ x <= q[s] /\ fee <= locked /\ locked' = locked - fee
        BY <1>1, <1>5 DEF ForwardStep, Claims
    <2> DEFINE h == [Outs EXCEPT ![s] = @ - x]
               k == [bridgedBalances EXCEPT ![s] = @ - x]
               l == [q EXCEPT ![s] = @ - x]
    <2>2. /\ Outs' = [h EXCEPT ![d] = @ + (x - fee)]
          /\ bridgedBalances' = [k EXCEPT ![d] = @ + (x - fee)]
        BY <1>5 DEF ForwardStep, Moved
    <2>3. l = [e \in Bridges |-> IF e \in Foreign THEN k[e] ELSE h[e]]
        BY <1>1 DEF Claims
    <2>4. DOMAIN h = Bridges /\ DOMAIN k = Bridges
        BY <1>1
    <2> HIDE DEF h, k, l
    <2>5. t = [l EXCEPT ![d] = @ + (x - fee)]
        BY <1>1, <2>2, <2>3, <2>4 DEF Claims
    <2> QED
        BY <2>1, <2>5 DEF Moved, l
<1>6. ASSUME NEW d \in Bridges, NEW x \in Amounts, BurnStep(d, x)
      PROVE  /\ locked' = locked
             /\ t = q \/ (x <= q[d] /\ t = [q EXCEPT ![d] = @ - x])
    BY <1>1, <1>6 DEF BurnStep, Claims
<1>7. ASSUME NEW d \in Bridges, ForeignStep(d) PROVE locked' = locked /\ t = q
    BY <1>1, <1>7 DEF ForeignStep, Claims, Updated
<1>8. ASSUME QuietStep PROVE locked' = locked /\ t = q
    BY <1>8 DEF QuietStep, Claims
<1> HIDE DEF q, t
<1>9. \/ locked' = locked /\ t = q
      \/ \E s \in 1..N, x \in Amounts :
             \/ locked' = locked + x /\ t = [q EXCEPT ![s] = @ + x]
             \/ x <= q[s] /\ x <= locked /\ locked' = locked - x /\ t = [q EXCEPT ![s] = @ - x]
             \/ x <= q[s] /\ t = [q EXCEPT ![s] = @ - x] /\ locked' = locked
             \/ \E d \in 1..N, fee \in Amounts :
                    /\ fee <= x /\ x <= q[s] /\ fee <= locked /\ locked' = locked - fee
                    /\ Moved(q, s, d, x, fee, t)
    BY <1>1, <1>3, <1>4, <1>5, <1>6, <1>7, <1>8, StepEffect
<1>10. /\ \A s \in 1..N, x \in Amounts :
              /\ locked' = locked + x /\ t = [q EXCEPT ![s] = @ + x] => Ledger!Deposit(s, x)
              /\ x <= q[s] /\ x <= locked /\ locked' = locked - x /\ t = [q EXCEPT ![s] = @ - x]
                     => Ledger!Withdraw(s, x)
              /\ x <= q[s] /\ t = [q EXCEPT ![s] = @ - x] /\ locked' = locked
                     => Ledger!Lose(s, x)
       /\ locked' = locked /\ t = q => UNCHANGED Ledger!ledgerVars
    BY <1>2, MappedClaims
    DEF Ledger!Deposit, Ledger!Withdraw, Ledger!Lose, Ledger!ledgerVars, q
<1>11. ASSUME NEW s \in 1..N, NEW x \in Amounts, NEW d \in 1..N, NEW fee \in Amounts,
              fee <= x, x <= q[s], fee <= locked, locked' = locked - fee, Moved(q, s, d, x, fee, t)
       PROVE  Ledger!Move(s, d, x, fee)
    BY <1>2, <1>11, MappedClaims DEF Ledger!Move, Moved, q
<1> QED
    BY <1>9, <1>10, <1>11, Zenon DEF Ledger!LedgerNext

\* The bridges implement a single ledger.
THEOREM ERC20BridgeImplementsLedger == Spec => LedgerSpec
<1>2. IInv /\ [Next]_vars => [Ledger!LedgerNext]_(Ledger!ledgerVars)
    BY StepRefines DEF IInv
<1> QED
    BY <1>2, InitIInv, NextIInv, InitRefines, PTL DEF Spec, LedgerSpec, Ledger!LedgerSpec
=============================================================================
