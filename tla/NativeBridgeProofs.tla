-------------------------- MODULE NativeBridgeProofs --------------------------
(***************************************************************************)
(* The native token bridge, for any initial supply, any number of          *)
(* transfers on their way and any amounts.                                 *)
(***************************************************************************)
EXTENDS NativeTokenBridge, CommonLemmas

\* Nothing is burned that was not there: totalSupply, an unsigned difference,
\* never underflows.
Burnable(fees, returned, minted, reserve) == fees + returned <= minted + reserve

SupplyDefined ==
    Burnable(burnedTxFees, burnedForTransfer, totalMinted, InitialReserveImbalance)

\* Nothing is minted or returned before the genesis supply is backed.
CollateralFirst ==
    totalMinted # 0 \/ SlotSum(unlocks, Slots) # 0 => currentReserveImbalance = 0

\* Backed, with the burned fees cancelled and without a difference.
Balanced(toMint, toUnlock, minted, reserve, held, imbalance, returned, reported) ==
    toMint + toUnlock + minted + reserve <= held + imbalance + returned + reported

Covered ==
    Balanced(SlotSum(mints, Slots), SlotSum(unlocks, Slots), totalMinted, InitialReserveImbalance,
             locked, currentReserveImbalance, burnedForTransfer, destinationBurnedTotal)

IInv == TypeOK /\ SupplyDefined /\ ReportsTrue /\ CollateralFirst /\ Covered

\* The numbers of a state, for the steps that need nothing but arithmetic.
AreNumbers ==
    /\ locked \in Nat /\ destinationBurnedTotal \in Nat
    /\ currentReserveImbalance \in Nat /\ totalMinted \in Nat
    /\ burnedTxFees \in Nat /\ burnedForTransfer \in Nat
    /\ InitialReserveImbalance \in Nat /\ Slots \in Nat
    /\ SlotSum(mints, Slots) \in Nat /\ SlotSum(unlocks, Slots) \in Nat

LEMMA Numbers ==
    ASSUME TypeOK
    PROVE  AreNumbers
BY BridgeAssumption, SlotSumType DEF TypeOK, AreNumbers

\* The balance is what is backed.
LEMMA CoveredArithmetic ==
    ASSUME NEW l \in Nat, NEW r \in Nat, NEW m \in Nat, NEW t \in Nat, NEW n \in Nat,
           NEW b \in Nat, NEW f \in Nat, NEW u \in Nat, NEW d \in Nat
    PROVE  l + r >= m + ((t + n) - (b + f)) + u + (b - d) <=> Balanced(m, u, t, n, l, r, f, d)
BY DEF Balanced

\* What each operation does to the balance.
LEMMA BalanceMoves ==
    ASSUME NEW l \in Nat, NEW r \in Nat, NEW m \in Nat, NEW t \in Nat, NEW n \in Nat,
           NEW f \in Nat, NEW u \in Nat, NEW d \in Nat, NEW amount \in Nat,
           Balanced(m, u, t, n, l, r, f, d)
    PROVE  /\ Balanced(m + amount, u, t, n, l + amount, r, f, d)
           /\ Balanced(m, u + amount, t, n, l, r, f + amount, d)
           /\ Balanced(m, u, t, n, l, r, f + amount, d)
           /\ amount <= u /\ amount <= l => Balanced(m, u - amount, t, n, l - amount, r, f, d)
           /\ amount <= l => Balanced(m, u, t, n, l - amount, r, f, d + amount)
           /\ amount <= m /\ amount <= r => Balanced(m - amount, u, t, n, l, r - amount, f, d)
           /\ amount <= m /\ amount > r =>
                  Balanced(m - amount, u, t + (amount - r), n, l, 0, f, d)
BY DEF Balanced

\* Without an imbalance, the balance pays for all transfers back.
LEMMA BalancePays ==
    ASSUME NEW l \in Nat, NEW m \in Nat, NEW t \in Nat, NEW n \in Nat, NEW b \in Nat,
           NEW f \in Nat, NEW u \in Nat, NEW d \in Nat,
           Balanced(m, u, t, n, l, 0, f, d), Burnable(b, f, t, n), d <= b
    PROVE  u <= l
BY DEF Balanced, Burnable

\* What each operation does to the supply.
LEMMA SupplyMoves ==
    ASSUME NEW b \in Nat, NEW f \in Nat, NEW t \in Nat, NEW n \in Nat, NEW amount \in Nat
    PROVE  /\ Burnable(b, f, t, n) => Burnable(b, f, t + amount, n)
           /\ amount <= (t + n) - (b + f) => Burnable(b + amount, f, t, n)
           /\ amount <= (t + n) - (b + f) => Burnable(b, f + amount, t, n)
BY DEF Burnable

\* The source backs its obligations exactly when the balance holds.
LEMMA BackedIfCovered == TypeOK => (Backed <=> Covered)
<1> SUFFICES ASSUME TypeOK PROVE Backed <=> Covered
    OBVIOUS
<1> QED
    BY Numbers, CoveredArithmetic DEF AreNumbers, Backed, Covered, TotalSupply

\* The initial state.
LEMMA InitIInv == Init => IInv
<1> SUFFICES ASSUME Init PROVE IInv
    OBVIOUS
<1>1. TypeOK
    BY BridgeAssumption DEF Init, TypeOK, NoAmounts
<1>2. SlotSum(mints, Slots) = 0 /\ SlotSum(unlocks, Slots) = 0
    BY BridgeAssumption, SlotSumZero DEF Init, NoAmounts
<1>3. InitialReserveImbalance \in Nat
    BY BridgeAssumption
<1> QED
    BY <1>1, <1>2, <1>3
       DEF Init, IInv, SupplyDefined, Burnable, ReportsTrue, CollateralFirst, Covered, Balanced

\* A transfer to the destination locks what it sends.
LockStep(i, amount) ==
    /\ mints[i] = 0
    /\ mints' = [mints EXCEPT ![i] = amount]
    /\ locked' = locked + amount
    /\ UNCHANGED << destinationBurnedTotal, destinationVars, unlocks, reports >>

LEMMA LockKeepsIInv ==
    ASSUME IInv, NEW i \in 1..Slots, NEW amount \in Nat, LockStep(i, amount)
    PROVE  IInv'
<1>1. /\ mints' \in [1..Slots -> Nat]
      /\ SlotSum(mints', Slots) = SlotSum(mints, Slots) + amount
    <2>1. mints \in [1..Slots -> Nat] /\ Slots \in Nat /\ mints[i] = 0
        BY BridgeAssumption DEF IInv, TypeOK, LockStep
    <2>2. /\ mints' \in [1..Slots -> Nat] /\ mints'[i] = amount
          /\ \A j \in 1..Slots : j # i => mints'[j] = mints[j]
        BY <2>1 DEF LockStep
    <2>3. SlotSum(mints', Slots) = SlotSum(mints, Slots) - mints[i] + mints'[i]
        BY <2>1, <2>2, SlotSumUpdate
    <2>4. SlotSum(mints, Slots) \in Nat
        BY <2>1, SlotSumType
    <2> QED
        BY <2>1, <2>2, <2>3, <2>4
<1>2. TypeOK'
    BY <1>1 DEF IInv, TypeOK, LockStep, destinationVars
<1>3. Covered'
    <2>1. Balanced(SlotSum(mints, Slots) + amount, SlotSum(unlocks, Slots), totalMinted,
                   InitialReserveImbalance, locked + amount, currentReserveImbalance,
                   burnedForTransfer, destinationBurnedTotal)
        BY Numbers, BalanceMoves DEF AreNumbers, IInv, Covered
    <2> QED
        BY <1>1, <2>1 DEF Covered, LockStep, destinationVars
<1> QED
    BY <1>2, <1>3
       DEF IInv, SupplyDefined, ReportsTrue, CollateralFirst, LockStep, destinationVars

\* Both kinds of source lock exactly what they send, also when the token keeps a
\* part of the transfer and the messenger draws its fee.
LEMMA TransfersLock ==
    /\ \A i \in 1..Slots, amount \in Amounts :
           TransferNativeToDestination(i, amount) => amount \in Nat /\ LockStep(i, amount)
    /\ \A i \in 1..Slots, totalAmount, received \in Amounts, feeAmount \in 0..MaxAmount :
           TransferERC20ToDestination(i, totalAmount, received, feeAmount) =>
               received - feeAmount \in Nat /\ LockStep(i, received - feeAmount)
<1>1. ASSUME NEW i \in 1..Slots, NEW amount \in Amounts, TransferNativeToDestination(i, amount)
      PROVE  amount \in Nat /\ LockStep(i, amount)
    BY <1>1 DEF TransferNativeToDestination, SendMint, LockStep, Amounts
<1>2. ASSUME NEW i \in 1..Slots, NEW totalAmount \in Amounts, NEW received \in Amounts,
             NEW feeAmount \in 0..MaxAmount,
             TransferERC20ToDestination(i, totalAmount, received, feeAmount)
      PROVE  received - feeAmount \in Nat /\ LockStep(i, received - feeAmount)
    <2>1. received - feeAmount \in Nat
        BY <1>2 DEF TransferERC20ToDestination, Amounts
    <2> QED
        BY <1>2, <2>1
           DEF TransferERC20ToDestination, SendMint, TransferAmount, LockStep, Amounts
<1> QED
    BY <1>1, <1>2

\* A transfer that arrives fills the imbalance, or is minted, or both.
LEMMA ReceiveKeepsIInv ==
    ASSUME IInv, NEW i \in 1..Slots, ReceiveTransfer(i)
    PROVE  IInv'
<1> DEFINE amount == mints[i]
           sent == SlotSum(mints, Slots)
<1>1. mints \in [1..Slots -> Nat] /\ Slots \in Nat /\ amount \in Nat /\ amount # 0
    BY BridgeAssumption DEF IInv, TypeOK, ReceiveTransfer
<1>2. AreNumbers /\ currentReserveImbalance <= InitialReserveImbalance
    BY Numbers, BridgeAssumption DEF IInv, TypeOK
<1>3. mints' \in [1..Slots -> Nat] /\ SlotSum(mints', Slots) = sent - amount /\ amount <= sent
    <2>1. /\ mints' \in [1..Slots -> Nat] /\ mints'[i] = 0
          /\ \A j \in 1..Slots : j # i => mints'[j] = mints[j]
        BY <1>1 DEF ReceiveTransfer
    <2>2. SlotSum(mints', Slots) = sent - amount + mints'[i]
        BY <1>1, <2>1, SlotSumUpdate
    <2>3. amount <= sent
        BY <1>1, SlotSumBound
    <2> QED
        BY <1>1, <1>2, <2>1, <2>2, <2>3 DEF AreNumbers
<1>4. /\ locked' = locked /\ destinationBurnedTotal' = destinationBurnedTotal
      /\ burnedTxFees' = burnedTxFees /\ burnedForTransfer' = burnedForTransfer
      /\ unlocks' = unlocks /\ reports' = reports
    BY DEF ReceiveTransfer, sourceVars
<1>5. Balanced(sent, SlotSum(unlocks, Slots), totalMinted, InitialReserveImbalance, locked,
               currentReserveImbalance, burnedForTransfer, destinationBurnedTotal)
    BY DEF IInv, Covered
<1>6. \/ /\ amount > currentReserveImbalance
         /\ currentReserveImbalance' = 0
         /\ totalMinted' = totalMinted + (amount - currentReserveImbalance)
      \/ /\ amount <= currentReserveImbalance
         /\ currentReserveImbalance' = currentReserveImbalance - amount
         /\ totalMinted' = totalMinted
    <2>1. CASE AddCollateral(amount)
        BY <1>1, <1>2, <2>1 DEF AddCollateral, AreNumbers
    <2>2. CASE /\ currentReserveImbalance = 0
               /\ totalMinted' = totalMinted + amount
               /\ UNCHANGED currentReserveImbalance
        BY <1>1, <1>2, <2>2 DEF AreNumbers
    <2> QED
        BY <2>1, <2>2 DEF ReceiveTransfer
<1>7. ReportsTrue'
    BY <1>4 DEF IInv, ReportsTrue
<1> HIDE DEF amount, sent
<1>8. CASE /\ amount > currentReserveImbalance
           /\ currentReserveImbalance' = 0
           /\ totalMinted' = totalMinted + (amount - currentReserveImbalance)
    <2>1. amount - currentReserveImbalance \in Nat
        BY <1>1, <1>2, <1>8 DEF AreNumbers
    <2>2. TypeOK'
        <3>1. totalMinted' \in Nat /\ currentReserveImbalance' \in 0..InitialReserveImbalance
            BY <1>2, <1>8, <2>1 DEF AreNumbers
        <3> QED
            BY <1>3, <1>4, <3>1 DEF IInv, TypeOK
    <2>3. SupplyDefined'
        BY <1>2, <1>4, <1>8, <2>1, SupplyMoves DEF AreNumbers, IInv, SupplyDefined
    <2>4. CollateralFirst'
        BY <1>8 DEF CollateralFirst
    <2>5. Balanced(sent - amount, SlotSum(unlocks, Slots),
                   totalMinted + (amount - currentReserveImbalance), InitialReserveImbalance,
                   locked, 0, burnedForTransfer, destinationBurnedTotal)
        BY <1>1, <1>2, <1>3, <1>5, <1>8, BalanceMoves DEF AreNumbers, sent
    <2>6. Covered'
        BY <1>3, <1>4, <1>8, <2>5 DEF Covered
    <2> QED
        BY <1>7, <2>2, <2>3, <2>4, <2>6 DEF IInv
<1>9. CASE /\ amount <= currentReserveImbalance
           /\ currentReserveImbalance' = currentReserveImbalance - amount
           /\ totalMinted' = totalMinted
    <2>1. currentReserveImbalance' \in 0..InitialReserveImbalance /\ currentReserveImbalance # 0
        BY <1>1, <1>2, <1>9 DEF AreNumbers
    <2>2. TypeOK'
        BY <1>2, <1>3, <1>4, <1>9, <2>1 DEF AreNumbers, IInv, TypeOK
    <2>3. SupplyDefined'
        BY <1>4, <1>9 DEF IInv, SupplyDefined
    <2>4. CollateralFirst'
        BY <1>4, <1>9, <2>1 DEF IInv, CollateralFirst
    <2>5. Balanced(sent - amount, SlotSum(unlocks, Slots), totalMinted, InitialReserveImbalance,
                   locked, currentReserveImbalance - amount, burnedForTransfer,
                   destinationBurnedTotal)
        BY <1>1, <1>2, <1>3, <1>5, <1>9, BalanceMoves DEF AreNumbers, sent
    <2>6. Covered'
        BY <1>3, <1>4, <1>9, <2>5 DEF Covered
    <2> QED
        BY <1>7, <2>2, <2>3, <2>4, <2>6 DEF IInv
<1> QED
    BY <1>6, <1>8, <1>9

\* A transfer back burns what it asks the source to unlock.
LEMMA ReturnKeepsIInv ==
    ASSUME IInv, NEW i \in 1..Slots, NEW amount \in Nat, TransferToSource(i, amount)
    PROVE  IInv'
<1>1. unlocks \in [1..Slots -> Nat] /\ Slots \in Nat /\ unlocks[i] = 0
    BY BridgeAssumption DEF IInv, TypeOK, TransferToSource
<1>2. AreNumbers
    BY Numbers DEF IInv
<1>3. /\ unlocks' \in [1..Slots -> Nat]
      /\ SlotSum(unlocks', Slots) = SlotSum(unlocks, Slots) + amount
    <2>1. /\ unlocks' \in [1..Slots -> Nat] /\ unlocks'[i] = amount
          /\ \A j \in 1..Slots : j # i => unlocks'[j] = unlocks[j]
        BY <1>1 DEF TransferToSource
    <2>2. SlotSum(unlocks', Slots) = SlotSum(unlocks, Slots) - unlocks[i] + unlocks'[i]
        BY <1>1, <2>1, SlotSumUpdate
    <2> QED
        BY <1>1, <1>2, <2>1, <2>2 DEF AreNumbers
<1>4. /\ amount <= TotalSupply
      /\ currentReserveImbalance = 0
      /\ burnedForTransfer' = burnedForTransfer + amount
      /\ locked' = locked /\ destinationBurnedTotal' = destinationBurnedTotal
      /\ currentReserveImbalance' = currentReserveImbalance /\ totalMinted' = totalMinted
      /\ burnedTxFees' = burnedTxFees /\ mints' = mints /\ reports' = reports
    BY DEF TransferToSource, sourceVars
<1>5. TypeOK'
    BY <1>2, <1>3, <1>4 DEF AreNumbers, IInv, TypeOK
<1>6. SupplyDefined'
    BY <1>2, <1>4, SupplyMoves DEF AreNumbers, TotalSupply, SupplyDefined
<1>7. CollateralFirst'
    BY <1>4 DEF CollateralFirst
<1>8. Covered'
    <2>1. Balanced(SlotSum(mints, Slots), SlotSum(unlocks, Slots) + amount, totalMinted,
                   InitialReserveImbalance, locked, currentReserveImbalance,
                   burnedForTransfer + amount, destinationBurnedTotal)
        BY <1>2, BalanceMoves DEF AreNumbers, IInv, Covered
    <2> QED
        BY <1>3, <1>4, <2>1 DEF Covered
<1> QED
    BY <1>4, <1>5, <1>6, <1>7, <1>8 DEF IInv, ReportsTrue

\* An unlock pays what was burned for it.
LEMMA UnlockKeepsIInv ==
    ASSUME IInv, NEW i \in 1..Slots, UnlockTokens(i)
    PROVE  IInv'
<1> DEFINE amount == unlocks[i]
           owed == SlotSum(unlocks, Slots)
<1>1. unlocks \in [1..Slots -> Nat] /\ Slots \in Nat /\ amount \in Nat
    BY BridgeAssumption DEF IInv, TypeOK
<1>2. AreNumbers
    BY Numbers DEF IInv
<1>3. unlocks' \in [1..Slots -> Nat] /\ SlotSum(unlocks', Slots) = owed - amount /\ amount <= owed
    <2>1. /\ unlocks' \in [1..Slots -> Nat] /\ unlocks'[i] = 0
          /\ \A j \in 1..Slots : j # i => unlocks'[j] = unlocks[j]
        BY <1>1 DEF UnlockTokens
    <2>2. SlotSum(unlocks', Slots) = owed - amount + unlocks'[i]
        BY <1>1, <2>1, SlotSumUpdate
    <2>3. amount <= owed
        BY <1>1, SlotSumBound
    <2> QED
        BY <1>1, <1>2, <2>1, <2>2, <2>3 DEF AreNumbers
<1>4. /\ amount # 0 /\ amount <= locked /\ locked' = locked - amount
      /\ destinationBurnedTotal' = destinationBurnedTotal
      /\ currentReserveImbalance' = currentReserveImbalance /\ totalMinted' = totalMinted
      /\ burnedTxFees' = burnedTxFees /\ burnedForTransfer' = burnedForTransfer
      /\ mints' = mints /\ reports' = reports
    BY <1>1, <1>2 DEF UnlockTokens, destinationVars, AreNumbers
<1>5. Balanced(SlotSum(mints, Slots), owed, totalMinted, InitialReserveImbalance, locked,
               currentReserveImbalance, burnedForTransfer, destinationBurnedTotal)
    BY DEF IInv, Covered
<1>6. owed # 0
    BY <1>1, <1>2, <1>3, <1>4 DEF AreNumbers
<1>7. CollateralFirst'
    BY <1>4, <1>6 DEF IInv, CollateralFirst
<1> HIDE DEF amount
<1>8. locked' \in Nat
    BY <1>1, <1>2, <1>4 DEF AreNumbers
<1>9. TypeOK'
    BY <1>3, <1>4, <1>8 DEF IInv, TypeOK
<1>10. Covered'
    <2>1. Balanced(SlotSum(mints, Slots), owed - amount, totalMinted, InitialReserveImbalance,
                   locked - amount, currentReserveImbalance, burnedForTransfer,
                   destinationBurnedTotal)
        BY <1>1, <1>2, <1>3, <1>4, <1>5, BalanceMoves DEF AreNumbers
    <2> QED
        BY <1>3, <1>4, <2>1 DEF Covered
<1> QED
    BY <1>4, <1>7, <1>9, <1>10 DEF IInv, SupplyDefined, ReportsTrue

\* A report burns at the source what was burned at the destination since the last.
LEMMA ReportKeepsIInv ==
    ASSUME IInv, NEW newBurnTotal \in reports, HandleBurnTokens(newBurnTotal)
    PROVE  IInv'
<1>1. newBurnTotal \in Nat /\ newBurnTotal <= burnedTxFees
    BY DEF IInv, TypeOK, ReportsTrue
<1>2. AreNumbers
    BY Numbers DEF IInv
<1>3. /\ reports' = reports \ {newBurnTotal}
      /\ currentReserveImbalance' = currentReserveImbalance /\ totalMinted' = totalMinted
      /\ burnedTxFees' = burnedTxFees /\ burnedForTransfer' = burnedForTransfer
      /\ mints' = mints /\ unlocks' = unlocks
    BY DEF HandleBurnTokens, destinationVars
<1>4. \E difference \in Nat :
          /\ difference <= locked
          /\ locked' = locked - difference
          /\ destinationBurnedTotal' = destinationBurnedTotal + difference
          /\ destinationBurnedTotal + difference <= burnedTxFees
    <2>1. CASE newBurnTotal > destinationBurnedTotal
        <3> DEFINE difference == newBurnTotal - destinationBurnedTotal
        <3>1. /\ difference \in Nat
              /\ destinationBurnedTotal + difference = newBurnTotal
            BY <1>1, <1>2, <2>1 DEF AreNumbers
        <3>2. /\ difference <= locked /\ locked' = locked - difference
              /\ destinationBurnedTotal' = newBurnTotal
            BY <1>2, <2>1, <3>1 DEF HandleBurnTokens, AreNumbers
        <3> HIDE DEF difference
        <3> QED
            BY <1>1, <3>1, <3>2
    <2>2. CASE ~(newBurnTotal > destinationBurnedTotal)
        <3>1. locked' = locked /\ destinationBurnedTotal' = destinationBurnedTotal
            BY <2>2 DEF HandleBurnTokens, sourceVars
        <3>2. /\ 0 \in Nat /\ 0 <= locked /\ locked' = locked - 0
              /\ destinationBurnedTotal' = destinationBurnedTotal + 0
              /\ destinationBurnedTotal + 0 <= burnedTxFees
            BY <1>2, <3>1 DEF AreNumbers, IInv, ReportsTrue
        <3> QED
            BY <3>2
    <2> QED
        BY <2>1, <2>2
<1>5. PICK difference \in Nat :
          /\ difference <= locked
          /\ locked' = locked - difference
          /\ destinationBurnedTotal' = destinationBurnedTotal + difference
          /\ destinationBurnedTotal + difference <= burnedTxFees
    BY <1>4
<1>6. TypeOK'
    <2>1. locked' \in Nat /\ destinationBurnedTotal' \in Nat
        BY <1>2, <1>5 DEF AreNumbers
    <2> QED
        BY <1>3, <2>1 DEF IInv, TypeOK
<1>7. ReportsTrue'
    BY <1>3, <1>5 DEF IInv, ReportsTrue
<1>8. Covered'
    <2>1. Balanced(SlotSum(mints, Slots), SlotSum(unlocks, Slots), totalMinted,
                   InitialReserveImbalance, locked - difference, currentReserveImbalance,
                   burnedForTransfer, destinationBurnedTotal + difference)
        BY <1>2, <1>5, BalanceMoves DEF AreNumbers, IInv, Covered
    <2> QED
        BY <1>3, <1>5, <2>1 DEF Covered
<1> QED
    BY <1>3, <1>6, <1>7, <1>8 DEF IInv, SupplyDefined, CollateralFirst

\* Tokens are burned only if they are there.
LEMMA BurnKeepsIInv ==
    ASSUME IInv, NEW amount \in Nat, BurnTxFees(amount) \/ SendToBurnAddress(amount)
    PROVE  IInv'
<1>1. AreNumbers
    BY Numbers DEF IInv
<1>2. /\ amount <= (totalMinted + InitialReserveImbalance) - (burnedTxFees + burnedForTransfer)
      /\ locked' = locked /\ destinationBurnedTotal' = destinationBurnedTotal
      /\ currentReserveImbalance' = currentReserveImbalance /\ totalMinted' = totalMinted
      /\ mints' = mints /\ unlocks' = unlocks /\ reports' = reports
    BY DEF BurnTxFees, SendToBurnAddress, TotalSupply, sourceVars
<1>3. CollateralFirst'
    BY <1>2 DEF IInv, CollateralFirst
<1>4. Balanced(SlotSum(mints, Slots), SlotSum(unlocks, Slots), totalMinted,
               InitialReserveImbalance, locked, currentReserveImbalance,
               burnedForTransfer, destinationBurnedTotal)
    BY DEF IInv, Covered
<1>5. CASE BurnTxFees(amount)
    <2>1. burnedTxFees' = burnedTxFees + amount /\ burnedForTransfer' = burnedForTransfer
        BY <1>5 DEF BurnTxFees
    <2>2. burnedTxFees' \in Nat /\ burnedTxFees <= burnedTxFees'
        BY <1>1, <2>1 DEF AreNumbers
    <2>3. TypeOK'
        BY <1>2, <2>1, <2>2 DEF IInv, TypeOK
    <2>4. SupplyDefined'
        BY <1>1, <1>2, <2>1, SupplyMoves DEF AreNumbers, SupplyDefined
    <2>5. ReportsTrue'
        <3>1. \A total \in reports : total \in Nat
            BY DEF IInv, TypeOK
        <3> QED
            BY <1>1, <1>2, <2>2, <3>1 DEF AreNumbers, IInv, ReportsTrue
    <2> QED
        BY <1>2, <1>3, <1>4, <2>1, <2>3, <2>4, <2>5 DEF IInv, Covered
<1>6. CASE SendToBurnAddress(amount)
    <2>1. burnedForTransfer' = burnedForTransfer + amount /\ burnedTxFees' = burnedTxFees
        BY <1>6 DEF SendToBurnAddress
    <2>2. burnedForTransfer' \in Nat
        BY <1>1, <2>1 DEF AreNumbers
    <2>3. TypeOK'
        BY <1>2, <2>1, <2>2 DEF IInv, TypeOK
    <2>4. SupplyDefined'
        BY <1>1, <1>2, <2>1, SupplyMoves DEF AreNumbers, SupplyDefined
    <2>5. Balanced(SlotSum(mints, Slots), SlotSum(unlocks, Slots), totalMinted,
                   InitialReserveImbalance, locked, currentReserveImbalance,
                   burnedForTransfer + amount, destinationBurnedTotal)
        BY <1>1, <1>4, BalanceMoves DEF AreNumbers
    <2> QED
        BY <1>2, <1>3, <2>1, <2>3, <2>4, <2>5 DEF IInv, ReportsTrue, Covered
<1> QED
    BY <1>5, <1>6

\* Every step keeps the inductive invariant.
LEMMA NextIInv == IInv /\ [Next]_vars => IInv'
<1> SUFFICES ASSUME IInv, [Next]_vars PROVE IInv'
    OBVIOUS
<1>1. \A amount \in Amounts : amount \in Nat
    BY DEF Amounts
<1>2. CASE Transfer
    BY <1>1, <1>2, TransfersLock, LockKeepsIInv, ReturnKeepsIInv DEF Transfer
<1>3. CASE Burn
    BY <1>1, <1>3, BurnKeepsIInv DEF Burn
<1>4. CASE ReportTotalBurnedTxFees
    <2>1. /\ reports' = reports \cup {burnedTxFees}
          /\ locked' = locked /\ destinationBurnedTotal' = destinationBurnedTotal
          /\ currentReserveImbalance' = currentReserveImbalance /\ totalMinted' = totalMinted
          /\ burnedTxFees' = burnedTxFees /\ burnedForTransfer' = burnedForTransfer
          /\ mints' = mints /\ unlocks' = unlocks
        BY <1>4 DEF ReportTotalBurnedTxFees, TotalBurnedTxFees, sourceVars, destinationVars
    <2>2. burnedTxFees \in Nat
        BY DEF IInv, TypeOK
    <2> QED
        BY <2>1, <2>2, Numbers DEF AreNumbers, IInv, TypeOK, SupplyDefined, ReportsTrue,
                                   CollateralFirst, Covered
<1>5. CASE Execute
    BY <1>5, ReceiveKeepsIInv, UnlockKeepsIInv, ReportKeepsIInv DEF Execute
<1>6. CASE UNCHANGED vars
    BY <1>6 DEF vars, IInv, TypeOK, SupplyDefined, ReportsTrue, CollateralFirst,
                Covered
<1> QED
    BY <1>2, <1>3, <1>4, <1>5, <1>6 DEF Next

\* The inductive invariant holds in every state.
THEOREM BridgeSafety == Spec => []IInv
<1> QED
    BY InitIInv, NextIInv, PTL DEF Spec

\* Every amount, counter and balance of the two contracts is a natural number that
\* fits its type: in particular no supply and no reserve goes below zero.
THEOREM BridgeTypeCorrect == Spec => []TypeOK
<1>1. IInv => TypeOK
    BY DEF IInv
<1> QED
    BY <1>1, BridgeSafety, PTL

\* The source holds enough for everything that may still be asked of it.
THEOREM AlwaysBacked == Spec => []Backed
<1>1. IInv => Backed
    BY BackedIfCovered DEF IInv
<1> QED
    BY <1>1, BridgeSafety, PTL

\* The source is never told of more burned fees than there are.
THEOREM ReportsAlwaysTrue == Spec => []ReportsTrue
<1>1. IInv => ReportsTrue
    BY DEF IInv
<1> QED
    BY <1>1, BridgeSafety, PTL

\* Nothing is minted or returned before the genesis supply is backed, and the
\* source can pay all transfers back at once.
THEOREM UnlocksAlwaysPayable == Spec => []UnlocksPayable
<1>1. ASSUME IInv PROVE UnlocksPayable
    <2>1. AreNumbers
        BY <1>1, Numbers DEF IInv
    <2>2. CASE SlotSum(unlocks, Slots) = 0
        BY <1>1, <2>1, <2>2 DEF AreNumbers, IInv, UnlocksPayable, CollateralFirst
    <2>3. CASE SlotSum(unlocks, Slots) # 0
        <3>1. currentReserveImbalance = 0
            BY <1>1, <2>3 DEF IInv, CollateralFirst
        <3>2. SlotSum(unlocks, Slots) <= locked
            BY <1>1, <2>1, <3>1, BalancePays
               DEF AreNumbers, IInv, Covered, SupplyDefined, ReportsTrue
        <3> QED
            BY <3>1, <3>2 DEF UnlocksPayable
    <2> QED
        BY <2>2, <2>3
<1> QED
    BY <1>1, BridgeSafety, PTL
=============================================================================
