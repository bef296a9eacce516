---------------------------- MODULE ReentrantProofs ----------------------------
(***************************************************************************)
(* The messenger that is called back, for any nesting of calls, any number *)
(* of relayers, messages and receipts and any amounts.                     *)
(***************************************************************************)
EXTENDS ReentrantMessenger, CommonLemmas

Deposits   == {"send", "addFee"}
Executions == {"receive", "retry"}

-----------------------------------------------------------------------------
(* The stack of calls                                                      *)

Pushed(frame) ==
    /\ Len(stack') = Len(stack) + 1 /\ Len(stack') <= MaxDepth
    /\ stack' \in Seq(Frames)
    /\ stack'[Len(stack) + 1] = frame
    /\ \A i \in 1..Len(stack) : stack'[i] = stack[i]

Popped ==
    /\ Len(stack) > 0 /\ Len(stack') = Len(stack) - 1
    /\ stack' \in Seq(Frames)
    /\ \A i \in 1..(Len(stack) - 1) : stack'[i] = stack[i]

TopMoved ==
    /\ Len(stack) > 0 /\ Len(stack') = Len(stack)
    /\ stack' \in Seq(Frames)
    /\ stack'[Len(stack)] = Moved(Top)
    /\ \A i \in 1..(Len(stack) - 1) : stack'[i] = stack[i]

StackTypeOK == stack \in Seq(Frames) /\ Len(stack) <= MaxDepth

LEMMA StackFacts ==
    ASSUME StackTypeOK
    PROVE  /\ Len(stack) \in Nat /\ DOMAIN stack = 1..Len(stack)
           /\ \A i \in 1..Len(stack) : stack[i] \in Frames
           /\ stack # << >> <=> Len(stack) > 0
           /\ Len(stack) > 0 => Top \in Frames
BY LenProperties, EmptySeq, ElementOfSeq DEF StackTypeOK, Top

LEMMA CallPushes ==
    ASSUME StackTypeOK, NEW frame \in Frames, Call(frame)
    PROVE  Pushed(frame)
BY StackFacts, AppendProperties, ReentrantAssumption DEF Call, Pushed, StackTypeOK

LEMMA ReturnPops ==
    ASSUME StackTypeOK, Len(stack) > 0, Return
    PROVE  Popped
<1>1. Len(stack) \in Nat /\ \A i \in 1..Len(stack) : stack[i] \in Frames
    BY StackFacts
<1>2. /\ SubSeq(stack, 1, Len(stack) - 1) \in Seq(Frames)
      /\ Len(SubSeq(stack, 1, Len(stack) - 1)) = Len(stack) - 1
      /\ \A i \in 1..(Len(stack) - 1) : SubSeq(stack, 1, Len(stack) - 1)[i] = stack[i]
    BY <1>1, SubSeqProperties DEF StackTypeOK
<1> QED
    BY <1>2 DEF Return, Popped

LEMMA MovedFrame ==
    ASSUME NEW frame \in Frames, frame.op \in Deposits \cup {"redeem"}
    PROVE  /\ Moved(frame) \in Frames /\ Moved(frame).op = frame.op
           /\ Moved(frame).moved = TRUE
           /\ frame.op = "redeem" => Moved(frame).amount = frame.amount
           /\ frame.op \in Deposits => /\ Moved(frame).id = frame.id
                                       /\ Moved(frame).carried = frame.carried
                                       /\ Moved(frame).balanceBefore = frame.balanceBefore
BY DEF Moved, Frames, DepositFrames, RedeemFrames, ExecuteFrames, Deposits

LEMMA MoveMoves ==
    ASSUME StackTypeOK, TopIs(Deposits \cup {"redeem"}),
           stack' = [stack EXCEPT ![Len(stack)] = Moved(Top)]
    PROVE  TopMoved
<1>1. Len(stack) \in Nat /\ Len(stack) > 0 /\ Top \in Frames
    BY StackFacts DEF TopIs
<1>2. Moved(Top) \in Frames
    BY <1>1, MovedFrame DEF TopIs
<1> DEFINE f == Moved(Top)
<1> HIDE DEF f
<1>3. f \in Frames /\ stack' = [stack EXCEPT ![Len(stack)] = f]
    BY <1>2 DEF f
<1>4. /\ stack' \in Seq(Frames) /\ Len(stack') = Len(stack)
      /\ \A i \in 1..Len(stack) : stack'[i] = IF i = Len(stack) THEN f ELSE stack[i]
    BY <1>1, <1>3, ExceptSeq DEF StackTypeOK
<1>5. stack'[Len(stack)] = f /\ \A i \in 1..(Len(stack) - 1) : stack'[i] = stack[i]
    <2>1. Len(stack) \in 1..Len(stack)
        BY <1>1
    <2>2. \A i \in 1..(Len(stack) - 1) : i \in 1..Len(stack) /\ i # Len(stack)
        BY <1>1
    <2> QED
        BY <1>4, <2>1, <2>2
<1> QED
    BY <1>1, <1>4, <1>5 DEF TopMoved, f

\* The calls of some kinds that have not returned.
LEMMA OpenPushed ==
    ASSUME StackTypeOK, NEW frame, Pushed(frame), NEW ops
    PROVE  /\ Open(ops)' = IF frame.op \in ops THEN Open(ops) \cup {Len(stack) + 1} ELSE Open(ops)
           /\ \A i \in Open(ops) : stack'[i] = stack[i]
           /\ Len(stack) + 1 \notin Open(ops)
<1>1. Len(stack) \in Nat /\ DOMAIN stack = 1..Len(stack) /\ DOMAIN stack' = 1..(Len(stack) + 1)
    BY StackFacts, LenProperties DEF Pushed
<1> QED
    BY <1>1 DEF Open, Pushed

LEMMA OpenPopped ==
    ASSUME StackTypeOK, Popped, NEW ops
    PROVE  /\ Open(ops)' = Open(ops) \ {Len(stack)}
           /\ \A i \in Open(ops)' : stack'[i] = stack[i]
<1>1. /\ Len(stack) \in Nat /\ Len(stack) > 0
      /\ DOMAIN stack = 1..Len(stack) /\ DOMAIN stack' = 1..(Len(stack) - 1)
    BY StackFacts, LenProperties DEF Popped
<1> QED
    BY <1>1 DEF Open, Popped

LEMMA OpenMoved ==
    ASSUME StackTypeOK, TopMoved, TopIs(Deposits \cup {"redeem"}), NEW ops
    PROVE  /\ Open(ops)' = Open(ops)
           /\ \A i \in Open(ops) : stack'[i] = IF i = Len(stack) THEN Moved(Top) ELSE stack[i]
<1>1. /\ Len(stack) \in Nat /\ Len(stack) > 0 /\ Top \in Frames
      /\ DOMAIN stack = 1..Len(stack) /\ DOMAIN stack' = 1..Len(stack)
    BY StackFacts, LenProperties DEF TopMoved
<1>2. \A i \in 1..Len(stack) : stack'[i] = IF i = Len(stack) THEN Moved(Top) ELSE stack[i]
    <2> TAKE i \in 1..Len(stack)
    <2>0. Len(stack) \in Nat
        BY <1>1
    <2>1. i # Len(stack) => i \in 1..(Len(stack) - 1)
        BY <2>0
    <2> QED
        BY <2>1 DEF TopMoved
<1>3. Moved(Top).op = stack[Len(stack)].op
    BY <1>1, MovedFrame DEF TopIs, Top
<1>4. \A i \in 1..Len(stack) : stack'[i].op = stack[i].op
    BY <1>2, <1>3
<1> QED
    BY <1>1, <1>2, <1>4 DEF Open

\* The last call is the only one of its kind if there is one at most.
LEMMA TopIsOpen ==
    ASSUME StackTypeOK, NEW ops, TopIs(ops)
    PROVE  Len(stack) \in Open(ops) /\ Len(stack) > 0 /\ Top \in Frames /\ Top.op \in ops
BY StackFacts DEF TopIs, Top, Open

-----------------------------------------------------------------------------
(* Rewards that are being paid                                             *)

LEMMA PayoutType ==
    ASSUME NEW frame \in Frames
    PROVE  /\ Payout(frame) \in Nat
           /\ frame.op # "redeem" => Payout(frame) = 0
           /\ frame.op = "redeem" => /\ frame.amount \in Nat
                                     /\ frame.moved => Payout(frame) = 0
                                     /\ ~frame.moved => Payout(frame) = frame.amount
BY DEF Payout, Frames, DepositFrames, RedeemFrames, ExecuteFrames

LEMMA PayoutsType ==
    ASSUME StackTypeOK
    PROVE  Payouts \in [1..MaxDepth -> Nat] /\ SlotSum(Payouts, MaxDepth) \in Nat
<1>1. MaxDepth \in Nat /\ DOMAIN stack = 1..Len(stack) /\ \A i \in 1..Len(stack) : stack[i] \in Frames
    BY StackFacts, ReentrantAssumption
<1>2. \A i \in DOMAIN stack : Payout(stack[i]) \in Nat
    BY <1>1, PayoutType
<1>3. Payouts \in [1..MaxDepth -> Nat]
    BY <1>2 DEF Payouts
<1> QED
    BY <1>1, <1>3, SlotSumType

\* Slots that agree but for one.
Agree(f, g, n, k) == \A i \in 1..n : i # k => g[i] = f[i]

LEMMA SumChanges ==
    ASSUME NEW n \in Nat, NEW f \in [1..n -> Nat], NEW g \in [1..n -> Nat], NEW k \in 1..n,
           Agree(f, g, n, k)
    PROVE  SlotSum(g, n) = SlotSum(f, n) - f[k] + g[k]
<1>1. \A i \in 1..n : i # k => g[i] = f[i]
    BY DEF Agree
<1> QED
    BY <1>1, SlotSumUpdate, Zenon

\* The sum changes by what one call pays.
LEMMA PayoutsChange ==
    ASSUME NEW k \in 1..MaxDepth, Payouts \in [1..MaxDepth -> Nat],
           Payouts' \in [1..MaxDepth -> Nat], Agree(Payouts, Payouts', MaxDepth, k)
    PROVE  SlotSum(Payouts, MaxDepth)' = SlotSum(Payouts, MaxDepth) - Payouts[k] + Payouts'[k]
<1> DEFINE before == Payouts
           after  == Payouts'
<1>1. MaxDepth \in Nat /\ before \in [1..MaxDepth -> Nat] /\ after \in [1..MaxDepth -> Nat]
    BY ReentrantAssumption
<1>2. Agree(before, after, MaxDepth, k)
    OBVIOUS
<1>3. SlotSum(Payouts, MaxDepth)' = SlotSum(after, MaxDepth)
    OBVIOUS
<1> HIDE DEF before, after
<1>4. SlotSum(after, MaxDepth) = SlotSum(before, MaxDepth) - before[k] + after[k]
    BY <1>1, <1>2, SumChanges
<1> QED
    BY <1>3, <1>4 DEF before, after

LEMMA PayoutsNextType ==
    ASSUME stack' \in Seq(Frames)
    PROVE  Payouts' \in [1..MaxDepth -> Nat]
<1>1. \A i \in DOMAIN stack' : stack'[i] \in Frames
    BY LenProperties, ElementOfSeq
<1>2. \A i \in DOMAIN stack' : Payout(stack'[i]) \in Nat
    BY <1>1, PayoutType
<1> QED
    BY <1>2 DEF Payouts

LEMMA PayoutsPushed ==
    ASSUME StackTypeOK, NEW frame \in Frames, Pushed(frame)
    PROVE  SlotSum(Payouts, MaxDepth)' = SlotSum(Payouts, MaxDepth) + Payout(frame)
<1> DEFINE k == Len(stack) + 1
<1>1. /\ Len(stack) \in Nat /\ DOMAIN stack = 1..Len(stack) /\ DOMAIN stack' = 1..k
      /\ k \in 1..MaxDepth /\ MaxDepth \in Nat
    BY StackFacts, LenProperties, ReentrantAssumption DEF Pushed
<1>2. Payouts \in [1..MaxDepth -> Nat] /\ Payouts' \in [1..MaxDepth -> Nat]
    BY PayoutsType, PayoutsNextType DEF Pushed
<1>3. Payouts[k] = 0 /\ Payouts'[k] = Payout(frame)
    BY <1>1 DEF Payouts, Pushed
<1>4. Agree(Payouts, Payouts', MaxDepth, k)
    BY <1>1 DEF Payouts, Agree, Pushed
<1>5. SlotSum(Payouts, MaxDepth)' = SlotSum(Payouts, MaxDepth) - Payouts[k] + Payouts'[k]
    BY <1>1, <1>2, <1>4, PayoutsChange
<1>6. SlotSum(Payouts, MaxDepth) \in Nat /\ Payout(frame) \in Nat
    BY PayoutsType, PayoutType
<1> QED
    BY <1>3, <1>5, <1>6

LEMMA PayoutsPopped ==
    ASSUME StackTypeOK, Popped
    PROVE  SlotSum(Payouts, MaxDepth)' = SlotSum(Payouts, MaxDepth) - Payout(Top)
<1> DEFINE k == Len(stack)
<1>1. /\ k \in Nat /\ k > 0 /\ k <= MaxDepth /\ DOMAIN stack = 1..k /\ DOMAIN stack' = 1..(k - 1)
      /\ Top \in Frames /\ MaxDepth \in Nat
    BY StackFacts, LenProperties, ReentrantAssumption DEF Popped, StackTypeOK
<1>2. Payouts \in [1..MaxDepth -> Nat] /\ Payouts' \in [1..MaxDepth -> Nat]
    BY PayoutsType, PayoutsNextType DEF Popped
<1>3. Payouts[k] = Payout(Top) /\ Payouts'[k] = 0
    BY <1>1 DEF Payouts, Top
<1>4. Agree(Payouts, Payouts', MaxDepth, k)
    BY <1>1 DEF Payouts, Agree, Popped
<1>5. SlotSum(Payouts, MaxDepth)' = SlotSum(Payouts, MaxDepth) - Payouts[k] + Payouts'[k]
    <2>1. k \in 1..MaxDepth
        BY <1>1
    <2> HIDE DEF k
    <2> QED
        BY <1>2, <1>4, <2>1, PayoutsChange
<1>6. SlotSum(Payouts, MaxDepth) \in Nat /\ Payout(Top) \in Nat
    BY <1>1, PayoutsType, PayoutType
<1> QED
    BY <1>3, <1>5, <1>6

LEMMA PayoutsMoved ==
    ASSUME StackTypeOK, TopMoved, TopIs(Deposits \cup {"redeem"})
    PROVE  SlotSum(Payouts, MaxDepth)' = SlotSum(Payouts, MaxDepth) - Payout(Top)
<1> DEFINE k == Len(stack)
<1>1. /\ k \in Nat /\ k > 0 /\ k <= MaxDepth /\ DOMAIN stack = 1..k /\ DOMAIN stack' = 1..k
      /\ Top \in Frames /\ MaxDepth \in Nat
    BY StackFacts, LenProperties, ReentrantAssumption DEF TopMoved, StackTypeOK
<1>2. Payouts \in [1..MaxDepth -> Nat] /\ Payouts' \in [1..MaxDepth -> Nat]
    BY PayoutsType, PayoutsNextType DEF TopMoved
<1>3. Payouts[k] = Payout(Top) /\ Payouts'[k] = 0
    <2>1. Payout(Moved(Top)) = 0
        BY <1>1, MovedFrame, PayoutType DEF TopIs
    <2> QED
        BY <1>1, <2>1 DEF Payouts, Top, TopMoved
<1>4. Agree(Payouts, Payouts', MaxDepth, k)
    BY <1>1 DEF Payouts, Agree, TopMoved
<1>5. SlotSum(Payouts, MaxDepth)' = SlotSum(Payouts, MaxDepth) - Payouts[k] + Payouts'[k]
    <2>1. k \in 1..MaxDepth
        BY <1>1
    <2> HIDE DEF k
    <2> QED
        BY <1>2, <1>4, <2>1, PayoutsChange
<1>6. SlotSum(Payouts, MaxDepth) \in Nat /\ Payout(Top) \in Nat
    BY <1>1, PayoutsType, PayoutType
<1> QED
    BY <1>3, <1>5, <1>6

-----------------------------------------------------------------------------
(* The receipts of a delivered message                                     *)

Ledgers == [stored : SUBSET SentIDs, fees : [SentIDs -> Nat], rewards : [Relayers -> Nat]]

Worth(ledger) == SlotSum(ledger.fees, MaxSent) + SlotSum(ledger.rewards, R)

\* What one receipt, or several, may do to the ledger: delete messages and move
\* their fees, of which nothing is lost.
Settlement(before, after) ==
    /\ after \in Ledgers
    /\ after.stored \subseteq before.stored
    /\ Worth(after) = Worth(before)

LEMMA MarkReceiptSettles ==
    ASSUME NEW ledger \in Ledgers, NEW receipt \in Receipts
    PROVE  Settlement(ledger, MarkReceipt(ledger, receipt))
<1> DEFINE id == receipt.receivedMessageID
           r  == receipt.relayerRewardAddress
           fee == ledger.fees[id]
           fees == [ledger.fees EXCEPT ![id] = 0]
           credited == [ledger.rewards EXCEPT ![r] = @ + fee]
<1>1. /\ id \in 1..MaxSent /\ r \in 1..R /\ MaxSent \in Nat /\ R \in Nat
      /\ ledger.stored \subseteq SentIDs
      /\ ledger.fees \in [1..MaxSent -> Nat] /\ ledger.rewards \in [1..R -> Nat] /\ fee \in Nat
    BY ReentrantAssumption DEF Ledgers, Receipts, SentIDs, Relayers
<1>2. CASE id \notin ledger.stored
    <2>1. MarkReceipt(ledger, receipt) = ledger
        BY <1>2 DEF MarkReceipt
    <2> QED
        BY <2>1 DEF Settlement
<1>3. CASE id \in ledger.stored
    <2>1. MarkReceipt(ledger, receipt) =
              [stored |-> ledger.stored \ {id}, fees |-> fees, rewards |-> credited]
        BY <1>3 DEF MarkReceipt
    <2>2. /\ fees \in [1..MaxSent -> Nat] /\ fees[id] = 0
          /\ credited \in [1..R -> Nat] /\ credited[r] = ledger.rewards[r] + fee
        <3> HIDE DEF fee, id, r
        <3>1. fees \in [1..MaxSent -> Nat] /\ fees[id] = 0
            BY <1>1
        <3>2. ledger.rewards[r] \in Nat /\ ledger.rewards[r] + fee \in Nat
            BY <1>1
        <3>3. credited \in [1..R -> Nat] /\ credited[r] = ledger.rewards[r] + fee
            BY <1>1, <3>2
        <3> QED
            BY <3>1, <3>3
    <2>3. Agree(ledger.fees, fees, MaxSent, id) /\ Agree(ledger.rewards, credited, R, r)
        BY <1>1 DEF Agree
    <2> HIDE DEF fees, credited, fee, id, r
    <2>4. SlotSum(fees, MaxSent) = SlotSum(ledger.fees, MaxSent) - ledger.fees[id] + fees[id]
        <3>1. Agree(ledger.fees, fees, MaxSent, id)
            BY <2>3
        <3> QED
            BY ONLY <1>1, <2>2, <3>1, SumChanges, Zenon
    <2>5. SlotSum(credited, R) = SlotSum(ledger.rewards, R) - ledger.rewards[r] + credited[r]
        <3>1. Agree(ledger.rewards, credited, R, r)
            BY <2>3
        <3> QED
            BY ONLY <1>1, <2>2, <3>1, SumChanges, Zenon
    <2>6. SlotSum(ledger.fees, MaxSent) \in Nat /\ SlotSum(ledger.rewards, R) \in Nat
        BY <1>1, SlotSumType
    <2>7. ledger.fees[id] = fee /\ ledger.rewards[r] \in Nat
        BY <1>1 DEF fee
    <2>8. SlotSum(fees, MaxSent) + SlotSum(credited, R) = Worth(ledger)
        <3>1. \A a, b, c, d \in Nat : (a - c + 0) + (b - d + (d + c)) = a + b
            OBVIOUS
        <3>2. fee \in Nat
            BY <1>1
        <3>3. SlotSum(fees, MaxSent) + SlotSum(credited, R) =
                  (SlotSum(ledger.fees, MaxSent) - fee + 0) +
                  (SlotSum(ledger.rewards, R) - ledger.rewards[r] + (ledger.rewards[r] + fee))
            BY <2>2, <2>4, <2>5, <2>7, Zenon
        <3>4. (SlotSum(ledger.fees, MaxSent) - fee + 0) +
                  (SlotSum(ledger.rewards, R) - ledger.rewards[r] + (ledger.rewards[r] + fee))
              = SlotSum(ledger.fees, MaxSent) + SlotSum(ledger.rewards, R)
            BY <2>6, <2>7, <3>1, <3>2
        <3> QED
            BY <3>3, <3>4, Zenon DEF Worth
    <2>9. MarkReceipt(ledger, receipt) \in Ledgers
        <3>1. ledger.stored \ {id} \in SUBSET SentIDs
            BY <1>1
        <3>2. fees \in [SentIDs -> Nat] /\ credited \in [Relayers -> Nat]
            BY <2>2 DEF SentIDs, Relayers
        <3> QED
            BY <2>1, <3>1, <3>2 DEF Ledgers
    <2> QED
        BY <2>1, <2>8, <2>9 DEF Settlement, Worth
<1> QED
    BY <1>2, <1>3

Ledger == [stored |-> stored, fees |-> feeAmounts, rewards |-> rewards]

\* The loop over the receipts, as the equation its states obey.
LoopStep(receipts, after, i) ==
    IF i = 0 THEN Ledger ELSE MarkReceipt(after[i - 1], receipts[i])
IsLoop(receipts, n, after) == after = [i \in 0..n |-> LoopStep(receipts, after, i)]

LEMMA LoopExists ==
    ASSUME NEW receipts \in Seq(Receipts), Ledger \in Ledgers
    PROVE  \A n \in Nat : n <= Len(receipts) =>
               \E after : /\ IsLoop(receipts, n, after)
                          /\ \A i \in 0..n : Settlement(Ledger, after[i])
<1> DEFINE Good(n, after) == IsLoop(receipts, n, after) /\ \A i \in 0..n : Settlement(Ledger, after[i])
           S == {n \in Nat : n <= Len(receipts) => \E after : Good(n, after)}
<1>0. Len(receipts) \in Nat
    BY LenProperties
<1>1. 0 \in S
    <2> DEFINE f == [i \in 0..0 |-> Ledger]
    <2>1. \A i \in 0..0 : Settlement(Ledger, f[i])
        BY DEF Settlement
    <2>2. IsLoop(receipts, 0, f)
        BY DEF IsLoop, LoopStep
    <2> HIDE DEF f
    <2> QED
        BY <2>1, <2>2
<1>2. ASSUME NEW n \in Nat, n \in S PROVE n + 1 \in S
    <2> SUFFICES ASSUME n + 1 <= Len(receipts)
                 PROVE  \E after : Good(n + 1, after)
        OBVIOUS
    <2>1. PICK g : Good(n, g)
        BY <1>0, <1>2
    <2> DEFINE last == MarkReceipt(g[n], receipts[n + 1])
               f == [i \in 0..(n + 1) |-> IF i = n + 1 THEN last ELSE g[i]]
    <2>2. Settlement(Ledger, last)
        <3>1. receipts[n + 1] \in Receipts
            BY <1>0, ElementOfSeq
        <3>2. Settlement(Ledger, g[n])
            BY <2>1
        <3>3. g[n] \in Ledgers
            BY <3>2 DEF Settlement
        <3> HIDE DEF S, Good
        <3>4. Settlement(g[n], last)
            BY <3>1, <3>3, MarkReceiptSettles
        <3> HIDE DEF last
        <3> QED
            BY <3>2, <3>4 DEF Settlement
    <2>3. \A i \in 0..(n + 1) : Settlement(Ledger, f[i])
        <3> TAKE i \in 0..(n + 1)
        <3>1. i = n + 1 \/ i \in 0..n
            OBVIOUS
        <3> HIDE DEF last
        <3> QED
            BY <2>1, <2>2, <3>1
    <2>4. \A i \in 0..n : f[i] = g[i] /\ g[i] = LoopStep(receipts, g, i)
        <3> TAKE i \in 0..n
        <3>1. i \in 0..(n + 1) /\ i # n + 1
            OBVIOUS
        <3>2. f[i] = g[i]
            BY <3>1
        <3>3. g = [k \in 0..n |-> LoopStep(receipts, g, k)]
            BY <2>1 DEF IsLoop
        <3> HIDE DEF f
        <3>4. g[i] = LoopStep(receipts, g, i)
            BY ONLY <3>3, i \in 0..n
        <3> QED
            BY <3>2, <3>4
    <2>5. \A i \in 0..(n + 1) : f[i] = LoopStep(receipts, f, i)
        <3> TAKE i \in 0..(n + 1)
        <3>1. CASE i = n + 1
            BY <3>1, <2>4 DEF LoopStep
        <3>2. CASE i # n + 1
            <4>1. i \in 0..n /\ (i # 0 => i - 1 \in 0..n)
                BY <3>2
            <4>2. f[i] = LoopStep(receipts, g, i) /\ (i # 0 => f[i - 1] = g[i - 1])
                BY <4>1, <2>4
            <4> HIDE DEF f
            <4> QED
                BY <4>2 DEF LoopStep
        <3> QED
            BY <3>1, <3>2
    <2>6. IsLoop(receipts, n + 1, f)
        <3> HIDE DEF last
        <3> QED
            BY <2>5 DEF IsLoop
    <2> HIDE DEF f
    <2> QED
        BY <2>3, <2>6
<1> HIDE DEF S
<1>3. \A n \in Nat : n \in S
    BY <1>1, <1>2, NatSetInduction
<1> QED
    BY <1>3 DEF S

\* All the receipts of a message.
LEMMA MarkedReceiptsSettle ==
    ASSUME NEW receipts \in Seq(Receipts), Ledger \in Ledgers
    PROVE  Settlement(Ledger, MarkedReceipts(receipts))
<1> DEFINE n == Len(receipts)
           f == CHOOSE after : IsLoop(receipts, n, after)
<1>1. n \in Nat
    BY LenProperties
<1>2. PICK g : IsLoop(receipts, n, g) /\ \A i \in 0..n : Settlement(Ledger, g[i])
    BY <1>1, LoopExists
<1>3. IsLoop(receipts, n, f)
    BY <1>2
<1>4. MarkedReceipts(receipts) = f[n]
    BY DEF MarkedReceipts, IsLoop, LoopStep, Ledger
<1> HIDE DEF f
<1> DEFINE S == {i \in Nat : i <= n => f[i] = g[i]}
<1>5. \A i \in 0..n : f[i] = LoopStep(receipts, f, i) /\ g[i] = LoopStep(receipts, g, i)
    BY <1>1, <1>2, <1>3 DEF IsLoop
<1>6. 0 \in S
    BY <1>1, <1>5 DEF LoopStep
<1>7. ASSUME NEW i \in Nat, i \in S PROVE i + 1 \in S
    <2> SUFFICES ASSUME i + 1 <= n PROVE f[i + 1] = g[i + 1]
        OBVIOUS
    <2>1. f[i] = g[i] /\ i + 1 \in 0..n /\ i + 1 # 0 /\ (i + 1) - 1 = i
        BY <1>1, <1>7
    <2> QED
        BY <1>5, <2>1 DEF LoopStep
<1> HIDE DEF S
<1>8. \A i \in Nat : i \in S
    BY <1>6, <1>7, NatSetInduction
<1>9. f[n] = g[n]
    BY <1>1, <1>8 DEF S
<1> QED
    BY <1>1, <1>2, <1>4, <1>9

-----------------------------------------------------------------------------
(* What the operations do, for the invariants to follow                    *)

\* The type invariant but for the messages signed, which all steps set alike.
CallsTypeOK ==
    /\ StackTypeOK
    /\ sendEntered \in BOOLEAN /\ receiveEntered \in BOOLEAN
    /\ latestMessageID \in 0..MaxSent
    /\ Ledger \in Ledgers
    /\ carriedReceipts \in [SentIDs -> Seq(ReceivedIDs)]
    /\ receiptQueue \in Seq(ReceivedIDs)
    /\ received \subseteq ReceivedIDs /\ failed \subseteq received
    /\ executed \in [ReceivedIDs -> Nat]
    /\ holdings \in Nat

LEMMA TypeParts == TypeOK <=> CallsTypeOK /\ accepted \in 0..latestMessageID
BY DEF TypeOK, CallsTypeOK, StackTypeOK, Ledger, Ledgers

NewID == latestMessageID + 1
SendFrame(carried) ==
    [op |-> "send", id |-> NewID, carried |-> carried, balanceBefore |-> holdings, moved |-> FALSE]
AddFeeFrame(id) ==
    [op |-> "addFee", id |-> id, carried |-> << >>, balanceBefore |-> holdings, moved |-> FALSE]
ReceiveFrame(id, receipts) == [op |-> "receive", id |-> id, receipts |-> receipts]
RetryFrame(id) == [op |-> "retry", id |-> id, receipts |-> << >>]
RedeemFrame(r) == [op |-> "redeem", amount |-> rewards[r], moved |-> FALSE]

\* The receipts that a message takes, and what stays in the queue.
Taken(carried) ==
    /\ carried \in Seq(ReceivedIDs) /\ receiptQueue' \in Seq(ReceivedIDs)
    /\ \A id \in ReceivedIDs :
          IsIn(id, receiptQueue) => IsIn(id, carried) \/ IsIn(id, receiptQueue')

LEMMA BatchTaken ==
    ASSUME receiptQueue \in Seq(ReceivedIDs), receiptQueue' = QueueAfterSending(receiptQueue)
    PROVE  Taken(OutstandingReceipts(receiptQueue))
<1> DEFINE n == NumberToSend(receiptQueue)
<1>1. n \in 0..Len(receiptQueue)
    BY MaxReceiptCountAssumption, LenProperties DEF NumberToSend
<1>2. /\ OutstandingReceipts(receiptQueue) = SubSeq(receiptQueue, 1, n)
      /\ receiptQueue' = SubSeq(receiptQueue, n + 1, Len(receiptQueue))
    BY DEF OutstandingReceipts, QueueAfterSending
<1> HIDE DEF n
<1> DEFINE out  == SubSeq(receiptQueue, 1, n)
           rest == SubSeq(receiptQueue, n + 1, Len(receiptQueue))
<1>3. /\ out \in Seq(ReceivedIDs) /\ rest \in Seq(ReceivedIDs)
      /\ \A j \in DOMAIN receiptQueue :
             \/ \E i \in DOMAIN out : out[i] = receiptQueue[j]
             \/ \E i \in DOMAIN rest : rest[i] = receiptQueue[j]
    BY <1>1, SplitProperties
<1> HIDE DEF out, rest
<1>4. OutstandingReceipts(receiptQueue) = out /\ receiptQueue' = rest
    BY <1>2 DEF out, rest
<1> QED
    BY <1>3, <1>4 DEF Taken, IsIn

\* The beginning of a message that waits for its fee, and a message without one.
BeganSend(carried) ==
    /\ ~sendEntered /\ NewID \in SentIDs /\ latestMessageID' = NewID /\ Taken(carried)
    /\ SendFrame(carried) \in Frames /\ Pushed(SendFrame(carried)) /\ sendEntered' = TRUE
    /\ stored' = stored /\ feeAmounts' = feeAmounts /\ carriedReceipts' = carriedReceipts
    /\ receiveEntered' = receiveEntered /\ UNCHANGED receiverVars /\ UNCHANGED moneyVars

SentAtOnce(carried) ==
    /\ ~sendEntered /\ NewID \in SentIDs /\ latestMessageID' = NewID /\ Taken(carried)
    /\ Store(NewID, carried, 0)
    /\ stack' = stack /\ UNCHANGED guardVars /\ UNCHANGED receiverVars /\ UNCHANGED moneyVars

LEMMA SendEffect ==
    ASSUME CallsTypeOK, SendStep
    PROVE  \E carried : BeganSend(carried) \/ SentAtOnce(carried)
<1>0. NewID <= MaxSent => NewID \in SentIDs
    BY ReentrantAssumption DEF CallsTypeOK, NewID, SentIDs
<1>1. ASSUME NEW carried, NEW withFee \in BOOLEAN, BeginSend(carried, withFee), Taken(carried),
             receiveEntered' = receiveEntered, UNCHANGED receiverVars, UNCHANGED moneyVars
      PROVE  BeganSend(carried) \/ SentAtOnce(carried)
    <2>1. /\ ~sendEntered /\ NewID \in SentIDs /\ latestMessageID' = NewID
        BY <1>0, <1>1 DEF BeginSend, NewID, SenderNonReentrant
    <2>2. CASE withFee
        <3>1. SendFrame(carried) \in Frames
            BY <1>1, <2>1 DEF SendFrame, Frames, DepositFrames, CallsTypeOK, Taken
        <3>2. /\ Call(SendFrame(carried)) /\ sendEntered' = TRUE
              /\ stored' = stored /\ feeAmounts' = feeAmounts /\ carriedReceipts' = carriedReceipts
            BY <1>1, <2>2 DEF BeginSend, SendFrame, NewID
        <3>3. Pushed(SendFrame(carried))
            BY <3>1, <3>2, CallPushes DEF CallsTypeOK
        <3> QED
            BY <1>1, <2>1, <3>1, <3>2, <3>3 DEF BeganSend
    <2>3. CASE ~withFee
        BY <1>1, <2>1, <2>3 DEF BeginSend, SentAtOnce, NewID, guardVars
    <2> QED
        BY <2>2, <2>3
<1>2. PICK withFee \in BOOLEAN :
          \/ SendCrossChainMessage(withFee)
          \/ \E id \in ReceivedIDs : SendSpecifiedReceipts(id, withFee)
    BY DEF SendStep
<1>3. CASE SendCrossChainMessage(withFee)
    <2>1. Taken(OutstandingReceipts(receiptQueue))
        BY <1>3, BatchTaken DEF SendCrossChainMessage, CallsTypeOK
    <2> QED
        BY <1>1, <1>3, <2>1 DEF SendCrossChainMessage
<1>4. ASSUME NEW id \in ReceivedIDs, SendSpecifiedReceipts(id, withFee)
      PROVE  \E carried : BeganSend(carried) \/ SentAtOnce(carried)
    <2>1. Taken(<< id >>)
        BY <1>4 DEF Taken, SendSpecifiedReceipts, CallsTypeOK
    <2> QED
        BY <1>1, <1>4, <2>1 DEF SendSpecifiedReceipts
<1> QED
    BY <1>2, <1>3, <1>4

\* What is settled at the end of a delivery.
LEMMA FinishEffect ==
    ASSUME CallsTypeOK, NEW id \in ReceivedIDs, NEW receipts \in Seq(Receipts),
           FinishReceive(id, receipts)
    PROVE  /\ Ledger' \in Ledgers /\ stored' \subseteq stored /\ Worth(Ledger') = Worth(Ledger)
           /\ receiptQueue' = Append(receiptQueue, id) /\ receiptQueue' \in Seq(ReceivedIDs)
           /\ latestMessageID' = latestMessageID /\ carriedReceipts' = carriedReceipts
           /\ holdings' = holdings
<1> DEFINE after == MarkedReceipts(receipts)
<1>1. Settlement(Ledger, after)
    BY MarkedReceiptsSettle DEF CallsTypeOK
<1>2. Ledger' = [stored |-> after.stored, fees |-> after.fees, rewards |-> after.rewards]
    BY DEF FinishReceive, Ledger
<1> HIDE DEF after
<1>3. Ledger' = after
    BY <1>1, <1>2 DEF Settlement, Ledgers
<1>4. Ledger.stored = stored /\ Ledger'.stored = stored'
    BY DEF Ledger
<1>5. receiptQueue' = Append(receiptQueue, id) /\ receiptQueue' \in Seq(ReceivedIDs)
    BY AppendProperties DEF FinishReceive, CallsTypeOK
<1> QED
    BY <1>1, <1>3, <1>4, <1>5 DEF Settlement, FinishReceive

LEMMA StackStaysTyped ==
    ASSUME StackTypeOK, (\E frame : Pushed(frame)) \/ Popped \/ TopMoved \/ stack' = stack
    PROVE  StackTypeOK'
<1>0. Len(stack) \in Nat /\ MaxDepth \in Nat /\ Len(stack) <= MaxDepth
    BY StackFacts, ReentrantAssumption DEF StackTypeOK
<1>1. CASE \E frame : Pushed(frame)
    BY <1>1 DEF StackTypeOK, Pushed
<1>2. CASE Popped
    BY <1>0, <1>2 DEF StackTypeOK, Popped
<1>3. CASE TopMoved
    BY <1>0, <1>3 DEF StackTypeOK, TopMoved
<1>4. CASE stack' = stack
    BY <1>4 DEF StackTypeOK
<1> QED
    BY <1>1, <1>2, <1>3, <1>4

LEMMA KnownReceiptsType == KnownReceipts \subseteq Seq(Receipts)
<1>1. ASSUME NEW n \in 0..MaxReceipts,
             NEW s \in [1..n -> {r \in Receipts : r.receivedMessageID <= accepted}]
      PROVE  s \in Seq(Receipts)
    <2>1. n \in Nat /\ s \in [1..n -> Receipts]
        BY ReentrantAssumption
    <2> QED
        BY <2>1
<1> QED
    BY <1>1 DEF KnownReceipts

\* What each of the last calls leaves when it returns.
LEMMA EndPops ==
    ASSUME StackTypeOK, EndSend \/ EndAddFeeAmount \/ EndReceive \/ EndRetryExecution \/ EndRedeem
    PROVE  Popped
<1>1. Len(stack) > 0 /\ Return
    BY StackFacts DEF EndSend, EndAddFeeAmount, EndReceive, EndRetryExecution, EndRedeem, TopIs
<1> QED
    BY <1>1, ReturnPops

LEMMA DepositTop ==
    ASSUME StackTypeOK, TopIs(Deposits)
    PROVE  /\ Top.id \in SentIDs /\ Top.carried \in Seq(ReceivedIDs) /\ Top.balanceBefore \in Nat
           /\ Len(stack) \in Open(Deposits)
<1>1. Top \in Frames /\ Top.op \in Deposits /\ Len(stack) \in Open(Deposits)
    BY TopIsOpen
<1> QED
    BY <1>1 DEF Frames, DepositFrames, RedeemFrames, ExecuteFrames, Deposits

LEMMA ExecuteTop ==
    ASSUME StackTypeOK, TopIs(Executions)
    PROVE  /\ Top.id \in ReceivedIDs /\ Top.receipts \in Seq(Receipts)
           /\ Len(stack) \in Open(Executions)
<1>1. Top \in Frames /\ Top.op \in Executions /\ Len(stack) \in Open(Executions)
    BY TopIsOpen
<1> QED
    BY <1>1 DEF Frames, DepositFrames, RedeemFrames, ExecuteFrames, Executions

LEMMA RedeemTop ==
    ASSUME StackTypeOK, TopIs({"redeem"})
    PROVE  Top \in Frames /\ Top.op = "redeem" /\ Top.amount \in Nat
<1>1. Top \in Frames /\ Top.op = "redeem"
    BY TopIsOpen
<1> QED
    BY <1>1 DEF Frames, DepositFrames, RedeemFrames, ExecuteFrames

\* What each call pushes when it begins.
LEMMA BeginPushes ==
    ASSUME CallsTypeOK
    PROVE  /\ \A id \in SentIDs : AddFeeAmount(id) =>
                  AddFeeFrame(id) \in Frames /\ Pushed(AddFeeFrame(id))
           /\ \A id \in ReceivedIDs, receipts \in Seq(Receipts) : BeginReceive(id, receipts) =>
                  ReceiveFrame(id, receipts) \in Frames /\ Pushed(ReceiveFrame(id, receipts))
           /\ \A id \in ReceivedIDs : BeginRetryExecution(id) =>
                  RetryFrame(id) \in Frames /\ Pushed(RetryFrame(id))
           /\ \A r \in Relayers : BeginRedeem(r) =>
                  RedeemFrame(r) \in Frames /\ Pushed(RedeemFrame(r))
<1>0. StackTypeOK /\ holdings \in Nat /\ rewards \in [Relayers -> Nat]
    BY DEF CallsTypeOK, Ledger, Ledgers
<1>1. ASSUME NEW id \in SentIDs, AddFeeAmount(id)
      PROVE  AddFeeFrame(id) \in Frames /\ Pushed(AddFeeFrame(id))
    <2>1. AddFeeFrame(id) \in Frames
        BY <1>0 DEF AddFeeFrame, Frames, DepositFrames
    <2>2. Call(AddFeeFrame(id))
        BY <1>1 DEF AddFeeAmount, AddFeeFrame
    <2> QED
        BY <1>0, <2>1, <2>2, CallPushes
<1>2. ASSUME NEW id \in ReceivedIDs, NEW receipts \in Seq(Receipts), BeginReceive(id, receipts)
      PROVE  ReceiveFrame(id, receipts) \in Frames /\ Pushed(ReceiveFrame(id, receipts))
    <2>1. ReceiveFrame(id, receipts) \in Frames
        BY DEF ReceiveFrame, Frames, ExecuteFrames
    <2>2. Call(ReceiveFrame(id, receipts))
        BY <1>2 DEF BeginReceive, ReceiveFrame
    <2> QED
        BY <1>0, <2>1, <2>2, CallPushes
<1>3. ASSUME NEW id \in ReceivedIDs, BeginRetryExecution(id)
      PROVE  RetryFrame(id) \in Frames /\ Pushed(RetryFrame(id))
    <2>1. RetryFrame(id) \in Frames
        BY DEF RetryFrame, Frames, ExecuteFrames
    <2>2. Call(RetryFrame(id))
        BY <1>3 DEF BeginRetryExecution, RetryFrame
    <2> QED
        BY <1>0, <2>1, <2>2, CallPushes
<1>4. ASSUME NEW r \in Relayers, BeginRedeem(r)
      PROVE  RedeemFrame(r) \in Frames /\ Pushed(RedeemFrame(r))
    <2>1. RedeemFrame(r) \in Frames
        BY <1>0 DEF RedeemFrame, Frames, RedeemFrames
    <2>2. Call(RedeemFrame(r))
        BY <1>4 DEF BeginRedeem, RedeemFrame
    <2> QED
        BY <1>0, <2>1, <2>2, CallPushes
<1> QED
    BY <1>1, <1>2, <1>3, <1>4

LEMMA MoveEffect ==
    ASSUME StackTypeOK, (\E amount \in 1..MaxFee : MoveTokensIn(amount)) \/ MoveTokensOut
    PROVE  TopMoved /\ TopIs(Deposits \cup {"redeem"})
<1>1. TopIs(Deposits \cup {"redeem"}) /\ stack' = [stack EXCEPT ![Len(stack)] = Moved(Top)]
    BY DEF MoveTokensIn, MoveTokensOut, TopIs, Deposits
<1> QED
    BY <1>1, MoveMoves

-----------------------------------------------------------------------------
(* Type correctness                                                        *)

\* Every step keeps the types, and no ID is given back.
LEMMA StepKeepsTypes ==
    ASSUME CallsTypeOK, Step
    PROVE  CallsTypeOK' /\ latestMessageID <= latestMessageID'
<1> USE DEF CallsTypeOK
<1>0. /\ stored \subseteq SentIDs /\ feeAmounts \in [SentIDs -> Nat] /\ rewards \in [Relayers -> Nat]
      /\ latestMessageID \in Nat /\ MaxSent \in Nat
    BY ReentrantAssumption DEF Ledger, Ledgers
<1>1. ASSUME stored' \subseteq SentIDs, feeAmounts' \in [SentIDs -> Nat],
             rewards' \in [Relayers -> Nat]
      PROVE  Ledger' \in Ledgers
    BY <1>1 DEF Ledger, Ledgers
<1>2. CASE SendStep
    <2>1. PICK carried : BeganSend(carried) \/ SentAtOnce(carried)
        BY <1>2, SendEffect
    <2>2. CASE BeganSend(carried)
        <3>1. StackTypeOK'
            BY <2>2, StackStaysTyped DEF BeganSend
        <3>2. Ledger' \in Ledgers
            BY <1>0, <1>1, <2>2 DEF BeganSend, moneyVars
        <3> QED
            BY <1>0, <2>2, <3>1, <3>2 DEF BeganSend, receiverVars, moneyVars, Taken, NewID, SentIDs
    <2>3. CASE SentAtOnce(carried)
        <3>1. StackTypeOK'
            BY <2>3, StackStaysTyped DEF SentAtOnce
        <3>2. Ledger' \in Ledgers
            BY <1>0, <1>1, <2>3 DEF SentAtOnce, Store, moneyVars
        <3>3. carriedReceipts' \in [SentIDs -> Seq(ReceivedIDs)]
            BY <2>3 DEF SentAtOnce, Store, Taken
        <3> QED
            BY <1>0, <2>3, <3>1, <3>2, <3>3
               DEF SentAtOnce, guardVars, receiverVars, moneyVars, Taken, NewID, SentIDs
    <2> QED
        BY <2>1, <2>2, <2>3
<1>3. CASE EndSend
    <2>1. Popped /\ Top.id \in SentIDs /\ Top.carried \in Seq(ReceivedIDs)
          /\ BalanceIncrease \in Nat
        <3>1. TopIs(Deposits) /\ holdings > Top.balanceBefore
            BY <1>3 DEF EndSend, TopIs, Deposits
        <3>2. Top.balanceBefore \in Nat /\ Top.id \in SentIDs /\ Top.carried \in Seq(ReceivedIDs)
            BY <3>1, DepositTop
        <3> QED
            BY <1>3, <3>1, <3>2, EndPops DEF BalanceIncrease
    <2>2. StackTypeOK'
        BY <2>1, StackStaysTyped
    <2>3. Ledger' \in Ledgers
        BY <1>0, <1>1, <1>3, <2>1 DEF EndSend, StoreSent, Store, moneyVars
    <2>4. carriedReceipts' \in [SentIDs -> Seq(ReceivedIDs)]
        BY <1>3, <2>1 DEF EndSend, StoreSent, Store
    <2>5. /\ latestMessageID' = latestMessageID /\ receiptQueue' = receiptQueue
          /\ received' = received /\ failed' = failed /\ executed' = executed
          /\ holdings' = holdings
        BY <1>3 DEF EndSend, receiverVars, moneyVars
    <2>6. sendEntered' \in BOOLEAN /\ receiveEntered' \in BOOLEAN
        BY <1>3, Zenon DEF EndSend
    <2> QED
        BY <1>0, <2>2, <2>3, <2>4, <2>5, <2>6
<1>4. ASSUME NEW id \in SentIDs, AddFeeAmount(id)
      PROVE  CallsTypeOK' /\ latestMessageID <= latestMessageID'
    <2>1. StackTypeOK'
        BY <1>4, BeginPushes, StackStaysTyped
    <2>2. Ledger' \in Ledgers
        BY <1>0, <1>1, <1>4 DEF AddFeeAmount, senderVars, moneyVars
    <2> QED
        BY <1>0, <1>4, <2>1, <2>2 DEF AddFeeAmount, senderVars, receiverVars, moneyVars
<1>5. CASE EndAddFeeAmount
    <2>1. Popped /\ Top.id \in SentIDs /\ BalanceIncrease \in Nat
        <3>1. TopIs(Deposits) /\ holdings > Top.balanceBefore
            BY <1>5 DEF EndAddFeeAmount, TopIs, Deposits
        <3>2. Top.balanceBefore \in Nat /\ Top.id \in SentIDs
            BY <3>1, DepositTop
        <3> QED
            BY <1>5, <3>1, <3>2, EndPops DEF BalanceIncrease
    <2>2. StackTypeOK'
        BY <2>1, StackStaysTyped
    <2>3. feeAmounts' \in [SentIDs -> Nat]
        <3>1. feeAmounts[Top.id] + BalanceIncrease \in Nat
            BY <1>0, <2>1
        <3> QED
            BY <1>0, <1>5, <3>1 DEF EndAddFeeAmount, AddToFee
    <2>4. Ledger' \in Ledgers
        BY <1>0, <1>1, <1>5, <2>3 DEF EndAddFeeAmount, AddToFee, moneyVars
    <2>5. /\ latestMessageID' = latestMessageID /\ receiptQueue' = receiptQueue
          /\ carriedReceipts' = carriedReceipts
          /\ received' = received /\ failed' = failed /\ executed' = executed
          /\ holdings' = holdings
        BY <1>5 DEF EndAddFeeAmount, receiverVars, moneyVars
    <2>6. sendEntered' \in BOOLEAN /\ receiveEntered' \in BOOLEAN
        BY <1>5, Zenon DEF EndAddFeeAmount
    <2> QED
        BY <1>0, <2>2, <2>4, <2>5, <2>6
<1>6. ASSUME NEW amount \in 1..MaxFee, MoveTokensIn(amount)
      PROVE  CallsTypeOK' /\ latestMessageID <= latestMessageID'
    <2>1. StackTypeOK'
        BY <1>6, MoveEffect, StackStaysTyped
    <2>2. Ledger' \in Ledgers
        BY <1>0, <1>1, <1>6 DEF MoveTokensIn, senderVars
    <2>3. holdings' \in Nat
        BY <1>6, ReentrantAssumption DEF MoveTokensIn
    <2> QED
        BY <1>0, <1>6, <2>1, <2>2, <2>3 DEF MoveTokensIn, guardVars, senderVars, receiverVars
<1>7. CASE MoveTokensOut
    <2>1. StackTypeOK'
        BY <1>7, MoveEffect, StackStaysTyped
    <2>2. Ledger' \in Ledgers
        BY <1>0, <1>1, <1>7 DEF MoveTokensOut, senderVars
    <2>3. holdings' \in Nat
        BY <1>7, RedeemTop DEF MoveTokensOut
    <2> QED
        BY <1>0, <1>7, <2>1, <2>2, <2>3 DEF MoveTokensOut, guardVars, senderVars, receiverVars
<1>8. ASSUME NEW id \in ReceivedIDs, NEW receipts \in Seq(Receipts), BeginReceive(id, receipts)
      PROVE  CallsTypeOK' /\ latestMessageID <= latestMessageID'
    <2>1. StackTypeOK'
        BY <1>8, BeginPushes, StackStaysTyped
    <2>2. Ledger' \in Ledgers
        BY <1>0, <1>1, <1>8 DEF BeginReceive, senderVars, moneyVars
    <2> QED
        BY <1>0, <1>8, <2>1, <2>2 DEF BeginReceive, senderVars, moneyVars
<1>9. ASSUME NEW id \in ReceivedIDs, NEW receipts \in Seq(Receipts), NEW nonEmpty \in BOOLEAN,
             ReceiveUnexecuted(id, receipts, nonEmpty)
      PROVE  CallsTypeOK' /\ latestMessageID <= latestMessageID'
    <2>1. StackTypeOK'
        BY <1>9, StackStaysTyped DEF ReceiveUnexecuted
    <2>2. /\ Ledger' \in Ledgers /\ receiptQueue' \in Seq(ReceivedIDs)
          /\ latestMessageID' = latestMessageID /\ carriedReceipts' = carriedReceipts
          /\ holdings' = holdings
        BY <1>9, FinishEffect DEF ReceiveUnexecuted
    <2>3. received' \subseteq ReceivedIDs /\ failed' \subseteq received'
        BY <1>9 DEF ReceiveUnexecuted
    <2> QED
        BY <1>0, <1>9, <2>1, <2>2, <2>3 DEF ReceiveUnexecuted, guardVars
<1>10. CASE EndReceive
    <2>1. Popped /\ Top.id \in ReceivedIDs /\ Top.receipts \in Seq(Receipts)
        BY <1>10, EndPops, ExecuteTop DEF EndReceive, Executions, TopIs
    <2>2. StackTypeOK'
        BY <2>1, StackStaysTyped
    <2>3. /\ Ledger' \in Ledgers /\ receiptQueue' \in Seq(ReceivedIDs)
          /\ latestMessageID' = latestMessageID /\ carriedReceipts' = carriedReceipts
          /\ holdings' = holdings
        BY <1>10, <2>1, FinishEffect DEF EndReceive
    <2>4. executed' \in [ReceivedIDs -> Nat]
        BY <1>10, <2>1 DEF EndReceive
    <2>5. /\ received' = received /\ failed' = failed
        BY <1>10 DEF EndReceive
    <2>6. sendEntered' \in BOOLEAN /\ receiveEntered' \in BOOLEAN
        BY <1>10, Zenon DEF EndReceive
    <2> QED
        BY <1>0, <2>2, <2>3, <2>4, <2>5, <2>6
<1>11. ASSUME NEW id \in ReceivedIDs, BeginRetryExecution(id)
       PROVE  CallsTypeOK' /\ latestMessageID <= latestMessageID'
    <2>1. StackTypeOK'
        BY <1>11, BeginPushes, StackStaysTyped
    <2>2. Ledger' \in Ledgers
        BY <1>0, <1>1, <1>11 DEF BeginRetryExecution, senderVars, moneyVars
    <2> QED
        BY <1>0, <1>11, <2>1, <2>2 DEF BeginRetryExecution, ClearFailed, senderVars, moneyVars
<1>12. CASE EndRetryExecution
    <2>1. Popped /\ Top.id \in ReceivedIDs
        BY <1>12, EndPops, ExecuteTop DEF EndRetryExecution, Executions, TopIs
    <2>2. StackTypeOK'
        BY <2>1, StackStaysTyped
    <2>3. executed' \in [ReceivedIDs -> Nat]
        BY <1>12, <2>1 DEF EndRetryExecution
    <2>4. Ledger' \in Ledgers
        BY <1>0, <1>1, <1>12 DEF EndRetryExecution, senderVars, moneyVars
    <2>5. /\ latestMessageID' = latestMessageID /\ receiptQueue' = receiptQueue
          /\ carriedReceipts' = carriedReceipts
          /\ received' = received /\ failed' = failed /\ holdings' = holdings
        BY <1>12 DEF EndRetryExecution, senderVars, moneyVars
    <2>6. sendEntered' \in BOOLEAN /\ receiveEntered' \in BOOLEAN
        BY <1>12, Zenon DEF EndRetryExecution
    <2> QED
        BY <1>0, <2>2, <2>3, <2>4, <2>5, <2>6
<1>13. ASSUME NEW r \in Relayers, BeginRedeem(r)
       PROVE  CallsTypeOK' /\ latestMessageID <= latestMessageID'
    <2>1. StackTypeOK'
        BY <1>13, BeginPushes, StackStaysTyped
    <2>2. Ledger' \in Ledgers
        BY <1>0, <1>1, <1>13 DEF BeginRedeem, senderVars
    <2> QED
        BY <1>0, <1>13, <2>1, <2>2 DEF BeginRedeem, guardVars, senderVars, receiverVars
<1>14. CASE EndRedeem
    <2>1. StackTypeOK'
        BY <1>14, EndPops, StackStaysTyped
    <2>2. Ledger' \in Ledgers
        BY <1>0, <1>1, <1>14 DEF EndRedeem, senderVars, moneyVars
    <2> QED
        BY <1>0, <1>14, <2>1, <2>2 DEF EndRedeem, guardVars, senderVars, receiverVars, moneyVars
<1> QED
    BY <1>2, <1>3, <1>4, <1>5, <1>6, <1>7, <1>8, <1>9, <1>10, <1>11, <1>12, <1>13, <1>14,
       KnownReceiptsType DEF Step, ReceiveStep

-----------------------------------------------------------------------------
(* The guards                                                              *)

OneSends ==
    /\ \A i, j \in Open(Deposits) : i = j
    /\ sendEntered <=> Open(Deposits) # {}

OneReceives ==
    /\ \A i, j \in Open(Executions) : i = j
    /\ receiveEntered <=> Open(Executions) # {}

LEMMA GuardParts == NoRecursion <=> OneSends /\ OneReceives
BY DEF NoRecursion, OneSends, OneReceives, Deposits, Executions

\* Where nothing of a kind begins or ends, its guard is right as it was.
LEMMA SendGuardKept ==
    ASSUME OneSends, Open(Deposits)' = Open(Deposits), sendEntered' = sendEntered
    PROVE  OneSends'
BY Zenon DEF OneSends

LEMMA ReceiveGuardKept ==
    ASSUME OneReceives, Open(Executions)' = Open(Executions), receiveEntered' = receiveEntered
    PROVE  OneReceives'
BY Zenon DEF OneReceives

\* A call that its guard admits is the only one, and ends as the only one.
LEMMA SendGuardSet ==
    ASSUME OneSends, ~sendEntered, NEW k, Open(Deposits)' = Open(Deposits) \cup {k},
           sendEntered' = TRUE
    PROVE  OneSends'
<1>1. Open(Deposits) = {}
    BY Zenon DEF OneSends
<1>2. Open(Deposits)' = {k}
    BY <1>1
<1> QED
    BY <1>2, Zenon DEF OneSends

LEMMA ReceiveGuardSet ==
    ASSUME OneReceives, ~receiveEntered, NEW k, Open(Executions)' = Open(Executions) \cup {k},
           receiveEntered' = TRUE
    PROVE  OneReceives'
<1>1. Open(Executions) = {}
    BY Zenon DEF OneReceives
<1>2. Open(Executions)' = {k}
    BY <1>1
<1> QED
    BY <1>2, Zenon DEF OneReceives

LEMMA SendGuardCleared ==
    ASSUME OneSends, NEW k \in Open(Deposits), Open(Deposits)' = Open(Deposits) \ {k},
           sendEntered' = FALSE
    PROVE  OneSends' /\ Open(Deposits)' = {}
<1>1. \A i \in Open(Deposits) : i = k
    BY Zenon DEF OneSends
<1>2. Open(Deposits)' = {}
    BY <1>1
<1> QED
    BY <1>2, Zenon DEF OneSends

LEMMA ReceiveGuardCleared ==
    ASSUME OneReceives, NEW k \in Open(Executions), Open(Executions)' = Open(Executions) \ {k},
           receiveEntered' = FALSE
    PROVE  OneReceives' /\ Open(Executions)' = {}
<1>1. \A i \in Open(Executions) : i = k
    BY Zenon DEF OneReceives
<1>2. Open(Executions)' = {}
    BY <1>1
<1> QED
    BY <1>2, Zenon DEF OneReceives

\* Which calls begin and end at each step.
CallBegins(ops, k) == Open(ops)' = Open(ops) \cup {k}
CallEnds(ops) ==
    /\ Len(stack) \in Open(ops)
    /\ Open(ops)' = Open(ops) \ {Len(stack)}
CallsStay(ops) == Open(ops)' = Open(ops)

LEMMA PushBegins ==
    ASSUME StackTypeOK, NEW frame, Pushed(frame), NEW ops
    PROVE  /\ frame.op \in ops => CallBegins(ops, Len(stack) + 1)
           /\ frame.op \notin ops => CallsStay(ops)
BY OpenPushed DEF CallBegins, CallsStay

LEMMA PopEnds ==
    ASSUME StackTypeOK, Popped, NEW ops
    PROVE  /\ TopIs(ops) => CallEnds(ops)
           /\ Top.op \notin ops => CallsStay(ops)
<1>1. Open(ops)' = Open(ops) \ {Len(stack)}
    BY OpenPopped
<1>2. TopIs(ops) => Len(stack) \in Open(ops)
    BY TopIsOpen
<1>3. Top.op \notin ops => Len(stack) \notin Open(ops)
    BY DEF Open, Top
<1> QED
    BY <1>1, <1>2, <1>3 DEF CallEnds, CallsStay

LEMMA StepKeepsGuards ==
    ASSUME CallsTypeOK, NoRecursion, Step
    PROVE  NoRecursion'
<1>0. StackTypeOK /\ OneSends /\ OneReceives
    BY GuardParts DEF CallsTypeOK
<1> SUFFICES OneSends' /\ OneReceives'
    BY DEF NoRecursion, OneSends, OneReceives, Deposits, Executions
<1>1. ASSUME CallsStay(Deposits), CallsStay(Executions), UNCHANGED guardVars
      PROVE  OneSends' /\ OneReceives'
    BY <1>0, <1>1, SendGuardKept, ReceiveGuardKept, Zenon DEF CallsStay, guardVars
<1>2. ASSUME NEW k, ~sendEntered, CallBegins(Deposits, k), sendEntered' = TRUE,
             CallsStay(Executions), receiveEntered' = receiveEntered
      PROVE  OneSends' /\ OneReceives'
    BY <1>0, <1>2, SendGuardSet, ReceiveGuardKept, Zenon DEF CallsStay, CallBegins
<1>3. ASSUME CallEnds(Deposits), sendEntered' = FALSE,
             CallsStay(Executions), receiveEntered' = receiveEntered
      PROVE  OneSends' /\ OneReceives'
    BY <1>0, <1>3, SendGuardCleared, ReceiveGuardKept, Zenon DEF CallsStay, CallEnds
<1>4. ASSUME NEW k, ~receiveEntered, CallBegins(Executions, k), receiveEntered' = TRUE,
             CallsStay(Deposits), sendEntered' = sendEntered
      PROVE  OneSends' /\ OneReceives'
    BY <1>0, <1>4, ReceiveGuardSet, SendGuardKept, Zenon DEF CallsStay, CallBegins
<1>5. ASSUME CallEnds(Executions), receiveEntered' = FALSE,
             CallsStay(Deposits), sendEntered' = sendEntered
      PROVE  OneSends' /\ OneReceives'
    BY <1>0, <1>5, ReceiveGuardCleared, SendGuardKept, Zenon DEF CallsStay, CallEnds
<1>6. CASE SendStep
    <2>1. PICK carried : BeganSend(carried) \/ SentAtOnce(carried)
        BY <1>6, SendEffect
    <2>2. CASE BeganSend(carried)
        <3>1. SendFrame(carried).op = "send" /\ Pushed(SendFrame(carried))
            BY <2>2 DEF BeganSend, SendFrame
        <3>2. CallBegins(Deposits, Len(stack) + 1) /\ CallsStay(Executions)
            BY <1>0, <3>1, PushBegins DEF Deposits, Executions
        <3>3. ~sendEntered /\ sendEntered' = TRUE /\ receiveEntered' = receiveEntered
            BY <2>2 DEF BeganSend
        <3> QED
            BY <1>2, <3>2, <3>3, Zenon
    <2>3. CASE SentAtOnce(carried)
        <3>1. CallsStay(Deposits) /\ CallsStay(Executions)
            BY <2>3 DEF SentAtOnce, CallsStay, Open
        <3> QED
            BY <1>1, <2>3, <3>1 DEF SentAtOnce
    <2> QED
        BY <2>1, <2>2, <2>3
<1>7. CASE EndSend \/ EndAddFeeAmount
    <2>1. Popped /\ TopIs(Deposits) /\ Top.op \notin Executions
        BY <1>0, <1>7, EndPops DEF EndSend, EndAddFeeAmount, TopIs, Deposits, Executions
    <2>2. CallEnds(Deposits) /\ CallsStay(Executions)
        BY <1>0, <2>1, PopEnds
    <2>3. sendEntered' = FALSE /\ receiveEntered' = receiveEntered
        BY <1>7, Zenon DEF EndSend, EndAddFeeAmount
    <2> QED
        BY <1>3, <2>2, <2>3, Zenon
<1>8. ASSUME NEW id \in SentIDs, AddFeeAmount(id) PROVE OneSends' /\ OneReceives'
    <2>1. AddFeeFrame(id).op = "addFee" /\ Pushed(AddFeeFrame(id))
        BY <1>8, BeginPushes DEF AddFeeFrame
    <2>2. CallBegins(Deposits, Len(stack) + 1) /\ CallsStay(Executions)
        BY <1>0, <2>1, PushBegins DEF Deposits, Executions
    <2>3. ~sendEntered /\ sendEntered' = TRUE /\ receiveEntered' = receiveEntered
        BY <1>8 DEF AddFeeAmount, SenderNonReentrant
    <2> QED
        BY <1>2, <2>2, <2>3, Zenon
<1>9. CASE (\E amount \in 1..MaxFee : MoveTokensIn(amount)) \/ MoveTokensOut
    <2>1. CallsStay(Deposits) /\ CallsStay(Executions)
        BY <1>0, <1>9, MoveEffect, OpenMoved DEF CallsStay
    <2>2. UNCHANGED guardVars
        BY <1>9 DEF MoveTokensIn, MoveTokensOut
    <2> QED
        BY <1>1, <2>1, <2>2
<1>10. ASSUME NEW id \in ReceivedIDs, NEW receipts \in Seq(Receipts), BeginReceive(id, receipts)
       PROVE  OneSends' /\ OneReceives'
    <2>1. ReceiveFrame(id, receipts).op = "receive" /\ Pushed(ReceiveFrame(id, receipts))
        BY <1>10, BeginPushes DEF ReceiveFrame
    <2>2. CallBegins(Executions, Len(stack) + 1) /\ CallsStay(Deposits)
        BY <1>0, <2>1, PushBegins DEF Deposits, Executions
    <2>3. ~receiveEntered /\ receiveEntered' = TRUE /\ sendEntered' = sendEntered
        BY <1>10 DEF BeginReceive, ReceiverNonReentrant
    <2> QED
        BY <1>4, <2>2, <2>3, Zenon
<1>11. ASSUME NEW id \in ReceivedIDs, NEW receipts \in Seq(Receipts), NEW nonEmpty \in BOOLEAN,
              ReceiveUnexecuted(id, receipts, nonEmpty)
       PROVE  OneSends' /\ OneReceives'
    <2>1. CallsStay(Deposits) /\ CallsStay(Executions) /\ UNCHANGED guardVars
        BY <1>11 DEF ReceiveUnexecuted, CallsStay, Open
    <2> QED
        BY <1>1, <2>1
<1>12. CASE EndReceive \/ EndRetryExecution
    <2>1. Popped /\ TopIs(Executions) /\ Top.op \notin Deposits
        BY <1>0, <1>12, EndPops DEF EndReceive, EndRetryExecution, TopIs, Deposits, Executions
    <2>2. CallEnds(Executions) /\ CallsStay(Deposits)
        BY <1>0, <2>1, PopEnds
    <2>3. receiveEntered' = FALSE /\ sendEntered' = sendEntered
        BY <1>12, Zenon DEF EndReceive, EndRetryExecution
    <2> QED
        BY <1>5, <2>2, <2>3, Zenon
<1>13. ASSUME NEW id \in ReceivedIDs, BeginRetryExecution(id) PROVE OneSends' /\ OneReceives'
    <2>1. RetryFrame(id).op = "retry" /\ Pushed(RetryFrame(id))
        BY <1>13, BeginPushes DEF RetryFrame
    <2>2. CallBegins(Executions, Len(stack) + 1) /\ CallsStay(Deposits)
        BY <1>0, <2>1, PushBegins DEF Deposits, Executions
    <2>3. ~receiveEntered /\ receiveEntered' = TRUE /\ sendEntered' = sendEntered
        BY <1>13 DEF BeginRetryExecution, ReceiverNonReentrant
    <2> QED
        BY <1>4, <2>2, <2>3, Zenon
<1>14. ASSUME NEW r \in Relayers, BeginRedeem(r) PROVE OneSends' /\ OneReceives'
    <2>1. RedeemFrame(r).op = "redeem" /\ Pushed(RedeemFrame(r))
        BY <1>14, BeginPushes DEF RedeemFrame
    <2>2. CallsStay(Deposits) /\ CallsStay(Executions)
        BY <1>0, <2>1, PushBegins DEF Deposits, Executions
    <2> QED
        BY <1>1, <1>14, <2>2 DEF BeginRedeem
<1>15. CASE EndRedeem
    <2>1. Popped /\ Top.op \notin Deposits /\ Top.op \notin Executions
        BY <1>0, <1>15, EndPops DEF EndRedeem, TopIs, Deposits, Executions
    <2>2. CallsStay(Deposits) /\ CallsStay(Executions)
        BY <1>0, <2>1, PopEnds
    <2> QED
        BY <1>1, <1>15, <2>2 DEF EndRedeem
<1> QED
    BY <1>6, <1>7, <1>8, <1>9, <1>10, <1>11, <1>12, <1>13, <1>14, <1>15, KnownReceiptsType
       DEF Step, ReceiveStep

-----------------------------------------------------------------------------
(* The fee tokens                                                          *)

\* While the transfer of a fee is measured, the tokens held before it cover all
\* that is owed: what comes in is not promised to anybody yet.
Measured == \A i \in Open(Deposits) : stack[i].balanceBefore >= Owed

OwedByLedger  == Worth(Ledger)
OwedByPayouts == SlotSum(Payouts, MaxDepth)

LEMMA OwedParts ==
    ASSUME CallsTypeOK
    PROVE  /\ OwedByLedger \in Nat /\ OwedByPayouts \in Nat /\ holdings \in Nat
           /\ Owed = OwedByLedger + OwedByPayouts /\ Owed \in Nat
           /\ \A i \in Open(Deposits) : stack[i].balanceBefore \in Nat
<1>1. /\ feeAmounts \in [1..MaxSent -> Nat] /\ rewards \in [1..R -> Nat]
      /\ MaxSent \in Nat /\ R \in Nat /\ holdings \in Nat /\ StackTypeOK
    BY ReentrantAssumption DEF CallsTypeOK, Ledger, Ledgers, SentIDs, Relayers
<1>2. SlotSum(feeAmounts, MaxSent) \in Nat /\ SlotSum(rewards, R) \in Nat
    BY <1>1, SlotSumType
<1>3. OwedByPayouts \in Nat
    BY <1>1, PayoutsType DEF OwedByPayouts
<1>4. /\ OwedByLedger = SlotSum(feeAmounts, MaxSent) + SlotSum(rewards, R)
      /\ Owed = SlotSum(feeAmounts, MaxSent) + SlotSum(rewards, R) + OwedByPayouts
    BY DEF OwedByLedger, OwedByPayouts, Owed, Worth, Ledger
<1>5. \A i \in Open(Deposits) : stack[i].balanceBefore \in Nat
    <2> TAKE i \in Open(Deposits)
    <2>1. stack[i] \in Frames /\ stack[i].op \in Deposits
        BY <1>1, StackFacts DEF Open
    <2> QED
        BY <2>1 DEF Frames, DepositFrames, RedeemFrames, ExecuteFrames, Deposits
<1> QED
    BY <1>1, <1>2, <1>3, <1>4, <1>5

LEMMA OwedNext == Owed' = OwedByLedger' + OwedByPayouts'
BY DEF Owed, OwedByLedger, OwedByPayouts, Worth, Ledger

\* The worth of the ledger when the fee of a message is set.
LEMMA FeeSet ==
    ASSUME CallsTypeOK, NEW id \in SentIDs, NEW fee \in Nat,
           feeAmounts' = [feeAmounts EXCEPT ![id] = fee], rewards' = rewards
    PROVE  OwedByLedger' = OwedByLedger - feeAmounts[id] + fee /\ feeAmounts[id] \in Nat
<1>1. /\ feeAmounts \in [1..MaxSent -> Nat] /\ rewards \in [1..R -> Nat]
      /\ MaxSent \in Nat /\ R \in Nat /\ id \in 1..MaxSent
    BY ReentrantAssumption DEF CallsTypeOK, Ledger, Ledgers, SentIDs, Relayers
<1>2. /\ feeAmounts' \in [1..MaxSent -> Nat] /\ feeAmounts'[id] = fee
      /\ Agree(feeAmounts, feeAmounts', MaxSent, id)
    BY <1>1 DEF Agree
<1>3. SlotSum(feeAmounts', MaxSent) = SlotSum(feeAmounts, MaxSent) - feeAmounts[id] + feeAmounts'[id]
    <2> DEFINE before == feeAmounts
               after  == feeAmounts'
    <2>1. /\ before \in [1..MaxSent -> Nat] /\ after \in [1..MaxSent -> Nat]
          /\ Agree(before, after, MaxSent, id)
        BY <1>1, <1>2
    <2> HIDE DEF before, after
    <2>2. SlotSum(after, MaxSent) = SlotSum(before, MaxSent) - before[id] + after[id]
        BY <1>1, <2>1, SumChanges
    <2> QED
        BY <2>2 DEF before, after
<1>4. SlotSum(feeAmounts, MaxSent) \in Nat /\ SlotSum(rewards, R) \in Nat /\ feeAmounts[id] \in Nat
    BY <1>1, SlotSumType
<1>5. /\ OwedByLedger = SlotSum(feeAmounts, MaxSent) + SlotSum(rewards, R)
      /\ OwedByLedger' = SlotSum(feeAmounts', MaxSent) + SlotSum(rewards, R)
    BY DEF OwedByLedger, Worth, Ledger
<1> QED
    BY <1>2, <1>3, <1>4, <1>5

LEMMA RewardTaken ==
    ASSUME CallsTypeOK, NEW r \in Relayers,
           rewards' = [rewards EXCEPT ![r] = 0], feeAmounts' = feeAmounts
    PROVE  OwedByLedger' = OwedByLedger - rewards[r] /\ rewards[r] \in Nat
<1>1. /\ feeAmounts \in [1..MaxSent -> Nat] /\ rewards \in [1..R -> Nat]
      /\ MaxSent \in Nat /\ R \in Nat /\ r \in 1..R
    BY ReentrantAssumption DEF CallsTypeOK, Ledger, Ledgers, SentIDs, Relayers
<1>2. /\ rewards' \in [1..R -> Nat] /\ rewards'[r] = 0 /\ Agree(rewards, rewards', R, r)
    BY <1>1 DEF Agree
<1>3. SlotSum(rewards', R) = SlotSum(rewards, R) - rewards[r] + rewards'[r]
    <2> DEFINE before == rewards
               after  == rewards'
    <2>1. /\ before \in [1..R -> Nat] /\ after \in [1..R -> Nat]
          /\ Agree(before, after, R, r)
        BY <1>1, <1>2
    <2> HIDE DEF before, after
    <2>2. SlotSum(after, R) = SlotSum(before, R) - before[r] + after[r]
        BY <1>1, <2>1, SumChanges
    <2> QED
        BY <2>2 DEF before, after
<1>4. SlotSum(feeAmounts, MaxSent) \in Nat /\ SlotSum(rewards, R) \in Nat /\ rewards[r] \in Nat
    BY <1>1, SlotSumType
<1>5. /\ OwedByLedger = SlotSum(feeAmounts, MaxSent) + SlotSum(rewards, R)
      /\ OwedByLedger' = SlotSum(feeAmounts, MaxSent) + SlotSum(rewards', R)
    BY DEF OwedByLedger, Worth, Ledger
<1> QED
    BY <1>2, <1>3, <1>4, <1>5

\* A step that owes no more, and pays no more than it no longer owes.
NoMoreOwed ==
    /\ Owed' <= Owed
    /\ \/ holdings' >= holdings
       \/ holdings - holdings' = Owed - Owed'

\* The calls whose transfers are measured go on unchanged.
SameDeposits ==
    \A i \in Open(Deposits)' :
        i \in Open(Deposits) /\ stack'[i].balanceBefore = stack[i].balanceBefore

LEMMA MoneyKept ==
    ASSUME CallsTypeOK, Solvent, Measured, NoMoreOwed, SameDeposits,
           holdings' \in Nat, Owed' \in Nat
    PROVE  Solvent' /\ Measured'
<1>1. Owed \in Nat /\ holdings \in Nat /\ \A i \in Open(Deposits) : stack[i].balanceBefore \in Nat
    BY OwedParts
<1>2. holdings >= Owed /\ \A i \in Open(Deposits) : stack[i].balanceBefore >= Owed
    BY DEF Solvent, Measured
<1>3. holdings' >= Owed'
    <2>1. \A h, o, hh, oo \in Nat :
             h >= o /\ oo <= o /\ (hh >= h \/ h - hh = o - oo) => hh >= oo
        OBVIOUS
    <2> HIDE DEF Owed
    <2> QED
        BY <1>1, <1>2, <2>1 DEF NoMoreOwed
<1>4. \A i \in Open(Deposits)' : stack'[i].balanceBefore >= Owed'
    <2> TAKE i \in Open(Deposits)'
    <2>1. i \in Open(Deposits) /\ stack'[i].balanceBefore = stack[i].balanceBefore
        BY DEF SameDeposits
    <2>2. stack[i].balanceBefore \in Nat /\ stack[i].balanceBefore >= Owed
        BY <1>1, <1>2, <2>1
    <2>3. \A b, o, oo \in Nat : b >= o /\ oo <= o => b >= oo
        OBVIOUS
    <2> QED
        BY <1>1, <2>1, <2>2, <2>3 DEF NoMoreOwed
<1> QED
    BY <1>3, <1>4 DEF Solvent, Measured

LEMMA OwedNextType ==
    ASSUME CallsTypeOK'
    PROVE  Owed' \in Nat /\ OwedByLedger' \in Nat /\ OwedByPayouts' \in Nat /\ holdings' \in Nat
<1>1. /\ feeAmounts' \in [1..MaxSent -> Nat] /\ rewards' \in [1..R -> Nat]
      /\ MaxSent \in Nat /\ R \in Nat /\ MaxDepth \in Nat /\ holdings' \in Nat
    BY ReentrantAssumption DEF CallsTypeOK, Ledger, Ledgers, SentIDs, Relayers
<1>2. SlotSum(feeAmounts', MaxSent) \in Nat /\ SlotSum(rewards', R) \in Nat
    BY <1>1, SlotSumType
<1>3. Payouts' \in [1..MaxDepth -> Nat]
    BY PayoutsNextType DEF CallsTypeOK, StackTypeOK
<1> DEFINE after == Payouts'
<1>4. SlotSum(after, MaxDepth) \in Nat
    <2>1. after \in [1..MaxDepth -> Nat]
        BY <1>3
    <2> HIDE DEF after
    <2> QED
        BY <1>1, <2>1, SlotSumType
<1>5. OwedByPayouts' \in Nat
    BY <1>4 DEF OwedByPayouts
<1>6. OwedByLedger' \in Nat
    BY <1>2 DEF OwedByLedger, Worth, Ledger
<1>7. Owed' \in Nat
    <2>1. \A a, b \in Nat : a + b \in Nat
        OBVIOUS
    <2> QED
        BY <1>5, <1>6, <2>1, OwedNext, Zenon
<1> QED
    BY <1>1, <1>5, <1>6, <1>7

\* A call that is to measure the transfer of a fee begins.
LEMMA DepositBegins ==
    ASSUME CallsTypeOK, CallsTypeOK', OneSends, Solvent, ~sendEntered,
           NEW frame \in Frames, Pushed(frame), frame.op \in Deposits,
           frame.balanceBefore = holdings,
           UNCHANGED moneyVars, feeAmounts' = feeAmounts
    PROVE  Solvent' /\ Measured'
<1>1. OwedByLedger' = OwedByLedger
    BY DEF OwedByLedger, Worth, Ledger, moneyVars
<1>2. OwedByPayouts' = OwedByPayouts
    <2>1. Payout(frame) = 0
        BY PayoutType DEF Deposits
    <2>2. OwedByPayouts' = OwedByPayouts + Payout(frame)
        BY PayoutsPushed DEF OwedByPayouts, CallsTypeOK
    <2> QED
        BY <2>1, <2>2, OwedParts
<1>3. Owed' = Owed /\ holdings' = holdings
    BY <1>1, <1>2, OwedParts, OwedNext DEF moneyVars
<1>4. Solvent'
    BY <1>3 DEF Solvent
<1>5. Open(Deposits)' = {Len(stack) + 1}
    <2>1. Open(Deposits) = {}
        BY Zenon DEF OneSends
    <2> QED
        BY <2>1, OpenPushed DEF CallsTypeOK
<1>6. stack'[Len(stack) + 1].balanceBefore = holdings
    BY DEF Pushed
<1>7. \A i \in Open(Deposits)' : stack'[i].balanceBefore >= Owed'
    BY <1>3, <1>5, <1>6 DEF Solvent
<1> QED
    BY <1>4, <1>7 DEF Measured

\* The call that measured the transfer of a fee ends.
LEMMA DepositEnds ==
    ASSUME CallsTypeOK, CallsTypeOK', OneSends, Measured, TopIs(Deposits), Popped,
           holdings > Top.balanceBefore, holdings' = holdings,
           OwedByLedger' <= OwedByLedger + BalanceIncrease
    PROVE  Solvent' /\ Measured'
<1>1. /\ Top \in Frames /\ Top.op # "redeem" /\ Len(stack) \in Open(Deposits)
      /\ Top.balanceBefore \in Nat
    <2>1. Top.op \in Deposits /\ Top \in Frames /\ Len(stack) \in Open(Deposits)
        BY TopIsOpen DEF CallsTypeOK
    <2>2. Top.balanceBefore \in Nat
        BY DepositTop DEF CallsTypeOK
    <2> QED
        BY <2>1, <2>2 DEF Deposits
<1>2. OwedByPayouts' = OwedByPayouts
    <2>1. Payout(Top) = 0
        BY <1>1, PayoutType
    <2>2. OwedByPayouts' = OwedByPayouts - Payout(Top)
        BY PayoutsPopped DEF OwedByPayouts, CallsTypeOK
    <2> QED
        BY <2>1, <2>2, OwedParts
<1>3. Top.balanceBefore >= Owed
    BY <1>1 DEF Measured, Top
<1>4. Open(Deposits)' = {}
    <2>1. Open(Deposits)' = Open(Deposits) \ {Len(stack)}
        BY OpenPopped DEF CallsTypeOK
    <2>2. \A i \in Open(Deposits) : i = Len(stack)
        BY <1>1, Zenon DEF OneSends
    <2> QED
        BY <2>1, <2>2
<1>5. Owed' <= holdings
    <2>1. \A l, p, h, b, ll \in Nat : h > b /\ b >= l + p /\ ll <= l + (h - b) => ll + p <= h
        OBVIOUS
    <2>2. /\ OwedByLedger \in Nat /\ OwedByPayouts \in Nat /\ holdings \in Nat
          /\ OwedByLedger' \in Nat /\ Owed = OwedByLedger + OwedByPayouts
        BY OwedParts, OwedNextType
    <2>3. OwedByLedger' + OwedByPayouts <= holdings
        BY <1>1, <1>3, <2>1, <2>2 DEF BalanceIncrease
    <2> QED
        BY <1>2, <2>3, OwedNext
<1>6. Solvent'
    BY <1>5, OwedNextType, OwedParts DEF Solvent
<1> QED
    BY <1>4, <1>6 DEF Measured

\* Other calls leave the measured transfers as they are.
LEMMA OtherCallBegins ==
    ASSUME StackTypeOK, NEW frame \in Frames, Pushed(frame), frame.op \notin Deposits
    PROVE  SameDeposits /\ OwedByPayouts' = OwedByPayouts + Payout(frame)
BY OpenPushed, PayoutsPushed DEF SameDeposits, OwedByPayouts

LEMMA OtherCallEnds ==
    ASSUME StackTypeOK, Popped, NEW ops, TopIs(ops), ops \cap Deposits = {}
    PROVE  SameDeposits /\ OwedByPayouts' = OwedByPayouts - Payout(Top)
BY OpenPopped, PayoutsPopped DEF SameDeposits, OwedByPayouts

\* Nothing moves and nothing is owed anew.
LEMMA QuietStep ==
    ASSUME CallsTypeOK, CallsTypeOK', Solvent, Measured, SameDeposits, holdings' = holdings,
           OwedByLedger' <= OwedByLedger, OwedByPayouts' = OwedByPayouts
    PROVE  Solvent' /\ Measured'
<1>1. Owed' <= Owed
    <2>1. \A l, p, ll \in Nat : ll <= l => ll + p <= l + p
        OBVIOUS
    <2>2. OwedByLedger' + OwedByPayouts <= OwedByLedger + OwedByPayouts
        BY <2>1, OwedParts, OwedNextType
    <2> QED
        BY <2>2, OwedParts, OwedNext
<1>2. NoMoreOwed
    BY <1>1, OwedParts DEF NoMoreOwed
<1> QED
    BY <1>2, MoneyKept, OwedNextType

LEMMA StackUnmoved ==
    ASSUME stack' = stack
    PROVE  SameDeposits /\ OwedByPayouts' = OwedByPayouts
BY DEF SameDeposits, Open, OwedByPayouts, Payouts

LEMMA StepKeepsMoney ==
    ASSUME CallsTypeOK, CallsTypeOK', NoRecursion, Solvent, Measured, Step
    PROVE  Solvent' /\ Measured'
<1>0. StackTypeOK /\ OneSends
    BY GuardParts DEF CallsTypeOK
<1>1. ASSUME feeAmounts' = feeAmounts, rewards' = rewards PROVE OwedByLedger' = OwedByLedger
    BY <1>1 DEF OwedByLedger, Worth, Ledger
<1>2. CASE SendStep
    <2>1. PICK carried : BeganSend(carried) \/ SentAtOnce(carried)
        BY <1>2, SendEffect
    <2>2. CASE BeganSend(carried)
        <3>1. /\ ~sendEntered /\ SendFrame(carried) \in Frames /\ Pushed(SendFrame(carried))
              /\ UNCHANGED moneyVars /\ feeAmounts' = feeAmounts
            BY <2>2 DEF BeganSend
        <3>2. SendFrame(carried).op \in Deposits /\ SendFrame(carried).balanceBefore = holdings
            BY DEF SendFrame, Deposits
        <3> QED
            BY <1>0, <3>1, <3>2, DepositBegins
    <2>3. CASE SentAtOnce(carried)
        <3>1. /\ NewID \in SentIDs /\ feeAmounts' = [feeAmounts EXCEPT ![NewID] = 0]
              /\ rewards' = rewards /\ holdings' = holdings /\ stack' = stack
            BY <2>3 DEF SentAtOnce, Store, moneyVars
        <3>2. OwedByLedger' = OwedByLedger - feeAmounts[NewID] + 0 /\ feeAmounts[NewID] \in Nat
            BY <3>1, FeeSet
        <3>3. OwedByLedger' <= OwedByLedger
            BY <3>2, OwedParts
        <3> QED
            BY <3>1, <3>3, StackUnmoved, QuietStep
    <2> QED
        BY <2>1, <2>2, <2>3
<1>3. CASE EndSend
    <2>1. /\ TopIs(Deposits) /\ Popped /\ holdings > Top.balanceBefore /\ holdings' = holdings
          /\ rewards' = rewards
          /\ feeAmounts' = [feeAmounts EXCEPT ![Top.id] = BalanceIncrease]
        BY <1>0, <1>3, EndPops DEF EndSend, StoreSent, Store, TopIs, Deposits, moneyVars
    <2>2. Top.id \in SentIDs /\ Top.balanceBefore \in Nat
        BY <1>0, <2>1, DepositTop
    <2>3. BalanceIncrease \in Nat
        BY <2>1, <2>2, OwedParts DEF BalanceIncrease
    <2>4. /\ OwedByLedger' = OwedByLedger - feeAmounts[Top.id] + BalanceIncrease
          /\ feeAmounts[Top.id] \in Nat
        BY <2>1, <2>2, <2>3, FeeSet
    <2>5. OwedByLedger' <= OwedByLedger + BalanceIncrease
        BY <2>3, <2>4, OwedParts
    <2> QED
        BY <1>0, <2>1, <2>5, DepositEnds
<1>4. ASSUME NEW id \in SentIDs, AddFeeAmount(id) PROVE Solvent' /\ Measured'
    <2>1. /\ ~sendEntered /\ AddFeeFrame(id) \in Frames /\ Pushed(AddFeeFrame(id))
          /\ UNCHANGED moneyVars /\ feeAmounts' = feeAmounts
        BY <1>4, BeginPushes DEF AddFeeAmount, SenderNonReentrant, senderVars
    <2>2. AddFeeFrame(id).op \in Deposits /\ AddFeeFrame(id).balanceBefore = holdings
        BY DEF AddFeeFrame, Deposits
    <2> QED
        BY <1>0, <2>1, <2>2, DepositBegins
<1>5. CASE EndAddFeeAmount
    <2>1. /\ TopIs(Deposits) /\ Popped /\ holdings > Top.balanceBefore /\ holdings' = holdings
          /\ rewards' = rewards
          /\ feeAmounts' = [feeAmounts EXCEPT ![Top.id] = feeAmounts[Top.id] + BalanceIncrease]
        BY <1>0, <1>5, EndPops DEF EndAddFeeAmount, AddToFee, TopIs, Deposits, moneyVars
    <2>2. Top.id \in SentIDs /\ Top.balanceBefore \in Nat
        BY <1>0, <2>1, DepositTop
    <2>3. BalanceIncrease \in Nat /\ feeAmounts[Top.id] \in Nat
        <3>1. BalanceIncrease \in Nat
            BY <2>1, <2>2, OwedParts DEF BalanceIncrease
        <3>2. feeAmounts \in [SentIDs -> Nat]
            BY DEF CallsTypeOK, Ledger, Ledgers
        <3> QED
            BY <2>2, <3>1, <3>2
    <2>4. feeAmounts[Top.id] + BalanceIncrease \in Nat
        BY <2>3
    <2>5. OwedByLedger' =
              OwedByLedger - feeAmounts[Top.id] + (feeAmounts[Top.id] + BalanceIncrease)
        BY <2>1, <2>2, <2>4, FeeSet
    <2>6. OwedByLedger' <= OwedByLedger + BalanceIncrease
        BY <2>3, <2>5, OwedParts
    <2> QED
        BY <1>0, <2>1, <2>6, DepositEnds
<1>6. ASSUME NEW amount \in 1..MaxFee, MoveTokensIn(amount) PROVE Solvent' /\ Measured'
    <2>1. /\ TopMoved /\ TopIs(Deposits) /\ TopIs(Deposits \cup {"redeem"})
          /\ feeAmounts' = feeAmounts /\ rewards' = rewards /\ holdings' = holdings + amount
        BY <1>0, <1>6, MoveEffect DEF MoveTokensIn, TopIs, Deposits, senderVars
    <2>2. OwedByPayouts' = OwedByPayouts
        <3>1. Top \in Frames /\ Top.op # "redeem"
            BY <1>0, <2>1, TopIsOpen DEF Deposits
        <3>2. OwedByPayouts' = OwedByPayouts - Payout(Top) /\ Payout(Top) = 0
            BY <1>0, <2>1, <3>1, PayoutsMoved, PayoutType DEF OwedByPayouts
        <3> QED
            BY <3>2, OwedParts
    <2>3. SameDeposits
        <3>1. Moved(Top).balanceBefore = Top.balanceBefore
            BY <1>0, <2>1, TopIsOpen, MovedFrame DEF TopIs
        <3> QED
            BY <1>0, <2>1, <3>1, OpenMoved DEF SameDeposits, Top
    <2>4. Owed' = Owed
        BY <1>1, <2>1, <2>2, OwedParts, OwedNext
    <2>5. amount \in Nat
        BY ReentrantAssumption
    <2>6. NoMoreOwed
        BY <2>1, <2>4, <2>5, OwedParts DEF NoMoreOwed
    <2> QED
        BY <2>3, <2>6, MoneyKept, OwedNextType
<1>7. CASE MoveTokensOut
    <2>1. /\ TopMoved /\ TopIs({"redeem"}) /\ TopIs(Deposits \cup {"redeem"})
          /\ feeAmounts' = feeAmounts /\ rewards' = rewards
          /\ ~Top.moved /\ Top.amount <= holdings /\ holdings' = holdings - Top.amount
        BY <1>0, <1>7, MoveEffect DEF MoveTokensOut, TopIs, senderVars
    <2>2. Top \in Frames /\ Top.op = "redeem" /\ Top.amount \in Nat
        BY <1>0, <2>1, RedeemTop
    <2>3. OwedByPayouts' = OwedByPayouts - Top.amount
        BY <1>0, <2>1, <2>2, PayoutsMoved, PayoutType DEF OwedByPayouts
    <2>4. SameDeposits
        <3>1. Top.op \notin Deposits
            BY <2>2 DEF Deposits
        <3> QED
            BY <1>0, <2>1, <3>1, OpenMoved DEF SameDeposits, Top, Open
    <2>5. Owed' = Owed - Top.amount
        BY <1>1, <2>1, <2>2, <2>3, OwedParts, OwedNext
    <2>6. NoMoreOwed
        BY <2>1, <2>2, <2>5, OwedParts DEF NoMoreOwed
    <2> QED
        BY <2>4, <2>6, MoneyKept, OwedNextType
<1>8. ASSUME NEW id \in ReceivedIDs, NEW receipts \in Seq(Receipts), BeginReceive(id, receipts)
      PROVE  Solvent' /\ Measured'
    <2>1. /\ ReceiveFrame(id, receipts) \in Frames /\ Pushed(ReceiveFrame(id, receipts))
          /\ feeAmounts' = feeAmounts /\ rewards' = rewards /\ holdings' = holdings
        BY <1>8, BeginPushes DEF BeginReceive, senderVars, moneyVars
    <2>2. ReceiveFrame(id, receipts).op \notin Deposits /\ Payout(ReceiveFrame(id, receipts)) = 0
        BY DEF ReceiveFrame, Deposits, Payout
    <2>3. SameDeposits /\ OwedByPayouts' = OwedByPayouts + 0
        BY <1>0, <2>1, <2>2, OtherCallBegins
    <2> QED
        BY <1>1, <2>1, <2>3, OwedParts, QuietStep
<1>9. ASSUME NEW id \in ReceivedIDs, NEW receipts \in Seq(Receipts), NEW nonEmpty \in BOOLEAN,
             ReceiveUnexecuted(id, receipts, nonEmpty)
      PROVE  Solvent' /\ Measured'
    <2>1. /\ OwedByLedger' = OwedByLedger /\ holdings' = holdings /\ stack' = stack
        BY <1>9, FinishEffect DEF ReceiveUnexecuted, OwedByLedger
    <2> QED
        BY <2>1, StackUnmoved, OwedParts, QuietStep
<1>10. CASE EndReceive
    <2>1. Popped /\ TopIs({"receive"}) /\ TopIs(Executions)
        BY <1>0, <1>10, EndPops DEF EndReceive, TopIs, Executions
    <2>2. OwedByLedger' = OwedByLedger /\ holdings' = holdings
        <3>1. Top.id \in ReceivedIDs /\ Top.receipts \in Seq(Receipts)
            BY <1>0, <2>1, ExecuteTop
        <3> QED
            BY <1>10, <3>1, FinishEffect DEF EndReceive, OwedByLedger
    <2>3. SameDeposits /\ OwedByPayouts' = OwedByPayouts - Payout(Top) /\ Payout(Top) = 0
        BY <1>0, <2>1, OtherCallEnds DEF Deposits, TopIs, Payout
    <2> QED
        BY <2>2, <2>3, OwedParts, QuietStep
<1>11. ASSUME NEW id \in ReceivedIDs, BeginRetryExecution(id) PROVE Solvent' /\ Measured'
    <2>1. /\ RetryFrame(id) \in Frames /\ Pushed(RetryFrame(id))
          /\ feeAmounts' = feeAmounts /\ rewards' = rewards /\ holdings' = holdings
        BY <1>11, BeginPushes DEF BeginRetryExecution, senderVars, moneyVars
    <2>2. RetryFrame(id).op \notin Deposits /\ Payout(RetryFrame(id)) = 0
        BY DEF RetryFrame, Deposits, Payout
    <2>3. SameDeposits /\ OwedByPayouts' = OwedByPayouts + 0
        BY <1>0, <2>1, <2>2, OtherCallBegins
    <2> QED
        BY <1>1, <2>1, <2>3, OwedParts, QuietStep
<1>12. CASE EndRetryExecution
    <2>1. /\ Popped /\ TopIs({"retry"})
          /\ feeAmounts' = feeAmounts /\ rewards' = rewards /\ holdings' = holdings
        BY <1>0, <1>12, EndPops DEF EndRetryExecution, senderVars, moneyVars
    <2>2. SameDeposits /\ OwedByPayouts' = OwedByPayouts - Payout(Top) /\ Payout(Top) = 0
        BY <1>0, <2>1, OtherCallEnds DEF Deposits, TopIs, Payout
    <2> QED
        BY <1>1, <2>1, <2>2, OwedParts, QuietStep
<1>13. ASSUME NEW r \in Relayers, BeginRedeem(r) PROVE Solvent' /\ Measured'
    <2>1. /\ RedeemFrame(r) \in Frames /\ Pushed(RedeemFrame(r))
          /\ feeAmounts' = feeAmounts /\ rewards' = [rewards EXCEPT ![r] = 0]
          /\ holdings' = holdings
        BY <1>13, BeginPushes DEF BeginRedeem, senderVars
    <2>2. RedeemFrame(r).op \notin Deposits /\ Payout(RedeemFrame(r)) = rewards[r]
        BY DEF RedeemFrame, Deposits, Payout
    <2>3. SameDeposits /\ OwedByPayouts' = OwedByPayouts + rewards[r]
        BY <1>0, <2>1, <2>2, OtherCallBegins
    <2>4. OwedByLedger' = OwedByLedger - rewards[r] /\ rewards[r] \in Nat
        BY <2>1, RewardTaken
    <2>5. Owed' = Owed
        BY <2>3, <2>4, OwedParts, OwedNext
    <2>6. NoMoreOwed
        BY <2>1, <2>5, OwedParts DEF NoMoreOwed
    <2> QED
        BY <2>3, <2>6, MoneyKept, OwedNextType
<1>14. CASE EndRedeem
    <2>1. /\ Popped /\ TopIs({"redeem"}) /\ Top.moved
          /\ feeAmounts' = feeAmounts /\ rewards' = rewards /\ holdings' = holdings
        BY <1>0, <1>14, EndPops DEF EndRedeem, senderVars, moneyVars
    <2>2. SameDeposits /\ OwedByPayouts' = OwedByPayouts - Payout(Top) /\ Payout(Top) = 0
        BY <1>0, <2>1, OtherCallEnds DEF Deposits, Payout
    <2> QED
        BY <1>1, <2>1, <2>2, OwedParts, QuietStep
<1> QED
    BY <1>2, <1>3, <1>4, <1>5, <1>6, <1>7, <1>8, <1>9, <1>10, <1>11, <1>12, <1>13, <1>14,
       KnownReceiptsType DEF Step, ReceiveStep

-----------------------------------------------------------------------------
(* The receipts                                                            *)

\* A message takes the receipts of an ID that no message has used before, so the
\* receipts of no message are overwritten.
IDsUsed ==
    /\ \A id \in SentIDs : id > latestMessageID => carriedReceipts[id] = << >>
    /\ \A i \in Open({"send"}) : /\ stack[i].id <= latestMessageID
                                 /\ carriedReceipts[stack[i].id] = << >>

Kept(id) ==
    \/ IsIn(id, receiptQueue)
    \/ \E sent \in SentIDs : IsIn(id, carriedReceipts[sent])
    \/ \E i \in Open({"send"}) : IsIn(id, stack[i].carried)
    \/ \E i \in Open({"receive"}) : stack[i].id = id

LEMMA KeptReceipts == ReceiptKept <=> \A id \in received : Kept(id)
BY DEF ReceiptKept, Kept

\* Calls that go on with what they hold.
SameSends ==
    \A i \in Open({"send"}) : /\ i \in Open({"send"})'
                              /\ stack'[i].carried = stack[i].carried
                              /\ stack'[i].id = stack[i].id
NoNewSends == Open({"send"})' \subseteq Open({"send"})
SameReceives ==
    \A i \in Open({"receive"}) : i \in Open({"receive"})' /\ stack'[i].id = stack[i].id

LEMMA PushSame ==
    ASSUME StackTypeOK, NEW frame, Pushed(frame)
    PROVE  SameSends /\ SameReceives /\ (frame.op # "send" => NoNewSends)
BY OpenPushed DEF SameSends, SameReceives, NoNewSends

LEMMA PopSame ==
    ASSUME StackTypeOK, Popped
    PROVE  /\ NoNewSends
           /\ Top.op # "send" => SameSends
           /\ Top.op # "receive" => SameReceives
<1>1. /\ \A ops : Open(ops)' = Open(ops) \ {Len(stack)}
      /\ \A ops : \A i \in Open(ops)' : stack'[i] = stack[i]
    BY OpenPopped
<1>2. \A op : Top.op # op => Len(stack) \notin Open({op})
    BY DEF Open, Top
<1> QED
    BY <1>1, <1>2 DEF SameSends, SameReceives, NoNewSends

LEMMA MoveSame ==
    ASSUME StackTypeOK, TopMoved, TopIs(Deposits \cup {"redeem"})
    PROVE  SameSends /\ SameReceives /\ NoNewSends
<1>1. \A ops : /\ Open(ops)' = Open(ops)
               /\ \A i \in Open(ops) : stack'[i] = IF i = Len(stack) THEN Moved(Top) ELSE stack[i]
    BY OpenMoved
<1>2. /\ Top \in Frames /\ Top.op \in Deposits \cup {"redeem"}
    BY TopIsOpen
<1>3. /\ Top.op = "send" => Moved(Top).carried = Top.carried /\ Moved(Top).id = Top.id
      /\ Top.op # "receive"
    BY <1>2, MovedFrame DEF Deposits
<1>4. /\ Len(stack) \in Open({"send"}) => Top.op = "send"
      /\ Len(stack) \notin Open({"receive"})
    BY <1>3 DEF Open, Top
<1> QED
    BY <1>1, <1>3, <1>4 DEF SameSends, SameReceives, NoNewSends, Top

\* A step that takes no receipt from where it is kept.
LEMMA QuietReceipts ==
    ASSUME ReceiptKept, IDsUsed, SameSends, SameReceives, NoNewSends,
           received' = received, receiptQueue' = receiptQueue, carriedReceipts' = carriedReceipts,
           latestMessageID' = latestMessageID
    PROVE  ReceiptKept' /\ IDsUsed'
<1>1. IDsUsed'
    BY DEF IDsUsed, SameSends, NoNewSends
<1>2. \A id \in received : Kept(id)
    BY KeptReceipts
<1>3. ASSUME NEW id \in received, Kept(id) PROVE Kept(id)'
    BY <1>3 DEF Kept, SameSends, SameReceives
<1>4. ReceiptKept'
    BY <1>2, <1>3 DEF ReceiptKept, Kept
<1> QED
    BY <1>1, <1>4

LEMMA StackSame ==
    ASSUME stack' = stack
    PROVE  SameSends /\ SameReceives /\ NoNewSends
BY DEF SameSends, SameReceives, NoNewSends, Open

\* An entry that is appended joins the others.
LEMMA Appended ==
    ASSUME CallsTypeOK, NEW id \in ReceivedIDs, receiptQueue' = Append(receiptQueue, id)
    PROVE  /\ IsIn(id, receiptQueue')
           /\ \A other : IsIn(other, receiptQueue) => IsIn(other, receiptQueue')
<1>1. receiptQueue \in Seq(ReceivedIDs) /\ Len(receiptQueue) \in Nat
      /\ DOMAIN receiptQueue = 1..Len(receiptQueue)
    BY LenProperties DEF CallsTypeOK
<1>2. /\ DOMAIN receiptQueue' = 1..(Len(receiptQueue) + 1)
      /\ receiptQueue'[Len(receiptQueue) + 1] = id
      /\ \A i \in 1..Len(receiptQueue) : receiptQueue'[i] = receiptQueue[i]
    BY <1>1, AppendProperties
<1> QED
    BY <1>1, <1>2 DEF IsIn

LEMMA StepKeepsReceipts ==
    ASSUME CallsTypeOK, NoRecursion, ReceiptKept, IDsUsed, Step
    PROVE  ReceiptKept' /\ IDsUsed'
<1>0. StackTypeOK /\ OneSends /\ latestMessageID \in Nat
      /\ carriedReceipts \in [SentIDs -> Seq(ReceivedIDs)] /\ received \subseteq ReceivedIDs
    BY GuardParts, ReentrantAssumption DEF CallsTypeOK
<1>1. \A id \in received : Kept(id)
    BY KeptReceipts
<1>2. \A id : ~IsIn(id, << >>)
    BY DEF IsIn
<1>3. ASSUME \A id \in received' : Kept(id)' PROVE ReceiptKept'
    BY <1>3 DEF ReceiptKept, Kept
<1>4. CASE SendStep
    <2>1. PICK carried : BeganSend(carried) \/ SentAtOnce(carried)
        BY <1>4, SendEffect
    <2>2. CASE BeganSend(carried)
        <3>1. /\ Pushed(SendFrame(carried)) /\ NewID \in SentIDs /\ latestMessageID' = NewID
              /\ carriedReceipts' = carriedReceipts /\ received' = received
              /\ NewID > latestMessageID
            BY <1>0, <2>2 DEF BeganSend, receiverVars, NewID
        <3>2. /\ Open({"send"})' = Open({"send"}) \cup {Len(stack) + 1}
              /\ stack'[Len(stack) + 1] = SendFrame(carried)
              /\ SendFrame(carried).op = "send" /\ SendFrame(carried).id = NewID
              /\ SendFrame(carried).carried = carried
            <4>1. SendFrame(carried).op = "send" /\ SendFrame(carried).id = NewID
                  /\ SendFrame(carried).carried = carried
                BY DEF SendFrame
            <4> QED
                BY <1>0, <3>1, <4>1, OpenPushed DEF Pushed
        <3>3. SameSends /\ SameReceives
            BY <1>0, <3>1, PushSame
        <3>4. IDsUsed'
            <4>1. \A id \in SentIDs : id > NewID => id > latestMessageID
                BY <1>0 DEF NewID, SentIDs
            <4>2. \A id \in SentIDs : id <= latestMessageID => id <= NewID
                BY <1>0 DEF NewID, SentIDs
            <4>3. \A i \in Open({"send"}) : stack[i].id \in SentIDs
                <5> TAKE i \in Open({"send"})
                <5>1. stack[i] \in Frames /\ stack[i].op = "send"
                    BY <1>0, StackFacts DEF Open
                <5> QED
                    BY <5>1 DEF Frames, DepositFrames, RedeemFrames, ExecuteFrames
            <4>4. carriedReceipts[NewID] = << >> /\ NewID <= NewID
                BY <1>0, <3>1 DEF IDsUsed, NewID
            <4> HIDE DEF NewID
            <4> QED
                BY <3>1, <3>2, <3>3, <4>1, <4>2, <4>3, <4>4 DEF IDsUsed, SameSends
        <3>5. ASSUME NEW id \in received PROVE Kept(id)'
            <4>1. Kept(id)
                BY <1>1
            <4>2. IsIn(id, receiptQueue) => IsIn(id, carried) \/ IsIn(id, receiptQueue')
                BY <1>0, <2>2 DEF BeganSend, Taken
            <4> QED
                BY <3>1, <3>2, <3>3, <4>1, <4>2 DEF Kept, SameSends, SameReceives
        <3> QED
            BY <1>3, <3>1, <3>4, <3>5
    <2>3. CASE SentAtOnce(carried)
        <3>1. /\ stack' = stack /\ NewID \in SentIDs /\ latestMessageID' = NewID
              /\ received' = received /\ NewID > latestMessageID
              /\ carriedReceipts' = [carriedReceipts EXCEPT ![NewID] = carried]
            BY <1>0, <2>3 DEF SentAtOnce, Store, receiverVars, NewID
        <3>2. carriedReceipts[NewID] = << >>
            BY <3>1 DEF IDsUsed
        <3>3. /\ carriedReceipts'[NewID] = carried
              /\ \A sent \in SentIDs : sent # NewID => carriedReceipts'[sent] = carriedReceipts[sent]
            BY <1>0, <3>1
        <3>4. Open({"send"}) = {} /\ Open({"send"})' = {} /\ Open({"receive"})' = Open({"receive"})
            <4>1. Open(Deposits) = {}
                BY <1>0, <2>3, Zenon DEF OneSends, SentAtOnce
            <4>2. Open({"send"}) \subseteq Open(Deposits)
                BY DEF Open, Deposits
            <4> QED
                BY <3>1, <4>1, <4>2 DEF Open
        <3>5. IDsUsed'
            <4>1. \A id \in SentIDs : id > NewID => id > latestMessageID /\ id # NewID
                BY <1>0 DEF NewID, SentIDs
            <4> HIDE DEF NewID
            <4> QED
                BY <3>1, <3>3, <3>4, <4>1 DEF IDsUsed
        <3>6. ASSUME NEW id \in received PROVE Kept(id)'
            <4>1. Kept(id)
                BY <1>1
            <4>2. IsIn(id, receiptQueue) => IsIn(id, carried) \/ IsIn(id, receiptQueue')
                BY <1>0, <2>3 DEF SentAtOnce, Taken
            <4>3. ASSUME NEW sent \in SentIDs, IsIn(id, carriedReceipts[sent])
                  PROVE  IsIn(id, carriedReceipts'[sent])
                <5>1. sent # NewID
                    BY <1>2, <3>2, <4>3
                <5> QED
                    BY <3>3, <4>3, <5>1
            <4>4. IsIn(id, carried) => IsIn(id, carriedReceipts'[NewID])
                BY <3>3
            <4> HIDE DEF NewID
            <4> QED
                BY <3>1, <3>4, <4>1, <4>2, <4>3, <4>4 DEF Kept
        <3> QED
            BY <1>3, <3>1, <3>5, <3>6
    <2> QED
        BY <2>1, <2>2, <2>3
<1>5. CASE EndSend
    <2>1. /\ Popped /\ TopIs({"send"}) /\ TopIs(Deposits) /\ sendEntered' = FALSE
          /\ carriedReceipts' = [carriedReceipts EXCEPT ![Top.id] = Top.carried]
          /\ received' = received /\ receiptQueue' = receiptQueue
          /\ latestMessageID' = latestMessageID
        BY <1>0, <1>5, EndPops DEF EndSend, StoreSent, Store, TopIs, Deposits, receiverVars
    <2>2. Len(stack) \in Open({"send"}) /\ Top.op = "send" /\ Top.id \in SentIDs
        BY <1>0, <2>1, TopIsOpen, DepositTop
    <2>3. carriedReceipts[Top.id] = << >> /\ Top.id <= latestMessageID
        BY <2>2 DEF IDsUsed, Top
    <2>4. /\ carriedReceipts'[Top.id] = Top.carried
          /\ \A sent \in SentIDs : sent # Top.id => carriedReceipts'[sent] = carriedReceipts[sent]
        BY <1>0, <2>1, <2>2
    <2>5. /\ Open({"send"})' = {} /\ \A i \in Open({"send"}) : i = Len(stack)
        <3>1. /\ Open(Deposits)' = Open(Deposits) \ {Len(stack)}
              /\ \A i \in Open(Deposits) : i = Len(stack)
            BY <1>0, <2>1, OpenPopped, TopIsOpen, Zenon DEF OneSends
        <3>2. Open({"send"}) \subseteq Open(Deposits) /\ Open({"send"})' \subseteq Open(Deposits)'
            BY DEF Open, Deposits
        <3> QED
            BY <3>1, <3>2
    <2>6. SameReceives
        BY <1>0, <2>1, <2>2, PopSame
    <2>7. IDsUsed'
        <3>1. \A id \in SentIDs : id > latestMessageID => id # Top.id
            BY <1>0, <2>2, <2>3 DEF SentIDs
        <3> QED
            BY <2>1, <2>4, <2>5, <3>1 DEF IDsUsed
    <2>8. ASSUME NEW id \in received PROVE Kept(id)'
        <3>1. Kept(id)
            BY <1>1
        <3>2. ASSUME NEW sent \in SentIDs, IsIn(id, carriedReceipts[sent])
              PROVE  IsIn(id, carriedReceipts'[sent])
            <4>1. sent # Top.id
                BY <1>2, <2>3, <3>2
            <4> QED
                BY <2>4, <3>2, <4>1
        <3>3. ASSUME NEW i \in Open({"send"}), IsIn(id, stack[i].carried)
              PROVE  IsIn(id, carriedReceipts'[Top.id])
            BY <2>4, <2>5, <3>3 DEF Top
        <3> QED
            BY <2>1, <2>2, <2>6, <3>1, <3>2, <3>3 DEF Kept, SameReceives
    <2> QED
        BY <1>3, <2>1, <2>7, <2>8
<1>6. ASSUME NEW id \in SentIDs, AddFeeAmount(id) PROVE ReceiptKept' /\ IDsUsed'
    <2>1. Pushed(AddFeeFrame(id)) /\ AddFeeFrame(id).op # "send"
        BY <1>6, BeginPushes DEF AddFeeFrame
    <2>2. /\ received' = received /\ receiptQueue' = receiptQueue
          /\ carriedReceipts' = carriedReceipts /\ latestMessageID' = latestMessageID
        BY <1>6 DEF AddFeeAmount, senderVars, receiverVars
    <2> QED
        BY <1>0, <2>1, <2>2, PushSame, QuietReceipts
<1>7. CASE EndAddFeeAmount
    <2>1. Popped /\ Top.op # "send" /\ Top.op # "receive"
        BY <1>0, <1>7, EndPops DEF EndAddFeeAmount, TopIs
    <2>2. /\ received' = received /\ receiptQueue' = receiptQueue
          /\ carriedReceipts' = carriedReceipts /\ latestMessageID' = latestMessageID
        BY <1>7 DEF EndAddFeeAmount, receiverVars
    <2> QED
        BY <1>0, <2>1, <2>2, PopSame, QuietReceipts
<1>8. CASE (\E amount \in 1..MaxFee : MoveTokensIn(amount)) \/ MoveTokensOut
    <2>1. SameSends /\ SameReceives /\ NoNewSends
        BY <1>0, <1>8, MoveEffect, MoveSame
    <2>2. /\ received' = received /\ receiptQueue' = receiptQueue
          /\ carriedReceipts' = carriedReceipts /\ latestMessageID' = latestMessageID
        BY <1>8 DEF MoveTokensIn, MoveTokensOut, senderVars, receiverVars
    <2> QED
        BY <2>1, <2>2, QuietReceipts
<1>9. ASSUME NEW id \in ReceivedIDs, NEW receipts \in Seq(Receipts), BeginReceive(id, receipts)
      PROVE  ReceiptKept' /\ IDsUsed'
    <2>1. /\ Pushed(ReceiveFrame(id, receipts))
          /\ received' = received \cup {id} /\ receiptQueue' = receiptQueue
          /\ carriedReceipts' = carriedReceipts /\ latestMessageID' = latestMessageID
        BY <1>9, BeginPushes DEF BeginReceive, senderVars
    <2>2. ReceiveFrame(id, receipts).op = "receive" /\ ReceiveFrame(id, receipts).id = id
        BY DEF ReceiveFrame
    <2>3. SameSends /\ SameReceives /\ NoNewSends
        BY <1>0, <2>1, <2>2, PushSame
    <2>4. /\ Len(stack) + 1 \in Open({"receive"})'
          /\ stack'[Len(stack) + 1].id = id
        BY <1>0, <2>1, <2>2, OpenPushed DEF Pushed
    <2>5. IDsUsed'
        BY <2>1, <2>3 DEF IDsUsed, SameSends, NoNewSends
    <2>6. ASSUME NEW other \in received PROVE Kept(other)'
        <3>1. Kept(other)
            BY <1>1
        <3> QED
            BY <2>1, <2>3, <3>1 DEF Kept, SameSends, SameReceives
    <2>7. Kept(id)'
        BY <2>4 DEF Kept
    <2> QED
        BY <1>3, <2>1, <2>5, <2>6, <2>7
<1>10. ASSUME NEW id \in ReceivedIDs, NEW receipts \in Seq(Receipts), NEW nonEmpty \in BOOLEAN,
              ReceiveUnexecuted(id, receipts, nonEmpty)
       PROVE  ReceiptKept' /\ IDsUsed'
    <2>1. /\ stack' = stack /\ received' = received \cup {id}
          /\ receiptQueue' = Append(receiptQueue, id)
          /\ carriedReceipts' = carriedReceipts /\ latestMessageID' = latestMessageID
        BY <1>10, FinishEffect DEF ReceiveUnexecuted
    <2>2. SameSends /\ SameReceives /\ NoNewSends
        BY <2>1, StackSame
    <2>3. IDsUsed'
        BY <2>1, <2>2 DEF IDsUsed, SameSends, NoNewSends
    <2>4. /\ IsIn(id, receiptQueue')
          /\ \A other : IsIn(other, receiptQueue) => IsIn(other, receiptQueue')
        BY <2>1, Appended
    <2>5. ASSUME NEW other \in received PROVE Kept(other)'
        <3>1. Kept(other)
            BY <1>1
        <3> QED
            BY <2>1, <2>2, <2>4, <3>1 DEF Kept, SameSends, SameReceives
    <2>6. Kept(id)'
        BY <2>4 DEF Kept
    <2> QED
        BY <1>3, <2>1, <2>3, <2>5, <2>6
<1>11. CASE EndReceive
    <2>1. Popped /\ TopIs({"receive"}) /\ TopIs(Executions) /\ received' = received
        BY <1>0, <1>11, EndPops DEF EndReceive, TopIs, Executions
    <2>2. Top.id \in ReceivedIDs /\ Top.receipts \in Seq(Receipts) /\ Top.op = "receive"
        BY <1>0, <2>1, ExecuteTop, TopIsOpen
    <2>3. /\ receiptQueue' = Append(receiptQueue, Top.id)
          /\ carriedReceipts' = carriedReceipts /\ latestMessageID' = latestMessageID
        BY <1>11, <2>2, FinishEffect DEF EndReceive
    <2>4. SameSends /\ NoNewSends
        BY <1>0, <2>1, <2>2, PopSame
    <2>5. \A i \in Open({"receive"}) :
             \/ i \in Open({"receive"})' /\ stack'[i] = stack[i]
             \/ i = Len(stack)
        BY <1>0, <2>1, OpenPopped
    <2>6. IDsUsed'
        BY <2>3, <2>4 DEF IDsUsed, SameSends, NoNewSends
    <2>7. /\ IsIn(Top.id, receiptQueue')
          /\ \A other : IsIn(other, receiptQueue) => IsIn(other, receiptQueue')
        BY <2>2, <2>3, Appended
    <2>8. ASSUME NEW other \in received PROVE Kept(other)'
        <3>1. Kept(other)
            BY <1>1
        <3>2. ASSUME NEW i \in Open({"receive"}), stack[i].id = other PROVE Kept(other)'
            <4>1. CASE i \in Open({"receive"})' /\ stack'[i] = stack[i]
                BY <3>2, <4>1 DEF Kept
            <4>2. CASE i = Len(stack)
                BY <2>7, <3>2, <4>2 DEF Kept, Top
            <4> QED
                BY <2>5, <4>1, <4>2
        <3> QED
            BY <2>3, <2>4, <2>7, <3>1, <3>2 DEF Kept, SameSends
    <2> QED
        BY <1>3, <2>1, <2>6, <2>8
<1>12. ASSUME NEW id \in ReceivedIDs, BeginRetryExecution(id) PROVE ReceiptKept' /\ IDsUsed'
    <2>1. Pushed(RetryFrame(id)) /\ RetryFrame(id).op # "send"
        BY <1>12, BeginPushes DEF RetryFrame
    <2>2. /\ received' = received /\ receiptQueue' = receiptQueue
          /\ carriedReceipts' = carriedReceipts /\ latestMessageID' = latestMessageID
        BY <1>12 DEF BeginRetryExecution, senderVars
    <2> QED
        BY <1>0, <2>1, <2>2, PushSame, QuietReceipts
<1>13. CASE EndRetryExecution \/ EndRedeem
    <2>1. Popped /\ Top.op # "send" /\ Top.op # "receive"
        BY <1>0, <1>13, EndPops DEF EndRetryExecution, EndRedeem, TopIs
    <2>2. /\ received' = received /\ receiptQueue' = receiptQueue
          /\ carriedReceipts' = carriedReceipts /\ latestMessageID' = latestMessageID
        BY <1>13 DEF EndRetryExecution, EndRedeem, senderVars, receiverVars
    <2> QED
        BY <1>0, <2>1, <2>2, PopSame, QuietReceipts
<1>14. ASSUME NEW r \in Relayers, BeginRedeem(r) PROVE ReceiptKept' /\ IDsUsed'
    <2>1. Pushed(RedeemFrame(r)) /\ RedeemFrame(r).op # "send"
        BY <1>14, BeginPushes DEF RedeemFrame
    <2>2. /\ received' = received /\ receiptQueue' = receiptQueue
          /\ carriedReceipts' = carriedReceipts /\ latestMessageID' = latestMessageID
        BY <1>14 DEF BeginRedeem, senderVars, receiverVars
    <2> QED
        BY <1>0, <2>1, <2>2, PushSame, QuietReceipts
<1> QED
    BY <1>4, <1>5, <1>6, <1>7, <1>8, <1>9, <1>10, <1>11, <1>12, <1>13, <1>14, KnownReceiptsType
       DEF Step, ReceiveStep

-----------------------------------------------------------------------------
(* Executions                                                              *)

Once(id) ==
    /\ executed[id] > 0 => id \in received /\ id \notin failed /\ InExecution(id) = {}
    /\ executed[id] <= 1
    /\ InExecution(id) # {} => id \in received \ failed

OnceInv == \A id \in ReceivedIDs : Once(id)

LEMMA OnceImplies == OnceInv => ExecutedOnce
BY DEF OnceInv, Once, ExecutedOnce

SameExecutions == \A id : InExecution(id)' = InExecution(id)

LEMMA PushExecutions ==
    ASSUME StackTypeOK, NEW frame, Pushed(frame)
    PROVE  /\ frame.op \notin Executions => SameExecutions
           /\ \A id : frame.id # id => InExecution(id)' = InExecution(id)
<1>1. /\ Open(Executions)' = IF frame.op \in Executions
                             THEN Open(Executions) \cup {Len(stack) + 1} ELSE Open(Executions)
      /\ \A i \in Open(Executions) : stack'[i] = stack[i]
      /\ Len(stack) + 1 \notin Open(Executions)
    BY OpenPushed
<1>2. stack'[Len(stack) + 1] = frame
    BY DEF Pushed
<1>3. ASSUME NEW id
      PROVE  /\ InExecution(id) = {i \in Open(Executions) : stack[i].id = id}
             /\ InExecution(id)' = {i \in Open(Executions)' : stack'[i].id = id}
    BY DEF InExecution, Executions
<1>4. ASSUME NEW id, frame.op \notin Executions PROVE InExecution(id)' = InExecution(id)
    <2>1. {i \in Open(Executions)' : stack'[i].id = id} = {i \in Open(Executions) : stack[i].id = id}
        BY <1>1, <1>4
    <2> QED
        BY <1>3, <2>1
<1>5. ASSUME NEW id, frame.id # id PROVE InExecution(id)' = InExecution(id)
    <2>1. {i \in Open(Executions)' : stack'[i].id = id} = {i \in Open(Executions) : stack[i].id = id}
        BY <1>1, <1>2, <1>5
    <2> QED
        BY <1>3, <2>1
<1> QED
    BY <1>4, <1>5 DEF SameExecutions

LEMMA PopExecutions ==
    ASSUME StackTypeOK, OneReceives, Popped
    PROVE  /\ Top.op \notin Executions => SameExecutions
           /\ TopIs(Executions) => \A id : InExecution(id)' = {}
<1>1. /\ Open(Executions)' = Open(Executions) \ {Len(stack)}
      /\ \A i \in Open(Executions)' : stack'[i] = stack[i]
    BY OpenPopped
<1>2. ASSUME NEW id
      PROVE  /\ InExecution(id) = {i \in Open(Executions) : stack[i].id = id}
             /\ InExecution(id)' = {i \in Open(Executions)' : stack'[i].id = id}
    BY DEF InExecution, Executions
<1>3. ASSUME Top.op \notin Executions PROVE SameExecutions
    <2>1. Len(stack) \notin Open(Executions)
        BY <1>3 DEF Open, Top
    <2>2. ASSUME NEW id PROVE InExecution(id)' = InExecution(id)
        <3>1. {i \in Open(Executions)' : stack'[i].id = id} = {i \in Open(Executions) : stack[i].id = id}
            BY <1>1, <2>1
        <3> QED
            BY <1>2, <3>1
    <2> QED
        BY <2>2 DEF SameExecutions
<1>4. ASSUME TopIs(Executions) PROVE \A id : InExecution(id)' = {}
    <2>1. Len(stack) \in Open(Executions)
        BY <1>4, TopIsOpen
    <2>2. \A i \in Open(Executions) : i = Len(stack)
        BY <2>1, Zenon DEF OneReceives
    <2> QED
        BY <1>1, <1>2, <2>2
<1> QED
    BY <1>3, <1>4

LEMMA MoveExecutions ==
    ASSUME StackTypeOK, TopMoved, TopIs(Deposits \cup {"redeem"})
    PROVE  SameExecutions
<1>1. /\ Open(Executions)' = Open(Executions)
      /\ \A i \in Open(Executions) : stack'[i] = IF i = Len(stack) THEN Moved(Top) ELSE stack[i]
    BY OpenMoved
<1>2. Len(stack) \notin Open(Executions)
    BY DEF Open, Top, TopIs, Executions, Deposits
<1>3. ASSUME NEW id
      PROVE  /\ InExecution(id) = {i \in Open(Executions) : stack[i].id = id}
             /\ InExecution(id)' = {i \in Open(Executions)' : stack'[i].id = id}
    BY DEF InExecution, Executions
<1>4. ASSUME NEW id PROVE InExecution(id)' = InExecution(id)
    <2>1. {i \in Open(Executions)' : stack'[i].id = id} = {i \in Open(Executions) : stack[i].id = id}
        BY <1>1, <1>2
    <2> QED
        BY <1>3, <2>1
<1> QED
    BY <1>4 DEF SameExecutions

\* Steps that execute nothing.
LEMMA QuietExecutions ==
    ASSUME OnceInv, SameExecutions,
           received' = received, failed' = failed, executed' = executed
    PROVE  OnceInv'
BY Zenon DEF OnceInv, Once, SameExecutions

\* A message that is being executed has not been executed, and has when it ends.
LEMMA ExecutionEnds ==
    ASSUME CallsTypeOK, OneReceives, OnceInv, Popped, TopIs(Executions),
           executed' = [executed EXCEPT ![Top.id] = @ + 1],
           received' = received, failed' = failed
    PROVE  OnceInv'
<1>1. Top.id \in ReceivedIDs /\ Len(stack) \in Open(Executions)
    BY ExecuteTop DEF CallsTypeOK
<1>2. Len(stack) \in InExecution(Top.id)
    BY <1>1 DEF InExecution, Executions, Top
<1>3. Top.id \in received /\ Top.id \notin failed /\ executed[Top.id] = 0
    <2>1. Once(Top.id) /\ executed[Top.id] \in Nat
        BY <1>1 DEF OnceInv, CallsTypeOK
    <2> QED
        BY <1>2, <2>1 DEF Once
<1>4. \A id : InExecution(id)' = {}
    BY PopExecutions DEF CallsTypeOK
<1>5. /\ executed'[Top.id] = 1
      /\ \A id \in ReceivedIDs : id # Top.id => executed'[id] = executed[id]
    BY <1>1, <1>3 DEF CallsTypeOK
<1>6. ASSUME NEW id \in ReceivedIDs PROVE Once(id)'
    <2>1. Once(id) /\ InExecution(id)' = {}
        BY <1>4 DEF OnceInv
    <2>2. CASE id = Top.id
        <3>1. executed'[id] = 1 /\ id \in received' /\ id \notin failed'
            BY <1>3, <1>5, <2>2
        <3> QED
            BY <2>1, <3>1 DEF Once
    <2>3. CASE id # Top.id
        <3>1. executed'[id] = executed[id]
            BY <1>5, <2>3
        <3> QED
            BY <2>1, <3>1 DEF Once
    <2> QED
        BY <2>2, <2>3
<1> QED
    BY <1>6 DEF OnceInv

LEMMA StepKeepsOnce ==
    ASSUME CallsTypeOK, NoRecursion, OnceInv, Step
    PROVE  OnceInv'
<1>0. /\ StackTypeOK /\ OneReceives /\ failed \subseteq received
      /\ executed \in [ReceivedIDs -> Nat]
    BY GuardParts DEF CallsTypeOK
<1>1. ASSUME stack' = stack PROVE SameExecutions
    BY <1>1 DEF SameExecutions, InExecution, Open
<1>2. CASE SendStep
    <2>1. PICK carried : BeganSend(carried) \/ SentAtOnce(carried)
        BY <1>2, SendEffect
    <2>2. received' = received /\ failed' = failed /\ executed' = executed
        BY <2>1 DEF BeganSend, SentAtOnce, receiverVars
    <2>3. CASE BeganSend(carried)
        <3>1. Pushed(SendFrame(carried)) /\ SendFrame(carried).op \notin Executions
            BY <2>3 DEF BeganSend, SendFrame, Executions
        <3> QED
            BY <1>0, <2>2, <3>1, PushExecutions, QuietExecutions
    <2>4. CASE SentAtOnce(carried)
        BY <1>1, <2>2, <2>4, QuietExecutions DEF SentAtOnce
    <2> QED
        BY <2>1, <2>3, <2>4
<1>3. CASE EndSend \/ EndAddFeeAmount \/ EndRedeem
    <2>1. Popped /\ Top.op \notin Executions
        BY <1>0, <1>3, EndPops DEF EndSend, EndAddFeeAmount, EndRedeem, TopIs, Executions
    <2>2. received' = received /\ failed' = failed /\ executed' = executed
        BY <1>3 DEF EndSend, EndAddFeeAmount, EndRedeem, receiverVars
    <2> QED
        BY <1>0, <2>1, <2>2, PopExecutions, QuietExecutions
<1>4. ASSUME NEW id \in SentIDs, AddFeeAmount(id) PROVE OnceInv'
    <2>1. Pushed(AddFeeFrame(id)) /\ AddFeeFrame(id).op \notin Executions
        BY <1>4, BeginPushes DEF AddFeeFrame, Executions
    <2>2. received' = received /\ failed' = failed /\ executed' = executed
        BY <1>4 DEF AddFeeAmount, receiverVars
    <2> QED
        BY <1>0, <2>1, <2>2, PushExecutions, QuietExecutions
<1>5. CASE (\E amount \in 1..MaxFee : MoveTokensIn(amount)) \/ MoveTokensOut
    <2>1. SameExecutions
        BY <1>0, <1>5, MoveEffect, MoveExecutions
    <2>2. received' = received /\ failed' = failed /\ executed' = executed
        BY <1>5 DEF MoveTokensIn, MoveTokensOut, receiverVars
    <2> QED
        BY <2>1, <2>2, QuietExecutions
<1>6. ASSUME NEW id \in ReceivedIDs, NEW receipts \in Seq(Receipts), BeginReceive(id, receipts)
      PROVE  OnceInv'
    <2>1. /\ Pushed(ReceiveFrame(id, receipts)) /\ ReceiveFrame(id, receipts).id = id
          /\ id \notin received /\ received' = received \cup {id}
          /\ failed' = failed /\ executed' = executed
        BY <1>6, BeginPushes DEF BeginReceive, ReceiveFrame
    <2>2. \A other : other # id => InExecution(other)' = InExecution(other)
        BY <1>0, <2>1, PushExecutions
    <2>3. executed[id] = 0 /\ id \notin failed
        BY <1>0, <2>1 DEF OnceInv, Once
    <2>4. ASSUME NEW other \in ReceivedIDs PROVE Once(other)'
        <3>1. CASE other = id
            BY <2>1, <2>3, <3>1 DEF Once
        <3>2. CASE other # id
            BY <2>1, <2>2, <3>2 DEF Once, OnceInv
        <3> QED
            BY <3>1, <3>2
    <2> QED
        BY <2>4 DEF OnceInv
<1>7. ASSUME NEW id \in ReceivedIDs, NEW receipts \in Seq(Receipts), NEW nonEmpty \in BOOLEAN,
             ReceiveUnexecuted(id, receipts, nonEmpty)
      PROVE  OnceInv'
    <2>1. /\ SameExecutions /\ id \notin received /\ received' = received \cup {id}
          /\ executed' = executed
          /\ failed' \subseteq failed \cup {id}
        BY <1>1, <1>7 DEF ReceiveUnexecuted
    <2>2. executed[id] = 0 /\ InExecution(id) = {}
        BY <1>0, <2>1 DEF OnceInv, Once
    <2>3. ASSUME NEW other \in ReceivedIDs PROVE Once(other)'
        <3>1. InExecution(other)' = InExecution(other) /\ Once(other)
            BY <2>1 DEF SameExecutions, OnceInv
        <3>2. CASE other = id
            BY <2>1, <2>2, <3>1, <3>2 DEF Once
        <3>3. CASE other # id
            BY <2>1, <3>1, <3>3 DEF Once
        <3> QED
            BY <3>2, <3>3
    <2> QED
        BY <2>3 DEF OnceInv
<1>8. CASE EndReceive \/ EndRetryExecution
    <2>1. /\ Popped /\ TopIs(Executions) /\ received' = received /\ failed' = failed
          /\ executed' = [executed EXCEPT ![Top.id] = @ + 1]
        BY <1>0, <1>8, EndPops DEF EndReceive, EndRetryExecution, TopIs, Executions
    <2> QED
        BY <1>0, <2>1, ExecutionEnds
<1>9. ASSUME NEW id \in ReceivedIDs, BeginRetryExecution(id) PROVE OnceInv'
    <2>1. /\ Pushed(RetryFrame(id)) /\ RetryFrame(id).id = id
          /\ id \in failed /\ failed' = failed \ {id}
          /\ received' = received /\ executed' = executed
        BY <1>9, BeginPushes DEF BeginRetryExecution, ClearFailed, RetryFrame
    <2>2. \A other : other # id => InExecution(other)' = InExecution(other)
        BY <1>0, <2>1, PushExecutions
    <2>3. executed[id] = 0 /\ id \in received
        BY <1>0, <2>1 DEF OnceInv, Once
    <2>4. ASSUME NEW other \in ReceivedIDs PROVE Once(other)'
        <3>1. CASE other = id
            BY <2>1, <2>3, <3>1 DEF Once
        <3>2. CASE other # id
            BY <2>1, <2>2, <3>2 DEF Once, OnceInv
        <3> QED
            BY <3>1, <3>2
    <2> QED
        BY <2>4 DEF OnceInv
<1>10. ASSUME NEW r \in Relayers, BeginRedeem(r) PROVE OnceInv'
    <2>1. Pushed(RedeemFrame(r)) /\ RedeemFrame(r).op \notin Executions
        BY <1>10, BeginPushes DEF RedeemFrame, Executions
    <2>2. received' = received /\ failed' = failed /\ executed' = executed
        BY <1>10 DEF BeginRedeem, receiverVars
    <2> QED
        BY <1>0, <2>1, <2>2, PushExecutions, QuietExecutions
<1> QED
    BY <1>2, <1>3, <1>4, <1>5, <1>6, <1>7, <1>8, <1>9, <1>10, KnownReceiptsType
       DEF Step, ReceiveStep

-----------------------------------------------------------------------------
(* The inductive invariant                                                 *)

IInv == TypeOK /\ NoRecursion /\ Solvent /\ Measured /\ ReceiptKept /\ IDsUsed /\ OnceInv

LEMMA InitIInv == Init => IInv
<1> SUFFICES ASSUME Init PROVE IInv
    OBVIOUS
<1>1. /\ R \in Nat /\ MaxSent \in Nat /\ MaxDepth \in Nat /\ 0 <= MaxDepth /\ 0 <= MaxSent
    BY ReentrantAssumption
<1>2. stack \in Seq(Frames) /\ Len(stack) = 0 /\ DOMAIN stack = {}
    BY EmptySeq DEF Init
<1>3. carriedReceipts \in [SentIDs -> Seq(ReceivedIDs)] /\ receiptQueue \in Seq(ReceivedIDs)
    BY EmptySeq DEF Init
<1>4. TypeOK
    <2>1. sendEntered \in BOOLEAN /\ receiveEntered \in BOOLEAN
        BY Zenon DEF Init
    <2>2. /\ latestMessageID \in 0..MaxSent /\ accepted \in 0..latestMessageID
          /\ stored \subseteq SentIDs /\ feeAmounts \in [SentIDs -> Nat]
          /\ received \subseteq ReceivedIDs /\ failed \subseteq received
          /\ executed \in [ReceivedIDs -> Nat] /\ rewards \in [Relayers -> Nat]
          /\ holdings \in Nat
        BY <1>1 DEF Init
    <2>3. Len(stack) <= MaxDepth
        BY <1>1, <1>2
    <2> QED
        BY <1>2, <1>3, <2>1, <2>2, <2>3 DEF TypeOK
<1>5. \A ops : Open(ops) = {}
    BY <1>2 DEF Open
<1>6. NoRecursion
    BY <1>5 DEF Init, NoRecursion
<1>7. Owed = 0
    <2>1. SlotSum(feeAmounts, MaxSent) = 0 /\ SlotSum(rewards, R) = 0
        BY <1>1, SlotSumZero DEF Init, SentIDs, Relayers
    <2>2. Payouts = [i \in 1..MaxDepth |-> 0]
        BY <1>2 DEF Payouts
    <2>3. SlotSum(Payouts, MaxDepth) = 0
        BY <1>1, <2>2, SlotSumZero
    <2> QED
        BY <2>1, <2>3 DEF Owed
<1>8. Solvent /\ Measured
    BY <1>5, <1>7 DEF Init, Solvent, Measured
<1>9. ReceiptKept /\ IDsUsed
    BY <1>5 DEF Init, ReceiptKept, IDsUsed
<1>10. OnceInv
    <2>1. \A id : InExecution(id) = {}
        BY <1>5 DEF InExecution
    <2> QED
        BY <2>1 DEF Init, OnceInv, Once
<1> QED
    BY <1>4, <1>6, <1>8, <1>9, <1>10 DEF IInv

LEMMA NextIInv ==
    ASSUME IInv, [Next]_vars
    PROVE  IInv'
<1>1. CASE Next
    <2>1. CallsTypeOK /\ accepted \in 0..latestMessageID /\ Step /\ Accept
        BY <1>1, TypeParts DEF IInv, Next
    <2>2. CallsTypeOK' /\ latestMessageID <= latestMessageID'
        BY <2>1, StepKeepsTypes
    <2>3. TypeOK'
        <3>1. accepted' \in 0..latestMessageID'
            BY <2>1, <2>2, ReentrantAssumption DEF Accept, CallsTypeOK
        <3> QED
            BY <2>2, <3>1 DEF TypeOK, CallsTypeOK, StackTypeOK, Ledger, Ledgers
    <2>4. NoRecursion'
        BY <2>1, StepKeepsGuards DEF IInv
    <2>5. Solvent' /\ Measured'
        BY <2>1, <2>2, StepKeepsMoney DEF IInv
    <2>6. ReceiptKept' /\ IDsUsed'
        BY <2>1, StepKeepsReceipts DEF IInv
    <2>7. OnceInv'
        BY <2>1, StepKeepsOnce DEF IInv
    <2> QED
        BY <2>3, <2>4, <2>5, <2>6, <2>7 DEF IInv
<1>2. CASE UNCHANGED vars
    BY <1>2 DEF IInv, TypeOK, NoRecursion, Solvent, Owed, Payouts, Measured, ReceiptKept, IDsUsed,
       OnceInv, Once, InExecution, Open, vars
<1> QED
    BY <1>1, <1>2

\* The properties hold together in every reachable state.
THEOREM ReentrantSafety == Spec => []IInv
<1>1. IInv /\ [Next]_vars => IInv'
    BY NextIInv
<1> QED
    BY <1>1, InitIInv, PTL DEF Spec

\* The state of the messenger is well-formed at any depth of calls.
THEOREM ReentrantTypeCorrect == Spec => []TypeOK
<1>1. IInv => TypeOK
    BY DEF IInv
<1> QED
    BY <1>1, ReentrantSafety, PTL

\* However calls are nested, one that sends and one that receives run at most,
\* and each guard is set exactly as long (ReentrancyGuards).
THEOREM NeverRecursive == Spec => []NoRecursion
<1>1. IInv => NoRecursion
    BY DEF IInv
<1> QED
    BY <1>1, ReentrantSafety, PTL

\* Fees, rewards and payments under way never exceed the tokens held, at any
\* point of any nesting of calls (SafeERC20TransferFrom measures a balance that
\* the calls of the token may change).
THEOREM AlwaysSolvent == Spec => []Solvent
<1>1. IInv => Solvent
    BY DEF IInv
<1> QED
    BY <1>1, ReentrantSafety, PTL

\* A receipt taken from the queue by a send that is called back is not lost.
THEOREM ReceiptAlwaysKept == Spec => []ReceiptKept
<1>1. IInv => ReceiptKept
    BY DEF IInv
<1> QED
    BY <1>1, ReentrantSafety, PTL

\* No message is executed twice, whatever its execution calls.
THEOREM NeverExecutedTwice == Spec => []ExecutedOnce
<1>1. IInv => ExecutedOnce
    BY OnceImplies DEF IInv
<1> QED
    BY <1>1, ReentrantSafety, PTL

\* A step does not store a settled message, unless a send for it is under way.
LEMMA StepSettles ==
    ASSUME CallsTypeOK, Step, NEW id \in 1..latestMessageID, id \notin stored,
           \A i \in Open({"send"}) : stack[i].id # id
    PROVE  id \notin stored'
<1>0. StackTypeOK /\ latestMessageID \in Nat
    BY ReentrantAssumption DEF CallsTypeOK
<1>1. CASE stored' \subseteq stored
    BY <1>1
<1>2. CASE SendStep
    <2>1. PICK carried : BeganSend(carried) \/ SentAtOnce(carried)
        BY <1>2, SendEffect
    <2>2. stored' \subseteq stored \cup {NewID}
        BY <2>1 DEF BeganSend, SentAtOnce, Store
    <2>3. id # NewID
        BY <1>0 DEF NewID
    <2> QED
        BY <2>2, <2>3
<1>3. CASE EndSend
    <2>1. stored' = stored \cup {Top.id} /\ TopIs({"send"})
        BY <1>3 DEF EndSend, StoreSent, Store
    <2>2. Len(stack) \in Open({"send"})
        BY <1>0, <2>1, TopIsOpen
    <2>3. Top.id # id
        BY <2>2 DEF Top
    <2> QED
        BY <2>1, <2>3
<1>4. ASSUME NEW other \in ReceivedIDs, NEW receipts \in Seq(Receipts), NEW nonEmpty \in BOOLEAN,
             ReceiveUnexecuted(other, receipts, nonEmpty)
      PROVE  id \notin stored'
    BY <1>4, FinishEffect DEF ReceiveUnexecuted
<1>5. CASE EndReceive
    <2>1. TopIs(Executions) /\ FinishReceive(Top.id, Top.receipts)
        BY <1>5 DEF EndReceive, TopIs, Executions
    <2>2. Top.id \in ReceivedIDs /\ Top.receipts \in Seq(Receipts)
        BY <1>0, <2>1, ExecuteTop
    <2> QED
        BY <2>1, <2>2, FinishEffect
<1>6. ASSUME NEW other, AddFeeAmount(other) PROVE stored' = stored
    BY <1>6 DEF AddFeeAmount, senderVars
<1>7. CASE \/ EndAddFeeAmount \/ MoveTokensOut \/ EndRetryExecution \/ EndRedeem
           \/ \E amount \in 1..MaxFee : MoveTokensIn(amount)
    BY <1>7 DEF EndAddFeeAmount, AddToFee, MoveTokensIn, MoveTokensOut, EndRetryExecution,
       EndRedeem, senderVars
<1>8. ASSUME NEW other, NEW receipts, BeginReceive(other, receipts) PROVE stored' = stored
    BY <1>8 DEF BeginReceive, senderVars
<1>9. ASSUME NEW other, BeginRetryExecution(other) \/ BeginRedeem(other) PROVE stored' = stored
    BY <1>9 DEF BeginRetryExecution, BeginRedeem, senderVars
<1> QED
    BY <1>1, <1>2, <1>3, <1>4, <1>5, <1>6, <1>7, <1>8, <1>9, KnownReceiptsType
       DEF Step, ReceiveStep

\* In no run is a settled message stored again: a fee added, a message sent or
\* retried and receipts received in the middle of one another leave it settled.
THEOREM AlwaysSettledForGood == Spec => SettledForGood
<1> DEFINE Settles == \A id \in 1..latestMessageID :
                          /\ id \notin stored
                          /\ \A i \in Open({"send"}) : stack[i].id # id
                          => id \notin stored'
<1>1. IInv /\ [Next]_vars => [Settles]_vars
    <2> SUFFICES ASSUME IInv, Next PROVE Settles
        OBVIOUS
    <2>1. CallsTypeOK /\ Step
        BY TypeParts DEF IInv, Next
    <2> QED
        BY <2>1, StepSettles
<1> QED
    BY <1>1, ReentrantSafety, PTL DEF Spec, SettledForGood
=============================================================================
