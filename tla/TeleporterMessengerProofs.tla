---------------------- MODULE TeleporterMessengerProofs ----------------------
(***************************************************************************)
(* What TLAPS proves of TeleporterMessenger for any chains, relayers and   *)
(* tokens, any number of messages and any bounds.                          *)
(***************************************************************************)
EXTENDS TeleporterMessenger, CommonLemmas

\* A batch of receipts and the rest of the queue hold entries of the queue, and
\* between them every entry.
LEMMA BatchProperties ==
    ASSUME NEW S, NEW q \in Seq(S)
    PROVE  /\ OutstandingReceipts(q) \in Seq(S)
           /\ QueueAfterSending(q) \in Seq(S)
           /\ \A i \in DOMAIN OutstandingReceipts(q) :
                  \E j \in DOMAIN q : OutstandingReceipts(q)[i] = q[j]
           /\ \A i \in DOMAIN QueueAfterSending(q) :
                  \E j \in DOMAIN q : QueueAfterSending(q)[i] = q[j]
           /\ \A j \in DOMAIN q :
                  \/ \E i \in DOMAIN OutstandingReceipts(q) : OutstandingReceipts(q)[i] = q[j]
                  \/ \E i \in DOMAIN QueueAfterSending(q) : QueueAfterSending(q)[i] = q[j]
<1> DEFINE n == NumberToSend(q)
<1>1. n \in 0..Len(q)
    BY MaxReceiptCountAssumption, LenProperties DEF NumberToSend
<1>2. OutstandingReceipts(q) = SubSeq(q, 1, n) /\ QueueAfterSending(q) = SubSeq(q, n + 1, Len(q))
    BY DEF OutstandingReceipts, QueueAfterSending
<1> HIDE DEF n
<1> QED
    BY <1>1, <1>2, SplitProperties

-----------------------------------------------------------------------------
(* The receipts of a delivered message                                     *)

\* The part of the state that the loop over the receipts changes.
Ledgers == [sent    : [MessageKeys -> SentMessageInfos \cup {Zero}],
            rewards : [Relayers \X FeeAssets -> Nat]]

\* One receipt deletes the message it names, if it is stored, and nothing else.
LEMMA MarkReceiptEffect ==
    ASSUME NEW c \in Chains, NEW d \in Chains, NEW receipt \in Receipts,
           NEW ledger \in Ledgers
    PROVE  /\ MarkReceipt(ledger, c, d, receipt) \in Ledgers
           /\ MarkReceipt(ledger, c, d, receipt).sent =
                  [k \in MessageKeys |->
                      IF k = Key(c, d, receipt.receivedMessageID)
                      THEN Zero ELSE ledger.sent[k]]
<1> DEFINE key  == Key(c, d, receipt.receivedMessageID)
           info == ledger.sent[key]
<1>1. key \in MessageKeys
    BY DEF Key, MessageKeys, Receipts
<1>2. /\ ledger.sent \in [MessageKeys -> SentMessageInfos \cup {Zero}]
      /\ ledger.rewards \in [Relayers \X FeeAssets -> Nat]
    BY DEF Ledgers
<1>3. CASE info = Zero
    <2>1. MarkReceipt(ledger, c, d, receipt) = ledger
        BY <1>3 DEF MarkReceipt
    <2>2. ledger.sent = [k \in MessageKeys |-> IF k = key THEN Zero ELSE ledger.sent[k]]
        BY <1>1, <1>2, <1>3
    <2> QED
        BY <2>1, <2>2
<1>4. CASE info # Zero
    <2>1. info.feeInfo \in FeeInfos
        BY <1>1, <1>2, <1>4 DEF SentMessageInfos
    <2>2. /\ receipt.relayerRewardAddress \in Relayers
          /\ info.feeInfo.feeTokenAddress \in FeeAssets
          /\ info.feeInfo.amount \in Nat
        BY <2>1 DEF FeeInfos, Receipts
    <2>3. Credited(ledger, receipt, info.feeInfo) \in [Relayers \X FeeAssets -> Nat]
        BY <1>2, <2>2 DEF Credited
    <2>4. [ledger.sent EXCEPT ![key] = Zero] =
              [k \in MessageKeys |-> IF k = key THEN Zero ELSE ledger.sent[k]]
        BY <1>1, <1>2
    <2>5. [ledger.sent EXCEPT ![key] = Zero] \in [MessageKeys -> SentMessageInfos \cup {Zero}]
        BY <1>1, <1>2
    <2>6. MarkReceipt(ledger, c, d, receipt) =
              [sent    |-> [ledger.sent EXCEPT ![key] = Zero],
               rewards |-> Credited(ledger, receipt, info.feeInfo)]
        BY <1>4 DEF MarkReceipt
    <2> HIDE DEF key, info
    <2> QED
        BY <2>3, <2>4, <2>5, <2>6 DEF Ledgers, key
<1>5. QED
    BY <1>3, <1>4

\* The loop of receiveCrossChainMessage on chain c, as the equation its states obey.
LoopStep(c, d, receipts, after, i) ==
    IF i = 0
    THEN [sent |-> sentMessageInfo, rewards |-> relayerRewardAmounts[c]]
    ELSE MarkReceipt(after[i - 1], c, d, receipts[i])
IsLoop(c, d, receipts, n, after) ==
    after = [i \in 0..n |-> LoopStep(c, d, receipts, after, i)]

\* The loop can be run over any number of the receipts.
LEMMA LoopExists ==
    ASSUME NEW c \in Chains, NEW d \in Chains, NEW receipts \in Seq(Receipts),
           LedgerTypeOK
    PROVE  \A n \in Nat : n <= Len(receipts) =>
               \E after \in [0..n -> Ledgers] : IsLoop(c, d, receipts, n, after)
<1> DEFINE S == {n \in Nat : n <= Len(receipts) =>
               \E after \in [0..n -> Ledgers] : IsLoop(c, d, receipts, n, after)}
           start == [sent |-> sentMessageInfo, rewards |-> relayerRewardAmounts[c]]
<1>1. start \in Ledgers
    BY DEF LedgerTypeOK, Ledgers
<1>2. 0 \in S
    <2> DEFINE f == [i \in 0..0 |-> start]
    <2>1. f \in [0..0 -> Ledgers]
        BY <1>1
    <2>2. IsLoop(c, d, receipts, 0, f)
        BY DEF IsLoop, LoopStep
    <2> HIDE DEF f
    <2> QED
        BY <2>1, <2>2
<1>3. ASSUME NEW n \in Nat, n \in S PROVE n + 1 \in S
    <2> SUFFICES ASSUME n + 1 <= Len(receipts)
                 PROVE  \E after \in [0..(n + 1) -> Ledgers] :
                            IsLoop(c, d, receipts, n + 1, after)
        OBVIOUS
    <2>1. Len(receipts) \in Nat
        BY LenProperties
    <2>2. PICK g \in [0..n -> Ledgers] : IsLoop(c, d, receipts, n, g)
        BY <1>3, <2>1
    <2> DEFINE f == [i \in 0..(n + 1) |->
                        IF i = n + 1 THEN MarkReceipt(g[n], c, d, receipts[n + 1]) ELSE g[i]]
    <2>3. receipts[n + 1] \in Receipts
        BY <2>1, ElementOfSeq
    <2>4. MarkReceipt(g[n], c, d, receipts[n + 1]) \in Ledgers
        <3>1. g[n] \in Ledgers
            OBVIOUS
        <3> QED
            BY <3>1, <2>3, MarkReceiptEffect
    <2>5. f \in [0..(n + 1) -> Ledgers]
        BY <2>4
    <2>6. \A i \in 0..n : f[i] = g[i] /\ g[i] = LoopStep(c, d, receipts, g, i)
        BY <2>2 DEF IsLoop
    <2>7. \A i \in 0..(n + 1) : f[i] = LoopStep(c, d, receipts, f, i)
        <3> TAKE i \in 0..(n + 1)
        <3>1. CASE i = n + 1
            BY <3>1, <2>6 DEF LoopStep
        <3>2. CASE i # n + 1
            <4>1. i \in 0..n /\ (i # 0 => i - 1 \in 0..n)
                BY <3>2
            <4> QED
                BY <4>1, <2>6 DEF LoopStep
        <3> QED
            BY <3>1, <3>2
    <2>8. IsLoop(c, d, receipts, n + 1, f)
        BY <2>7 DEF IsLoop
    <2> HIDE DEF f
    <2> QED
        BY <2>5, <2>8
<1> HIDE DEF S
<1>4. \A n \in Nat : n \in S
    BY <1>2, <1>3, NatSetInduction
<1> QED
    BY <1>4 DEF S

\* The loop, as MarkFirst runs it, obeys its equation.
LEMMA MarkFirstIsLoop ==
    ASSUME NEW c \in Chains, NEW d \in Chains, NEW receipts \in Seq(Receipts),
           LedgerTypeOK
    PROVE  \E after : /\ IsLoop(c, d, receipts, Len(receipts), after)
                      /\ \A n : MarkFirst(c, d, receipts, n) = after[n]
<1> DEFINE f == CHOOSE after : IsLoop(c, d, receipts, Len(receipts), after)
<1>1. Len(receipts) \in Nat
    BY LenProperties
<1>2. IsLoop(c, d, receipts, Len(receipts), f)
    BY <1>1, LoopExists
<1>3. \A n : MarkFirst(c, d, receipts, n) = f[n]
    BY DEF MarkFirst, IsLoop, LoopStep
<1> HIDE DEF f
<1> QED
    BY <1>2, <1>3

\* After n receipts, exactly the messages that they name are deleted.
LEMMA MarkFirstEffect ==
    ASSUME NEW c \in Chains, NEW d \in Chains, NEW receipts \in Seq(Receipts),
           LedgerTypeOK
    PROVE  \A n \in Nat : n <= Len(receipts) =>
             /\ MarkFirst(c, d, receipts, n) \in Ledgers
             /\ MarkFirst(c, d, receipts, n).sent =
                    [k \in MessageKeys |->
                        IF \E i \in 1..n : k = Key(c, d, receipts[i].receivedMessageID)
                        THEN Zero ELSE sentMessageInfo[k]]
<1> DEFINE Marked(n) == \A k \in MessageKeys : MarkFirst(c, d, receipts, n).sent[k] =
                           IF \E i \in 1..n : k = Key(c, d, receipts[i].receivedMessageID)
                           THEN Zero ELSE sentMessageInfo[k]
           S == {n \in Nat : n <= Len(receipts) =>
                    MarkFirst(c, d, receipts, n) \in Ledgers /\ Marked(n)}
<1>0. Len(receipts) \in Nat
    BY LenProperties
<1>1. PICK after : /\ IsLoop(c, d, receipts, Len(receipts), after)
                   /\ \A n : MarkFirst(c, d, receipts, n) = after[n]
    BY MarkFirstIsLoop
<1>2. \A n \in 0..Len(receipts) :
          MarkFirst(c, d, receipts, n) =
              IF n = 0
              THEN [sent |-> sentMessageInfo, rewards |-> relayerRewardAmounts[c]]
              ELSE MarkReceipt(MarkFirst(c, d, receipts, n - 1), c, d, receipts[n])
    BY <1>1 DEF IsLoop, LoopStep
<1>3. 0 \in S
    <2>1. MarkFirst(c, d, receipts, 0) =
              [sent |-> sentMessageInfo, rewards |-> relayerRewardAmounts[c]]
        BY <1>0, <1>2
    <2>2. MarkFirst(c, d, receipts, 0) \in Ledgers
        <3>1. [sent |-> sentMessageInfo, rewards |-> relayerRewardAmounts[c]] \in Ledgers
            BY DEF LedgerTypeOK, Ledgers
        <3> QED
            BY <2>1, <3>1
    <2>3. Marked(0)
        BY <2>1
    <2> QED
        BY <2>2, <2>3
<1>4. ASSUME NEW n \in Nat, n \in S PROVE n + 1 \in S
    <2> SUFFICES ASSUME n + 1 <= Len(receipts)
                 PROVE  MarkFirst(c, d, receipts, n + 1) \in Ledgers /\ Marked(n + 1)
        OBVIOUS
    <2> DEFINE old == MarkFirst(c, d, receipts, n)
    <2>1. old \in Ledgers /\ Marked(n)
        BY <1>0, <1>4
    <2>2. MarkFirst(c, d, receipts, n + 1) = MarkReceipt(old, c, d, receipts[n + 1])
        BY <1>0, <1>2
    <2>3. receipts[n + 1] \in Receipts
        BY <1>0, ElementOfSeq
    <2> HIDE DEF old, Marked
    <2>4. /\ MarkReceipt(old, c, d, receipts[n + 1]) \in Ledgers
          /\ MarkReceipt(old, c, d, receipts[n + 1]).sent =
                [k \in MessageKeys |->
                    IF k = Key(c, d, receipts[n + 1].receivedMessageID)
                    THEN Zero ELSE old.sent[k]]
        <3>1. old \in Ledgers
            BY <2>1
        <3> HIDE DEF S
        <3>2. \A r \in Receipts :
                 /\ MarkReceipt(old, c, d, r) \in Ledgers
                 /\ MarkReceipt(old, c, d, r).sent =
                       [k \in MessageKeys |->
                           IF k = Key(c, d, r.receivedMessageID) THEN Zero ELSE old.sent[k]]
            BY <3>1, MarkReceiptEffect
        <3> QED
            BY <3>2, <2>3
    <2>5. ASSUME NEW k \in MessageKeys
          PROVE  MarkFirst(c, d, receipts, n + 1).sent[k] =
                     IF \E i \in 1..(n + 1) : k = Key(c, d, receipts[i].receivedMessageID)
                     THEN Zero ELSE sentMessageInfo[k]
        <3>1. MarkFirst(c, d, receipts, n + 1).sent[k] =
                 IF k = Key(c, d, receipts[n + 1].receivedMessageID)
                 THEN Zero ELSE old.sent[k]
            BY <2>2, <2>4
        <3>2. old.sent[k] = IF \E i \in 1..n : k = Key(c, d, receipts[i].receivedMessageID)
                            THEN Zero ELSE sentMessageInfo[k]
            BY <2>1 DEF old, Marked
        <3> QED
            BY <3>1, <3>2
    <2> QED
        BY <2>2, <2>4, <2>5 DEF Marked
<1> HIDE DEF S
<1>5. \A n \in Nat : n \in S
    BY <1>3, <1>4, NatSetInduction
<1>6. ASSUME NEW n \in Nat, n <= Len(receipts)
      PROVE  /\ MarkFirst(c, d, receipts, n) \in Ledgers
             /\ MarkFirst(c, d, receipts, n).sent =
                    [k \in MessageKeys |->
                        IF \E i \in 1..n : k = Key(c, d, receipts[i].receivedMessageID)
                        THEN Zero ELSE sentMessageInfo[k]]
    <2>1. MarkFirst(c, d, receipts, n) \in Ledgers /\ Marked(n)
        BY <1>5, <1>6 DEF S
    <2>2. MarkFirst(c, d, receipts, n).sent \in [MessageKeys -> SentMessageInfos \cup {Zero}]
        BY <2>1 DEF Ledgers
    <2> QED
        BY <2>1, <2>2
<1> QED
    BY <1>6

\* What MarkReceipts does to the messages stored on chain c.
LEMMA MarkReceiptsEffect ==
    ASSUME NEW c \in Chains, NEW d \in Chains, NEW receipts \in Seq(Receipts),
           LedgerTypeOK
    PROVE  /\ MarkReceipts(c, d, receipts) \in Ledgers
           /\ MarkReceipts(c, d, receipts).sent =
                  [k \in MessageKeys |->
                      IF k.src = c /\ k.dst = d /\ Names(receipts, k)
                      THEN Zero ELSE sentMessageInfo[k]]
<1>1. Len(receipts) \in Nat /\ DOMAIN receipts = 1..Len(receipts)
    BY LenProperties
<1>2. \A k \in MessageKeys :
          k.src = c /\ k.dst = d /\ Names(receipts, k)
          <=> \E i \in 1..Len(receipts) : k = Key(c, d, receipts[i].receivedMessageID)
    BY <1>1 DEF MessageKeys, Key, Names
<1>3. /\ MarkFirst(c, d, receipts, Len(receipts)) \in Ledgers
      /\ MarkFirst(c, d, receipts, Len(receipts)).sent =
             [k \in MessageKeys |->
                 IF \E i \in 1..Len(receipts) : k = Key(c, d, receipts[i].receivedMessageID)
                 THEN Zero ELSE sentMessageInfo[k]]
    BY <1>1, MarkFirstEffect
<1> QED
    BY <1>2, <1>3 DEF MarkReceipts

-----------------------------------------------------------------------------
(* Type correctness                                                        *)

\* A token deposit is a natural number of tokens.
LEMMA DepositType ==
    ASSUME balances \in [Chains -> [Tokens -> Nat]],
           NEW c \in Chains, NEW asset, NEW amount \in Nat
    PROVE  Deposit(c, asset, amount) \in [Chains -> [Tokens -> Nat]]
<1>1. [t \in Tokens |-> IF t = asset THEN balances[c][t] + amount ELSE balances[c][t]]
          \in [Tokens -> Nat]
    OBVIOUS
<1> QED
    BY <1>1 DEF Deposit

\* A stored message keeps its type when its fee is increased.
LEMMA IncreasedFeeType ==
    ASSUME NEW info \in SentMessageInfos, NEW n \in Nat
    PROVE  [info EXCEPT !.feeInfo.amount = @ + n] \in SentMessageInfos
<1> DEFINE old == info.feeInfo
           new == [feeTokenAddress |-> old.feeTokenAddress, amount |-> old.amount + n]
<1>1. old \in FeeInfos /\ info.messageHash \in Messages
    BY DEF SentMessageInfos
<1>2. old.feeTokenAddress \in FeeAssets /\ old.amount \in Nat
    BY <1>1 DEF FeeInfos
<1>3. [old EXCEPT !.amount = @ + n] = new
    BY <1>1 DEF FeeInfos
<1>4. new \in FeeInfos
    BY <1>2 DEF FeeInfos
<1>5. [info EXCEPT !.feeInfo.amount = @ + n] = [info EXCEPT !.feeInfo = new]
    BY <1>3
<1>6. [info EXCEPT !.feeInfo = new] \in SentMessageInfos
    BY <1>4 DEF SentMessageInfos
<1> QED
    BY <1>5, <1>6

\* The variables a send changes keep their types.
SentTypes ==
    /\ latestMessageIDs' \in [Chains -> [Chains -> 0..MaxMessageID]]
    /\ balances' \in [Chains -> [Tokens -> Nat]]
    /\ sentMessageInfo' \in [MessageKeys -> SentMessageInfos \cup {Zero}]
    /\ warpMessages' \subseteq WarpMessages

\* What sending a message stores.
LEMMA SendEffect ==
    ASSUME TypeOK, NEW c \in Chains, NEW d \in Chains, NEW fee \in FeeInfos,
           NEW received \in Nat, NEW allowed \in SUBSET Relayers,
           NEW nonEmpty \in BOOLEAN, NEW receipts \in Seq(Receipts),
           SendTeleporterMessage(c, d, fee, received, allowed, nonEmpty, receipts)
    PROVE  SentTypes
<1> DEFINE m  == NewMessage(c, d, allowed, nonEmpty, receipts)
           id == NextMessageID(c, d)
           info == [messageHash |-> m, feeInfo |-> AdjustedFeeInfo(fee, received)]
<1>1. id \in 1..MaxMessageID
    BY BoundsAssumption DEF TypeOK, NextMessageID, SendTeleporterMessage
<1>2. m \in Messages
    BY <1>1 DEF NewMessage, Messages, MessageIDs
<1>3. info \in SentMessageInfos
    <2>1. AdjustedFeeInfo(fee, received) \in FeeInfos
        BY DEF AdjustedFeeInfo, FeeInfos
    <2> HIDE DEF m
    <2> QED
        BY <1>2, <2>1 DEF SentMessageInfos
<1>4. Key(c, d, id) \in MessageKeys
    BY <1>1 DEF Key, MessageKeys, MessageIDs
<1>5. WarpMessage(c, m) \in WarpMessages
    <2> HIDE DEF m
    <2> QED
        BY <1>2 DEF WarpMessage, WarpMessages
<1>6. /\ latestMessageIDs' = [latestMessageIDs EXCEPT ![c][d] = id]
      /\ balances' = Deposit(c, fee.feeTokenAddress, received)
      /\ sentMessageInfo' = [sentMessageInfo EXCEPT ![Key(c, d, id)] = info]
      /\ warpMessages' = warpMessages \cup {WarpMessage(c, m)}
    BY DEF SendTeleporterMessage
<1> HIDE DEF m, id, info
<1>7. latestMessageIDs' \in [Chains -> [Chains -> 0..MaxMessageID]]
    BY <1>1, <1>6 DEF TypeOK
<1>8. balances' \in [Chains -> [Tokens -> Nat]]
    BY <1>6, DepositType DEF TypeOK, LedgerTypeOK
<1>9. sentMessageInfo' \in [MessageKeys -> SentMessageInfos \cup {Zero}]
    BY <1>3, <1>4, <1>6 DEF TypeOK, LedgerTypeOK
<1>10. warpMessages' \subseteq WarpMessages
    BY <1>5, <1>6 DEF TypeOK
<1> QED
    BY <1>7, <1>8, <1>9, <1>10 DEF SentTypes

\* Receipts looked up for sendSpecifiedReceipts are well formed.
LEMMA SpecifiedReceiptsType ==
    ASSUME TypeOK, NEW c \in Chains, NEW origin \in Chains, NEW n \in Nat,
           NEW messageIDs \in [1..n -> MessageIDs],
           ReceiptsFound(origin, c, messageIDs)
    PROVE  SpecifiedReceipts(origin, c, messageIDs) \in Seq(Receipts)
<1> DEFINE r(i) == [receivedMessageID    |-> messageIDs[i],
                    relayerRewardAddress |->
                        relayerRewardAddresses[Key(origin, c, messageIDs[i])]]
<1>1. ASSUME NEW i \in 1..n PROVE r(i) \in Receipts
    <2>1. Key(origin, c, messageIDs[i]) \in MessageKeys
        BY DEF Key, MessageKeys
    <2>2. relayerRewardAddresses[Key(origin, c, messageIDs[i])] \in Relayers
        BY <2>1 DEF TypeOK, DeliveryTypeOK, ReceiptsFound, MessageReceived
    <2> QED
        BY <2>2 DEF Receipts
<1>2. SpecifiedReceipts(origin, c, messageIDs) = [i \in 1..n |-> r(i)]
    BY DEF SpecifiedReceipts
<1> HIDE DEF r
<1>3. [i \in 1..n |-> r(i)] \in Seq(Receipts)
    BY <1>1
<1> QED
    BY <1>2, <1>3

\* What a delivery finds in its warp message.
LEMMA ReceivedMessageType ==
    ASSUME TypeOK, NEW c \in Chains, NEW w \in warpMessages \cup OtherWarpMessages
    PROVE  /\ w.payload \in Messages
           /\ w.sourceChainID \in Chains
           /\ w.payload.receipts \in Seq(Receipts)
           /\ w.payload.messageID \in MessageIDs
           /\ Key(w.sourceChainID, c, w.payload.messageID) \in MessageKeys
<1>1. w \in WarpMessages
    BY InputsAssumption DEF TypeOK
<1>2. w.payload \in Messages /\ w.sourceChainID \in Chains
    BY <1>1 DEF WarpMessages
<1>3. w.payload.receipts \in Seq(Receipts) /\ w.payload.messageID \in MessageIDs
    BY <1>2 DEF Messages
<1> QED
    BY <1>2, <1>3 DEF Key, MessageKeys

\* Every message a caller can name is one.
LEMMA KnownMessagesType ==
    ASSUME TypeOK PROVE KnownMessages \subseteq Messages
<1>1. \A w \in OtherWarpMessages : w.payload \in Messages
    BY InputsAssumption DEF WarpMessages
<1>2. \A k \in MessageKeys : MessageSent(k) => sentMessageInfo[k].messageHash \in Messages
    BY DEF TypeOK, LedgerTypeOK, SentMessageInfos, MessageSent
<1>3. \A k \in MessageKeys : receivedFailedMessageHashes[k] \in Messages \cup {Zero}
    BY DEF TypeOK, DeliveryTypeOK
<1> QED
    BY <1>1, <1>2, <1>3 DEF KnownMessages

\* The initial state is well typed.
LEMMA InitTypeOK == Init => TypeOK
<1> SUFFICES ASSUME Init PROVE TypeOK
    OBVIOUS
<1>1. latestMessageIDs \in [Chains -> [Chains -> 0..MaxMessageID]]
    BY BoundsAssumption DEF Init
<1>2. sentMessageInfo \in [MessageKeys -> SentMessageInfos \cup {Zero}]
    BY DEF Init
<1>3. relayerRewardAmounts \in [Chains -> [Relayers \X FeeAssets -> Nat]]
    BY DEF Init
<1>4. balances \in [Chains -> [Tokens -> Nat]]
    BY DEF Init
<1>5. receiptQueues \in [Chains -> [Chains -> Seq(Receipts)]]
    BY DEF Init
<1>6. /\ receivedFailedMessageHashes \in [MessageKeys -> Messages \cup {Zero}]
      /\ relayerRewardAddresses \in [MessageKeys -> Relayers \cup {Zero}]
    BY DEF Init
<1>7. executed \in [MessageKeys -> Seq(Messages)]
    BY DEF Init
<1>8. warpMessages \subseteq WarpMessages /\ deployed \subseteq Chains
    BY DEF Init
<1> QED
    BY <1>1, <1>2, <1>3, <1>4, <1>5, <1>6, <1>7, <1>8 DEF TypeOK, LedgerTypeOK, DeliveryTypeOK

\* Every step keeps the types.
LEMMA NextTypeOK == TypeOK /\ [Next]_vars => TypeOK'
<1> SUFFICES ASSUME TypeOK, [Next]_vars PROVE TypeOK'
    OBVIOUS
<1> USE DEF LedgerTypeOK, DeliveryTypeOK, TypeOK
<1>1. ASSUME NEW i \in SendInputs, NEW received \in 0..MaxFee, NEW nonEmpty \in BOOLEAN,
             SendCrossChainMessage(i.src, i.dst, i.fee, received, i.allowed, nonEmpty)
      PROVE  TypeOK'
    <2>1. /\ i.src \in Chains /\ i.dst \in Chains /\ i.fee \in FeeInfos
          /\ i.allowed \in SUBSET Relayers /\ received \in Nat
        BY InputsAssumption, BoundsAssumption DEF Inputs
    <2> DEFINE q == receiptQueues[i.src][i.dst]
    <2>2. q \in Seq(Receipts)
        BY <2>1
    <2>3. OutstandingReceipts(q) \in Seq(Receipts) /\ QueueAfterSending(q) \in Seq(Receipts)
        BY <2>2, BatchProperties
    <2>4. SendTeleporterMessage(i.src, i.dst, i.fee, received, i.allowed, nonEmpty,
                                OutstandingReceipts(q))
        BY <1>1 DEF SendCrossChainMessage
    <2>5. SentTypes
        <3> DEFINE out == OutstandingReceipts(q)
                   src == i.src
                   dst == i.dst
                   fee == i.fee
                   allowed == i.allowed
        <3>1. /\ src \in Chains /\ dst \in Chains /\ fee \in FeeInfos
              /\ allowed \in SUBSET Relayers /\ received \in Nat /\ out \in Seq(Receipts)
              /\ SendTeleporterMessage(src, dst, fee, received, allowed, nonEmpty, out)
              /\ TypeOK /\ nonEmpty \in BOOLEAN
            BY <2>1, <2>3, <2>4
        <3> HIDE DEF out, src, dst, fee, allowed, q, TypeOK
        <3> QED
            BY ONLY <3>1, SendEffect, Zenon
    <2>6. receiptQueues' = [receiptQueues EXCEPT ![i.src][i.dst] = QueueAfterSending(q)]
        BY <1>1 DEF SendCrossChainMessage
    <2> HIDE DEF q
    <2>7. receiptQueues' \in [Chains -> [Chains -> Seq(Receipts)]]
        BY <2>1, <2>3, <2>6
    <2> QED
        BY <1>1, <2>5, <2>7 DEF SendCrossChainMessage, receiverVars, SentTypes
<1>2. ASSUME NEW i \in SendInputs, NEW received \in 0..MaxFee,
             NEW n \in 0..MaxSpecified, NEW messageIDs \in [1..n -> MessageIDs],
             SendSpecifiedReceipts(i.src, i.dst, messageIDs, i.fee, received, i.allowed)
      PROVE  TypeOK'
    <2>1. /\ i.src \in Chains /\ i.dst \in Chains /\ i.fee \in FeeInfos
          /\ i.allowed \in SUBSET Relayers /\ received \in Nat /\ n \in Nat
        BY InputsAssumption, BoundsAssumption DEF Inputs
    <2>2. SpecifiedReceipts(i.dst, i.src, messageIDs) \in Seq(Receipts)
        BY <1>2, <2>1, SpecifiedReceiptsType DEF SendSpecifiedReceipts
    <2>3. SendTeleporterMessage(i.src, i.dst, i.fee, received, i.allowed, FALSE,
                                SpecifiedReceipts(i.dst, i.src, messageIDs))
        BY <1>2 DEF SendSpecifiedReceipts
    <2>4. SentTypes
        BY <2>1, <2>2, <2>3, SendEffect
    <2> QED
        BY <1>2, <2>4 DEF SendSpecifiedReceipts, receiverVars, SentTypes
<1>3. ASSUME NEW c \in Chains, NEW d \in Chains, NEW m \in KnownMessages,
             RetrySendCrossChainMessage(c, d, m)
      PROVE  TypeOK'
    <2>1. WarpMessage(c, m) \in WarpMessages
        BY KnownMessagesType DEF WarpMessage, WarpMessages
    <2> QED
        BY <1>3, <2>1 DEF RetrySendCrossChainMessage, receiverVars
<1>4. ASSUME NEW k \in MessageKeys, NEW token \in FeeAssets,
             NEW additional \in 0..MaxFee, NEW received \in 0..MaxFee,
             AddFeeAmount(k, token, additional, received)
      PROVE  TypeOK'
    <2>1. k.src \in Chains /\ received \in Nat
        BY BoundsAssumption DEF MessageKeys
    <2>2. balances' \in [Chains -> [Tokens -> Nat]]
        BY <1>4, <2>1, DepositType DEF AddFeeAmount
    <2>3. sentMessageInfo[k] \in SentMessageInfos
        BY <1>4 DEF AddFeeAmount, MessageSent
    <2>4. [sentMessageInfo[k] EXCEPT !.feeInfo.amount = @ + received] \in SentMessageInfos
        <3> HIDE DEF TypeOK
        <3> QED
            BY <2>1, <2>3, IncreasedFeeType
    <2>5. sentMessageInfo' \in [MessageKeys -> SentMessageInfos \cup {Zero}]
        BY <1>4, <2>4 DEF AddFeeAmount
    <2> QED
        BY <1>4, <2>2, <2>5 DEF AddFeeAmount, receiverVars
<1>5. ASSUME NEW c \in Chains, NEW w \in warpMessages \cup OtherWarpMessages,
             NEW deliverer \in Relayers, NEW relayerRewardAddress \in Relayers,
             ReceiveCrossChainMessage(c, w, deliverer, relayerRewardAddress)
      PROVE  TypeOK'
    <2> DEFINE m == w.payload
               source == w.sourceChainID
               k == Key(source, c, m.messageID)
               ledger == MarkReceipts(c, source, m.receipts)
    <2>1. /\ m \in Messages /\ source \in Chains /\ m.receipts \in Seq(Receipts)
          /\ m.messageID \in MessageIDs /\ k \in MessageKeys
        BY ReceivedMessageType
    <2>2. ledger \in Ledgers
        BY <2>1, MarkReceiptsEffect
    <2>3. /\ relayerRewardAddresses' = [relayerRewardAddresses EXCEPT ![k] = relayerRewardAddress]
          /\ \/ HandleInitialMessageExecution(k, m)
             \/ UNCHANGED << executed, receivedFailedMessageHashes >>
          /\ sentMessageInfo' = ledger.sent
          /\ relayerRewardAmounts' = [relayerRewardAmounts EXCEPT ![c] = ledger.rewards]
          /\ receiptQueues' = [receiptQueues EXCEPT ![c][source] =
                 Append(@, ReceiptOf(m, relayerRewardAddress))]
          /\ UNCHANGED << latestMessageIDs, balances, warpMessages, deployed >>
        BY <1>5 DEF ReceiveCrossChainMessage
    <2>4. ReceiptOf(m, relayerRewardAddress) \in Receipts
        BY <2>1 DEF ReceiptOf, Receipts
    <2> HIDE DEF m, source, k, ledger
    <2>5. /\ sentMessageInfo' \in [MessageKeys -> SentMessageInfos \cup {Zero}]
          /\ relayerRewardAmounts' \in [Chains -> [Relayers \X FeeAssets -> Nat]]
        BY <2>2, <2>3 DEF Ledgers
    <2>6. relayerRewardAddresses' \in [MessageKeys -> Relayers \cup {Zero}]
        BY <2>3
    <2>7. receiptQueues' \in [Chains -> [Chains -> Seq(Receipts)]]
        <3>1. Append(receiptQueues[c][source], ReceiptOf(m, relayerRewardAddress))
                  \in Seq(Receipts)
            BY <2>1, <2>4
        <3> QED
            BY <2>1, <2>3, <3>1
    <2>8. /\ receivedFailedMessageHashes' \in [MessageKeys -> Messages \cup {Zero}]
          /\ executed' \in [MessageKeys -> Seq(Messages)]
        <3>1. CASE UNCHANGED << executed, receivedFailedMessageHashes >>
            BY <3>1
        <3>2. CASE executed' = [executed EXCEPT ![k] = Append(@, m)]
                   /\ UNCHANGED receivedFailedMessageHashes
            <4>1. Append(executed[k], m) \in Seq(Messages)
                BY <2>1
            <4> QED
                BY <3>2, <4>1
        <3>3. CASE StoreFailedMessageExecution(k, m) /\ UNCHANGED executed
            BY <2>1, <3>3 DEF StoreFailedMessageExecution
        <3> QED
            BY <2>3, <3>1, <3>2, <3>3 DEF HandleInitialMessageExecution
    <2> QED
        BY <2>3, <2>5, <2>6, <2>7, <2>8
<1>6. ASSUME NEW c \in Chains, NEW origin \in Chains, NEW m \in KnownMessages,
             RetryMessageExecution(c, origin, m)
      PROVE  TypeOK'
    <2> DEFINE k == Key(origin, c, m.messageID)
    <2>1. m \in Messages
        BY KnownMessagesType
    <2>2. k \in MessageKeys
        BY <2>1 DEF Messages, Key, MessageKeys
    <2>3. /\ receivedFailedMessageHashes' = [receivedFailedMessageHashes EXCEPT ![k] = Zero]
          /\ executed' = [executed EXCEPT ![k] = Append(@, m)]
          /\ UNCHANGED << senderVars, receiptQueues, relayerRewardAddresses,
                          relayerRewardAmounts, deployed >>
        BY <1>6 DEF RetryMessageExecution, RetryExecution
    <2> HIDE DEF k
    <2>4. Append(executed[k], m) \in Seq(Messages)
        BY <2>1, <2>2
    <2>5. executed' \in [MessageKeys -> Seq(Messages)]
        BY <2>3, <2>4
    <2>6. receivedFailedMessageHashes' \in [MessageKeys -> Messages \cup {Zero}]
        BY <2>3
    <2> QED
        BY <2>3, <2>5, <2>6 DEF senderVars
<1>7. ASSUME NEW c \in Chains, NEW relayer \in Relayers, NEW asset \in Tokens,
             RedeemRelayerRewards(c, relayer, asset)
      PROVE  TypeOK'
    <2> DEFINE amount == relayerRewardAmounts[c][<<relayer, asset>>]
    <2>1. amount \in Nat
        BY DEF FeeAssets
    <2>a. /\ balances[c][asset] >= amount
          /\ balances' = [balances EXCEPT ![c][asset] = @ - amount]
        BY <1>7 DEF RedeemRelayerRewards
    <2>2. balances' \in [Chains -> [Tokens -> Nat]]
        <3> HIDE DEF amount
        <3>1. balances[c][asset] \in Nat
            OBVIOUS
        <3>2. balances[c][asset] - amount \in Nat
            BY <2>1, <2>a, <3>1
        <3> QED
            BY <2>a, <3>2
    <2>3. relayerRewardAmounts' \in [Chains -> [Relayers \X FeeAssets -> Nat]]
        BY <1>7 DEF RedeemRelayerRewards
    <2> QED
        BY <1>7, <2>2, <2>3 DEF RedeemRelayerRewards, receiverVars
<1>8. ASSUME NEW c \in Chains, DeployDestination(c)
      PROVE  TypeOK'
    BY <1>8 DEF DeployDestination, senderVars, receiverVars
<1>9. ASSUME NEW w \in warpMessages, LoseWarpMessage(w)
      PROVE  TypeOK'
    BY <1>9 DEF LoseWarpMessage, receiverVars
<1>10. CASE UNCHANGED vars
    BY <1>10 DEF vars
<1>11. CASE SendStep
    <2> HIDE DEF TypeOK
    <2>1. PICK i \in SendInputs, received \in 0..MaxFee :
              \/ SendCrossChainMessage(i.src, i.dst, i.fee, received, i.allowed, i.nonEmpty)
              \/ \E n \in 0..MaxSpecified : \E messageIDs \in [1..n -> MessageIDs] :
                     SendSpecifiedReceipts(i.src, i.dst, messageIDs, i.fee, received, i.allowed)
        BY <1>11 DEF SendStep
    <2>2. i.nonEmpty \in BOOLEAN
        BY InputsAssumption DEF Inputs
    <2> QED
        BY <1>1, <1>2, <2>1, <2>2
<1>12. CASE Next
    BY <1>3, <1>4, <1>5, <1>6, <1>7, <1>8, <1>9, <1>11, <1>12
       DEF Next, RetrySendStep, AddFeeStep, ReceiveStep, RetryExecutionStep, RedeemStep
<1> QED
    BY <1>10, <1>12

\* Every value the contracts store always has its declared type.
THEOREM TypeCorrect == Spec => []TypeOK
<1>1. Init => TypeOK
    BY InitTypeOK
<1>2. TypeOK /\ [Next]_vars => TypeOK'
    BY NextTypeOK
<1> QED
    BY <1>1, <1>2, PTL DEF Spec

-----------------------------------------------------------------------------
(* Delivery safety: the properties hold together, as one inductive invariant. *)

\* A stored message is stored under its own ID and destination.
StoredUnderOwnKey ==
    \A k \in MessageKeys : Unsettled(k) =>
        /\ sentMessageInfo[k].messageHash.messageID = k.id
        /\ sentMessageInfo[k].messageHash.destinationBlockchainID = k.dst

\* What receipts and warp messages rest on.
DeliveryInv ==
    /\ TypeOK
    /\ StoredUnderOwnKey
    /\ MessageNeverLost
    /\ ReceiptsTruthful
    /\ SignedMessagesAreSent

\* The inductive invariant.
IInv == DeliveryInv /\ ExecutedXorRetryable /\ ReceiptNeverLost

-----------------------------------------------------------------------------
(* Sending *)

\* Entries of a queue leave it only with the message just sent.
QueuesAfter(c, d, receipts) ==
    /\ \A a, s \in Chains : \A i \in DOMAIN receiptQueues'[a][s] :
           \E j \in DOMAIN receiptQueues[a][s] :
               receiptQueues'[a][s][i] = receiptQueues[a][s][j]
    /\ \A a, s \in Chains : \A j \in DOMAIN receiptQueues[a][s] :
           \/ \E i \in DOMAIN receiptQueues'[a][s] :
                  receiptQueues'[a][s][i] = receiptQueues[a][s][j]
           \/ a = c /\ s = d /\ \E i \in DOMAIN receipts : receipts[i] = receiptQueues[a][s][j]

\* A send stores a new message m with the given receipts under a fresh key.
IsSent(c, d, receipts, key, m) ==
    /\ key.src = c /\ key.dst = d /\ key.id = latestMessageIDs[c][d] + 1
    /\ m.messageID = key.id
    /\ m.destinationBlockchainID = d
    /\ m.receipts = receipts
    /\ latestMessageIDs' = [latestMessageIDs EXCEPT ![c][d] = key.id]
    /\ sentMessageInfo'[key] # Zero
    /\ sentMessageInfo'[key].messageHash = m
    /\ \A k \in MessageKeys \ {key} : sentMessageInfo'[k] = sentMessageInfo[k]
    /\ warpMessages' = warpMessages \cup {WarpMessage(c, m)}

\* Every send is such a send.
LEMMA SendChanges ==
    ASSUME TypeOK, NEW c \in Chains, NEW d \in Chains, NEW fee \in FeeInfos,
           NEW received \in Nat, NEW allowed \in SUBSET Relayers,
           NEW nonEmpty \in BOOLEAN, NEW receipts \in Seq(Receipts),
           SendTeleporterMessage(c, d, fee, received, allowed, nonEmpty, receipts)
    PROVE  \E key \in MessageKeys, m \in Messages : IsSent(c, d, receipts, key, m)
<1> DEFINE m    == NewMessage(c, d, allowed, nonEmpty, receipts)
           key  == Key(c, d, NextMessageID(c, d))
           info == [messageHash |-> m, feeInfo |-> AdjustedFeeInfo(fee, received)]
<1>1. m \in Messages /\ key \in MessageKeys
    <2>1. NextMessageID(c, d) \in MessageIDs
        BY BoundsAssumption DEF TypeOK, NextMessageID, SendTeleporterMessage, MessageIDs
    <2> QED
        BY <2>1 DEF NewMessage, Messages, Key, MessageKeys
<1>2. /\ latestMessageIDs' = [latestMessageIDs EXCEPT ![c][d] = key.id]
      /\ sentMessageInfo' = [sentMessageInfo EXCEPT ![key] = info]
      /\ warpMessages' = warpMessages \cup {WarpMessage(c, m)}
    BY DEF SendTeleporterMessage, Key
<1>3. key.src = c /\ key.dst = d /\ key.id = latestMessageIDs[c][d] + 1
    BY DEF Key, NextMessageID
<1>4. /\ m.messageID = key.id
      /\ m.destinationBlockchainID = d
      /\ m.receipts = receipts
    BY DEF NewMessage, Key
<1>5. info # Zero /\ info.messageHash = m
    <2> AdjustedFeeInfo(fee, received) \in FeeInfos
        BY DEF AdjustedFeeInfo, FeeInfos
    <2> HIDE DEF m
    <2>1. info \in SentMessageInfos
        BY <1>1 DEF SentMessageInfos
    <2> QED
        BY <2>1, ZeroAssumption
<1> HIDE DEF m, key, info
<1>6. sentMessageInfo'[key] = info
      /\ \A k \in MessageKeys \ {key} : sentMessageInfo'[k] = sentMessageInfo[k]
    BY <1>1, <1>2 DEF TypeOK, LedgerTypeOK
<1>7. IsSent(c, d, receipts, key, m)
    BY <1>2, <1>3, <1>4, <1>5, <1>6 DEF IsSent
<1> QED
    BY <1>1, <1>7

\* A fresh key names a message that was neither sent nor delivered.
LEMMA FreshKey ==
    ASSUME DeliveryInv, NEW c \in Chains, NEW d \in Chains, NEW receipts,
           NEW key \in MessageKeys, NEW m, IsSent(c, d, receipts, key, m)
    PROVE  /\ ~Unsettled(key) /\ ~Delivered(key)
           /\ Unsettled(key)'
           /\ \A k \in MessageKeys \ {key} : Unsettled(k)' <=> Unsettled(k)
<1>1. latestMessageIDs[c][d] \in Nat
    BY BoundsAssumption DEF DeliveryInv, TypeOK
<1>2. ~(key.id <= latestMessageIDs[key.src][key.dst])
    BY <1>1 DEF IsSent
<1>3. ~Unsettled(key) /\ ~Delivered(key)
    BY <1>2 DEF DeliveryInv, MessageNeverLost
<1> QED
    BY <1>3 DEF Unsettled, IsSent

\* A send keeps every property.
LEMMA SendKeepsIInv ==
    ASSUME IInv, TypeOK',
           NEW c \in Chains, NEW d \in Chains, NEW receipts \in Seq(Receipts),
           NEW key \in MessageKeys, NEW m \in Messages,
           IsSent(c, d, receipts, key, m),
           QueuesAfter(c, d, receipts),
           \A i \in DOMAIN receipts : IsTruthful(c, d, receipts[i]),
           UNCHANGED receiverVars
    PROVE  IInv'
<1>1. /\ \A k \in MessageKeys : k.src \in Chains /\ k.dst \in Chains /\ k.id \in Nat
      /\ \A k \in MessageKeys : k.src = c /\ k.dst = d /\ k.id = key.id => k = key
    BY DEF IsSent, MessageKeys, MessageIDs
<1>2. \A k \in MessageKeys : Delivered(k)' <=> Delivered(k)
    BY DEF Delivered, receiverVars
<1>3. ~Unsettled(key) /\ ~Delivered(key)
    BY FreshKey DEF IInv
<1>4. /\ Unsettled(key)'
      /\ \A k \in MessageKeys \ {key} : Unsettled(k)' <=> Unsettled(k)
    BY FreshKey DEF IInv
<1>5. StoredUnderOwnKey'
    BY <1>4 DEF IInv, DeliveryInv, StoredUnderOwnKey, IsSent
<1>6. MessageNeverLost'
    <2>1. \A a, s \in Chains : latestMessageIDs[a][s] \in Nat
        BY BoundsAssumption DEF IInv, DeliveryInv, TypeOK
    <2>2. \A a, s \in Chains : latestMessageIDs'[a][s] =
              IF a = c /\ s = d THEN latestMessageIDs[c][d] + 1 ELSE latestMessageIDs[a][s]
        BY DEF IInv, DeliveryInv, TypeOK, IsSent
    <2>3. ASSUME NEW k \in MessageKeys
          PROVE  k.id <= latestMessageIDs'[k.src][k.dst] <=> Unsettled(k)' \/ Delivered(k)'
        <3>1. k.id <= latestMessageIDs[k.src][k.dst] <=> Unsettled(k) \/ Delivered(k)
            BY DEF IInv, DeliveryInv, MessageNeverLost
        <3>2. CASE k = key
            BY <3>2, <1>1, <1>4, <2>1, <2>2 DEF IsSent
        <3>3. CASE k # key
            <4>1. k.id <= latestMessageIDs'[k.src][k.dst] <=>
                      k.id <= latestMessageIDs[k.src][k.dst]
                BY <3>3, <1>1, <2>1, <2>2 DEF IsSent
            <4> QED
                BY <3>1, <3>3, <4>1, <1>2, <1>4
        <3> QED
            BY <3>2, <3>3
    <2> QED
        BY <2>3 DEF MessageNeverLost
<1>7. \A a, s, receipt : IsTruthful(a, s, receipt)' <=> IsTruthful(a, s, receipt)
    BY DEF IsTruthful, receiverVars
<1>8. ReceiptsTruthful'
    <2>1. \A a, s \in Chains : \A i \in DOMAIN receiptQueues'[a][s] :
              IsTruthful(a, s, receiptQueues'[a][s][i])
        BY DEF IInv, DeliveryInv, ReceiptsTruthful, QueuesAfter
    <2>2. ASSUME NEW k \in MessageKeys, Unsettled(k)'
          PROVE  \A i \in DOMAIN sentMessageInfo'[k].messageHash.receipts :
                     IsTruthful(k.src, k.dst, sentMessageInfo'[k].messageHash.receipts[i])
        <3>1. CASE k = key
            BY <3>1 DEF IsSent
        <3>2. CASE k # key
            BY <3>2, <2>2, <1>4 DEF IInv, DeliveryInv, ReceiptsTruthful, IsSent
        <3> QED
            BY <3>1, <3>2
    <2>3. ASSUME NEW w \in warpMessages'
          PROVE  \A i \in DOMAIN w.payload.receipts :
                     IsTruthful(w.sourceChainID, w.payload.destinationBlockchainID,
                                w.payload.receipts[i])
        <3>1. CASE w \in warpMessages
            BY <3>1 DEF IInv, DeliveryInv, ReceiptsTruthful
        <3>2. CASE w = WarpMessage(c, m)
            BY <3>2 DEF IsSent, WarpMessage
        <3> QED
            BY <3>1, <3>2 DEF IsSent
    <2> QED
        BY <1>7, <2>1, <2>2, <2>3 DEF ReceiptsTruthful
<1>9. SignedMessagesAreSent'
    <2> SUFFICES ASSUME NEW w \in warpMessages',
                        NEW k, k = Key(w.sourceChainID, w.payload.destinationBlockchainID,
                                       w.payload.messageID)
                 PROVE  /\ w.originSenderAddress = Teleporter
                        /\ Unsettled(k)' => sentMessageInfo'[k].messageHash = w.payload
                        /\ ~Unsettled(k)' => Delivered(k)'
        BY DEF SignedMessagesAreSent
    <2>1. CASE w = WarpMessage(c, m)
        <3>1. w.originSenderAddress = Teleporter /\ w.payload = m /\ k = key
            BY <2>1, <1>1 DEF WarpMessage, IsSent, Key, MessageKeys
        <3> QED
            BY <3>1, <1>4 DEF IsSent
    <2>2. CASE w \in warpMessages
        <3>1. /\ w.originSenderAddress = Teleporter
              /\ Unsettled(k) => sentMessageInfo[k].messageHash = w.payload
              /\ ~Unsettled(k) => Delivered(k)
            BY <2>2 DEF IInv, DeliveryInv, SignedMessagesAreSent
        <3>2. k # key
            BY <3>1, <1>3
        <3>3. k \in MessageKeys
            BY <2>2 DEF IInv, DeliveryInv, TypeOK, WarpMessages, Messages, MessageKeys, Key
        <3> QED
            BY <3>1, <3>2, <3>3, <1>2, <1>4 DEF IsSent
    <2> QED
        BY <2>1, <2>2 DEF IsSent
<1>10. ExecutedXorRetryable'
    <2>1. /\ \A k \in MessageKeys : Executions(k)' = Executions(k)
          /\ \A k \in MessageKeys : Retryable(k)' <=> Retryable(k)
          /\ UNCHANGED << executed, receivedFailedMessageHashes >>
        BY DEF receiverVars, Executions, Retryable
    <2>2. \A k \in MessageKeys : Unsettled(k)' /\ Delivered(k)' =>
              Unsettled(k) /\ Delivered(k) /\ sentMessageInfo'[k] = sentMessageInfo[k]
        BY <1>2, <1>3, <1>4 DEF IsSent
    <2> QED
        BY <1>2, <2>1, <2>2 DEF IInv, ExecutedXorRetryable
<1>11. ReceiptNeverLost'
    <2> SUFFICES ASSUME NEW k \in MessageKeys, Unsettled(k)', Delivered(k)'
                 PROVE  \/ Names(receiptQueues'[k.dst][k.src], k)
                        \/ \E j \in MessageKeys :
                              /\ j.src = k.dst /\ j.dst = k.src
                              /\ Unsettled(j)' /\ ~Delivered(j)'
                              /\ Names(sentMessageInfo'[j].messageHash.receipts, k)
        BY DEF ReceiptNeverLost, Names
    <2>1. Unsettled(k) /\ Delivered(k)
        BY <1>2, <1>3, <1>4
    <2>2. CASE Names(receiptQueues[k.dst][k.src], k)
        <3>1. PICK n \in DOMAIN receiptQueues[k.dst][k.src] :
                  receiptQueues[k.dst][k.src][n].receivedMessageID = k.id
            BY <2>2 DEF Names
        <3>2. CASE \E i \in DOMAIN receiptQueues'[k.dst][k.src] :
                  receiptQueues'[k.dst][k.src][i] = receiptQueues[k.dst][k.src][n]
            BY <3>1, <3>2 DEF Names
        <3>3. CASE /\ k.dst = c /\ k.src = d
                   /\ \E i \in DOMAIN receipts : receipts[i] = receiptQueues[k.dst][k.src][n]
            <4>1. Names(sentMessageInfo'[key].messageHash.receipts, k)
                BY <3>1, <3>3 DEF Names, IsSent
            <4> QED
                BY <4>1, <3>3, <1>2, <1>3, <1>4 DEF IsSent
        <3> QED
            BY <3>1, <3>2, <3>3, <1>1 DEF QueuesAfter
    <2>3. CASE \E j \in MessageKeys :
                   /\ j.src = k.dst /\ j.dst = k.src
                   /\ Unsettled(j) /\ ~Delivered(j)
                   /\ Names(sentMessageInfo[j].messageHash.receipts, k)
        <3>1. PICK j \in MessageKeys :
                   /\ j.src = k.dst /\ j.dst = k.src
                   /\ Unsettled(j) /\ ~Delivered(j)
                   /\ Names(sentMessageInfo[j].messageHash.receipts, k)
            BY <2>3
        <3>2. j # key
            BY <3>1, <1>3
        <3>3. Unsettled(j)' /\ ~Delivered(j)' /\ sentMessageInfo'[j] = sentMessageInfo[j]
            BY <3>1, <3>2, <1>2, <1>4 DEF IsSent
        <3> QED
            BY <3>1, <3>3
    <2> QED
        BY <2>1, <2>2, <2>3 DEF IInv, ReceiptNeverLost
<1> QED
    BY <1>5, <1>6, <1>8, <1>9, <1>10, <1>11 DEF IInv, DeliveryInv

-----------------------------------------------------------------------------
(* Steps that leave the delivery of messages alone *)

\* A step that changes no message, no receipt and no delivery, and lets only
\* warp messages of stored messages exist, keeps every property.
LEMMA OtherKeepsIInv ==
    ASSUME IInv, TypeOK',
           UNCHANGED << latestMessageIDs, receiptQueues, executed,
                        receivedFailedMessageHashes, relayerRewardAddresses >>,
           \A k \in MessageKeys : Unsettled(k)' <=> Unsettled(k),
           \A k \in MessageKeys : Unsettled(k) =>
               sentMessageInfo'[k].messageHash = sentMessageInfo[k].messageHash,
           \A w \in warpMessages' : w \in warpMessages \/
               \E k \in MessageKeys : /\ Unsettled(k)
                                      /\ w = WarpMessage(k.src, sentMessageInfo[k].messageHash)
    PROVE  IInv'
<1>1. /\ \A k \in MessageKeys : Delivered(k)' <=> Delivered(k)
      /\ \A k \in MessageKeys : Executions(k)' = Executions(k)
      /\ \A k \in MessageKeys : Retryable(k)' <=> Retryable(k)
      /\ \A a, s, receipt : IsTruthful(a, s, receipt)' <=> IsTruthful(a, s, receipt)
    BY DEF Delivered, Executions, Retryable, IsTruthful
<1>2. \A k \in MessageKeys : k.src \in Chains /\ k.dst \in Chains
    BY DEF MessageKeys
<1>3. StoredUnderOwnKey'
    BY DEF IInv, DeliveryInv, StoredUnderOwnKey
<1>4. MessageNeverLost'
    BY <1>1 DEF IInv, DeliveryInv, MessageNeverLost
\* A warp message sent again is the one its key is stored under.
<1>5. ASSUME NEW w \in warpMessages',
             NEW k, k = Key(w.sourceChainID, w.payload.destinationBlockchainID,
                            w.payload.messageID)
      PROVE  \/ w \in warpMessages /\ k \in MessageKeys
             \/ /\ k \in MessageKeys /\ Unsettled(k)
                /\ w.originSenderAddress = Teleporter
                /\ w.sourceChainID = k.src
                /\ w.payload = sentMessageInfo[k].messageHash
                /\ w.payload.destinationBlockchainID = k.dst
    <2>1. CASE w \in warpMessages
        BY <1>5, <2>1 DEF IInv, DeliveryInv, TypeOK, WarpMessages, Messages, MessageKeys, Key
    <2>2. CASE \E j \in MessageKeys :
                   Unsettled(j) /\ w = WarpMessage(j.src, sentMessageInfo[j].messageHash)
        <3>1. PICK j \in MessageKeys :
                   Unsettled(j) /\ w = WarpMessage(j.src, sentMessageInfo[j].messageHash)
            BY <2>2
        <3>2. /\ w.originSenderAddress = Teleporter
              /\ w.sourceChainID = j.src
              /\ w.payload = sentMessageInfo[j].messageHash
            BY <3>1 DEF WarpMessage
        <3>3. w.payload.messageID = j.id /\ w.payload.destinationBlockchainID = j.dst
            BY <3>1, <3>2 DEF IInv, DeliveryInv, StoredUnderOwnKey
        <3>4. k = j
            BY <1>5, <3>2, <3>3 DEF Key, MessageKeys
        <3> QED
            BY <3>1, <3>2, <3>3, <3>4
    <2> QED
        BY <2>1, <2>2
<1>6. ReceiptsTruthful'
    <2>1. \A a, s \in Chains : \A i \in DOMAIN receiptQueues'[a][s] :
              IsTruthful(a, s, receiptQueues'[a][s][i])
        BY DEF IInv, DeliveryInv, ReceiptsTruthful
    <2>2. \A k \in MessageKeys : Unsettled(k)' =>
              \A i \in DOMAIN sentMessageInfo'[k].messageHash.receipts :
                  IsTruthful(k.src, k.dst, sentMessageInfo'[k].messageHash.receipts[i])
        BY DEF IInv, DeliveryInv, ReceiptsTruthful
    <2>3. ASSUME NEW w \in warpMessages'
          PROVE  \A i \in DOMAIN w.payload.receipts :
                     IsTruthful(w.sourceChainID, w.payload.destinationBlockchainID,
                                w.payload.receipts[i])
        <3> DEFINE k == Key(w.sourceChainID, w.payload.destinationBlockchainID,
                            w.payload.messageID)
        <3> HIDE DEF k
        <3>1. CASE w \in warpMessages
            BY <3>1 DEF IInv, DeliveryInv, ReceiptsTruthful
        <3>2. CASE /\ k \in MessageKeys /\ Unsettled(k)
                   /\ w.sourceChainID = k.src
                   /\ w.payload = sentMessageInfo[k].messageHash
                   /\ w.payload.destinationBlockchainID = k.dst
            BY <3>2 DEF IInv, DeliveryInv, ReceiptsTruthful
        <3> QED
            BY <1>5, <3>1, <3>2 DEF k
    <2> QED
        BY <1>1, <2>1, <2>2, <2>3 DEF ReceiptsTruthful
<1>7. SignedMessagesAreSent'
    <2> SUFFICES ASSUME NEW w \in warpMessages',
                        NEW k, k = Key(w.sourceChainID, w.payload.destinationBlockchainID,
                                       w.payload.messageID)
                 PROVE  /\ w.originSenderAddress = Teleporter
                        /\ Unsettled(k)' => sentMessageInfo'[k].messageHash = w.payload
                        /\ ~Unsettled(k)' => Delivered(k)'
        BY DEF SignedMessagesAreSent
    <2>1. CASE w \in warpMessages /\ k \in MessageKeys
        BY <2>1, <1>1 DEF IInv, DeliveryInv, SignedMessagesAreSent
    <2>2. CASE /\ k \in MessageKeys /\ Unsettled(k)
               /\ w.originSenderAddress = Teleporter
               /\ w.payload = sentMessageInfo[k].messageHash
        BY <2>2
    <2> QED
        BY <1>5, <2>1, <2>2
<1>8. ExecutedXorRetryable'
    BY <1>1 DEF IInv, ExecutedXorRetryable
<1>9. ReceiptNeverLost'
    BY <1>1 DEF IInv, ReceiptNeverLost, Names
<1> QED
    BY <1>3, <1>4, <1>6, <1>7, <1>8, <1>9 DEF IInv, DeliveryInv

\* A message is sent again only while it is stored, and only as it is stored.
LEMMA RetrySendKeepsIInv ==
    ASSUME IInv, TypeOK', NEW c \in Chains, NEW d \in Chains, NEW m \in KnownMessages,
           RetrySendCrossChainMessage(c, d, m)
    PROVE  IInv'
<1> DEFINE k == Key(c, d, m.messageID)
<1>1. m \in Messages
    BY KnownMessagesType DEF IInv, DeliveryInv
<1>2. k \in MessageKeys /\ k.src = c
    BY <1>1 DEF Messages, Key, MessageKeys
<1>3. /\ Unsettled(k) /\ m = sentMessageInfo[k].messageHash
      /\ warpMessages' = warpMessages \cup {WarpMessage(c, m)}
      /\ UNCHANGED << latestMessageIDs, receiptQueues, sentMessageInfo, executed,
                      receivedFailedMessageHashes, relayerRewardAddresses >>
    BY DEF RetrySendCrossChainMessage, MessageSent, MatchesHash, Unsettled, receiverVars
<1> HIDE DEF k
<1>4. \A j \in MessageKeys : Unsettled(j)' <=> Unsettled(j)
    BY <1>3 DEF Unsettled
<1>5. \A w \in warpMessages' : w \in warpMessages \/
          \E j \in MessageKeys : /\ Unsettled(j)
                                 /\ w = WarpMessage(j.src, sentMessageInfo[j].messageHash)
    BY <1>2, <1>3
<1> QED
    BY <1>3, <1>4, <1>5, OtherKeepsIInv

\* A fee is added to a stored message without changing the message.
LEMMA AddFeeChanges ==
    ASSUME TypeOK, TypeOK', NEW key \in MessageKeys, NEW token, NEW additional,
           NEW received \in Nat, AddFeeAmount(key, token, additional, received)
    PROVE  /\ UNCHANGED << latestMessageIDs, receiptQueues, executed, warpMessages,
                           receivedFailedMessageHashes, relayerRewardAddresses >>
           /\ \A k \in MessageKeys : Unsettled(k)' <=> Unsettled(k)
           /\ \A k \in MessageKeys : Unsettled(k) =>
                  sentMessageInfo'[k].messageHash = sentMessageInfo[k].messageHash
<1>1. /\ Unsettled(key)
      /\ sentMessageInfo' = [sentMessageInfo EXCEPT ![key].feeInfo.amount = @ + received]
      /\ UNCHANGED << latestMessageIDs, receiptQueues, executed, warpMessages,
                      receivedFailedMessageHashes, relayerRewardAddresses >>
    BY DEF AddFeeAmount, MessageSent, Unsettled, receiverVars
<1>2. /\ sentMessageInfo \in [MessageKeys -> SentMessageInfos \cup {Zero}]
      /\ sentMessageInfo' \in [MessageKeys -> SentMessageInfos \cup {Zero}]
    BY DEF TypeOK, LedgerTypeOK
<1>3. sentMessageInfo'[key].messageHash = sentMessageInfo[key].messageHash
      /\ sentMessageInfo'[key] # Zero
    <2>1. sentMessageInfo[key] \in SentMessageInfos
        BY <1>1, <1>2 DEF Unsettled
    <2>2. sentMessageInfo'[key] = [sentMessageInfo[key] EXCEPT !.feeInfo.amount = @ + received]
        BY <1>1, <1>2
    <2>3. sentMessageInfo'[key].messageHash = sentMessageInfo[key].messageHash
        BY <2>1, <2>2 DEF SentMessageInfos
    <2>4. sentMessageInfo'[key] # Zero
        BY <2>1, <2>2, IncreasedFeeType, ZeroAssumption
    <2> QED
        BY <2>3, <2>4
<1>4. \A k \in MessageKeys \ {key} : sentMessageInfo'[k] = sentMessageInfo[k]
    BY <1>1, <1>2
<1>5. \A k \in MessageKeys : Unsettled(k)' <=> Unsettled(k)
    BY <1>1, <1>3, <1>4 DEF Unsettled
<1>6. \A k \in MessageKeys : Unsettled(k) =>
          sentMessageInfo'[k].messageHash = sentMessageInfo[k].messageHash
    BY <1>3, <1>4
<1> QED
    BY <1>1, <1>5, <1>6

-----------------------------------------------------------------------------
(* Receiving *)

\* The messages that a delivery of message m, sent under key, settles.
Settles(key, m, k) == k.src = key.dst /\ k.dst = key.src /\ Names(m.receipts, k)

\* A delivery is the first one of a message that its sender still stores, and
\* settles only messages delivered before.
IsDelivery(key, m, relayer) ==
    /\ Unsettled(key) /\ ~Delivered(key)
    /\ sentMessageInfo[key].messageHash = m
    /\ relayerRewardAddresses' = [relayerRewardAddresses EXCEPT ![key] = relayer]
    /\ \A k \in MessageKeys :
           sentMessageInfo'[k] = IF Settles(key, m, k) THEN Zero ELSE sentMessageInfo[k]
    /\ \A k \in MessageKeys : Settles(key, m, k) => Delivered(k)
    /\ receiptQueues' = [receiptQueues EXCEPT ![key.dst][key.src] =
           Append(@, ReceiptOf(m, relayer))]
    /\ IF m.nonEmpty
       THEN HandleInitialMessageExecution(key, m)
       ELSE UNCHANGED << executed, receivedFailedMessageHashes >>
    /\ UNCHANGED << latestMessageIDs, warpMessages >>

\* Every receiveCrossChainMessage is such a delivery.
LEMMA ReceiveChanges ==
    ASSUME DeliveryInv, NEW c \in Chains, NEW w \in warpMessages \cup OtherWarpMessages,
           NEW deliverer \in Relayers, NEW relayer \in Relayers,
           ReceiveCrossChainMessage(c, w, deliverer, relayer)
    PROVE  \E key \in MessageKeys, m \in Messages : IsDelivery(key, m, relayer)
<1> DEFINE m      == w.payload
           source == w.sourceChainID
           key    == Key(source, c, m.messageID)
<1>1. /\ m \in Messages /\ source \in Chains /\ m.receipts \in Seq(Receipts)
      /\ key \in MessageKeys
    BY ReceivedMessageType DEF DeliveryInv
<1>2. key.src = source /\ key.dst = c
    BY DEF Key
<1>3. /\ w.originSenderAddress = Teleporter
      /\ m.destinationBlockchainID = c
      /\ ~Delivered(key)
      /\ relayerRewardAddresses' = [relayerRewardAddresses EXCEPT ![key] = relayer]
      /\ IF m.nonEmpty
         THEN HandleInitialMessageExecution(key, m)
         ELSE UNCHANGED << executed, receivedFailedMessageHashes >>
      /\ sentMessageInfo' = MarkReceipts(c, source, m.receipts).sent
      /\ receiptQueues' = [receiptQueues EXCEPT ![c][source] =
             Append(@, ReceiptOf(m, relayer))]
      /\ UNCHANGED << latestMessageIDs, warpMessages >>
    BY DEF ReceiveCrossChainMessage, MessageReceived, Delivered
<1>4. w \in warpMessages
    BY <1>3, InputsAssumption
<1>5. Unsettled(key) /\ sentMessageInfo[key].messageHash = m
    BY <1>3, <1>4 DEF DeliveryInv, SignedMessagesAreSent
<1>7. \A i \in DOMAIN m.receipts :
          relayerRewardAddresses[Key(c, source, m.receipts[i].receivedMessageID)]
              = m.receipts[i].relayerRewardAddress
          /\ m.receipts[i].relayerRewardAddress \in Relayers
    <2>1. \A i \in DOMAIN m.receipts : m.receipts[i] \in Receipts
        BY <1>1, ElementOfSeq, LenProperties
    <2>2. \A i \in DOMAIN m.receipts : IsTruthful(source, c, m.receipts[i])
        BY <1>3, <1>4 DEF DeliveryInv, ReceiptsTruthful
    <2> QED
        BY <2>1, <2>2 DEF IsTruthful, Receipts
<1>8. ASSUME NEW k \in MessageKeys, Settles(key, m, k) PROVE Delivered(k)
    <2>1. PICK i \in DOMAIN m.receipts : m.receipts[i].receivedMessageID = k.id
        BY <1>8 DEF Settles, Names
    <2>2. k = Key(c, source, m.receipts[i].receivedMessageID)
        BY <2>1, <1>2, <1>8 DEF Settles, Key, MessageKeys
    <2> QED
        BY <2>1, <2>2, <1>7, ZeroAssumption DEF Delivered
<1>9. \A k \in MessageKeys :
          sentMessageInfo'[k] = IF Settles(key, m, k) THEN Zero ELSE sentMessageInfo[k]
    <2> HIDE DEF m, source, key
    <2>1. MarkReceipts(c, source, m.receipts).sent =
             [k \in MessageKeys |->
                 IF k.src = c /\ k.dst = source /\ Names(m.receipts, k)
                 THEN Zero ELSE sentMessageInfo[k]]
        BY <1>1, MarkReceiptsEffect DEF DeliveryInv, TypeOK
    <2> QED
        BY <2>1, <1>2, <1>3 DEF Settles
<1> HIDE DEF m, source, key
<1>10. IsDelivery(key, m, relayer)
    BY <1>2, <1>3, <1>5, <1>8, <1>9 DEF IsDelivery
<1> QED
    BY <1>1, <1>10

\* What the messages of other keys, and their deliveries, look like afterwards.
LEMMA DeliveryEffect ==
    ASSUME TypeOK, NEW key \in MessageKeys, NEW m \in Messages, NEW relayer \in Relayers,
           IsDelivery(key, m, relayer)
    PROVE  /\ Delivered(key)' /\ relayerRewardAddresses'[key] = relayer
           /\ \A k \in MessageKeys : Delivered(k) =>
                  /\ Delivered(k)'
                  /\ relayerRewardAddresses'[k] = relayerRewardAddresses[k]
           /\ \A k \in MessageKeys : Delivered(k)' => Delivered(k) \/ k = key
           /\ Unsettled(key)'
           /\ \A k \in MessageKeys : Unsettled(k)' <=> Unsettled(k) /\ ~Settles(key, m, k)
           /\ \A k \in MessageKeys : Unsettled(k)' => sentMessageInfo'[k] = sentMessageInfo[k]
<1>1. /\ relayerRewardAddresses'[key] = relayer
      /\ \A k \in MessageKeys \ {key} : relayerRewardAddresses'[k] = relayerRewardAddresses[k]
    BY DEF IsDelivery, TypeOK, DeliveryTypeOK
<1>2. \A k \in MessageKeys :
          sentMessageInfo'[k] = IF Settles(key, m, k) THEN Zero ELSE sentMessageInfo[k]
    BY DEF IsDelivery
<1>3. ~Settles(key, m, key) /\ Unsettled(key) /\ ~Delivered(key)
    BY DEF IsDelivery
<1>4. \A k \in MessageKeys : Unsettled(k)' <=> Unsettled(k) /\ ~Settles(key, m, k)
    BY <1>2 DEF Unsettled
<1>5. Delivered(key)' /\ \A k \in MessageKeys \ {key} : Delivered(k)' <=> Delivered(k)
    BY <1>1, ZeroAssumption DEF Delivered
<1> QED
    BY <1>1, <1>2, <1>3, <1>4, <1>5

\* A receipt is truthful after the step.
TruthfulAfter(c, d, receipt) ==
    relayerRewardAddresses'[Key(d, c, receipt.receivedMessageID)]
        = receipt.relayerRewardAddress

\* A delivery keeps what receipts and warp messages rest on.
LEMMA ReceiveKeepsDeliveryInv ==
    ASSUME DeliveryInv, TypeOK',
           NEW key \in MessageKeys, NEW m \in Messages, NEW relayer \in Relayers,
           IsDelivery(key, m, relayer)
    PROVE  DeliveryInv'
<1>1. /\ \A k \in MessageKeys : k.src \in Chains /\ k.dst \in Chains /\ k.id \in MessageIDs
      /\ \A k \in MessageKeys : k = Key(k.src, k.dst, k.id)
    BY DEF MessageKeys, Key
<1>2. /\ relayerRewardAddresses'[key] = relayer
      /\ \A k \in MessageKeys : Delivered(k) =>
             /\ Delivered(k)'
             /\ relayerRewardAddresses'[k] = relayerRewardAddresses[k]
      /\ \A k \in MessageKeys : Delivered(k)' => Delivered(k) \/ k = key
      /\ Delivered(key)' /\ Unsettled(key)'
      /\ \A k \in MessageKeys : Unsettled(k)' <=> Unsettled(k) /\ ~Settles(key, m, k)
      /\ \A k \in MessageKeys : Unsettled(k)' => sentMessageInfo'[k] = sentMessageInfo[k]
    BY DeliveryEffect DEF DeliveryInv
<1>3. \A k \in MessageKeys : Settles(key, m, k) => Delivered(k)
    BY DEF IsDelivery
<1>4. UNCHANGED << latestMessageIDs, warpMessages >>
    BY DEF IsDelivery
<1>5. StoredUnderOwnKey'
    BY <1>2 DEF DeliveryInv, StoredUnderOwnKey
<1>6. MessageNeverLost'
    <2>1. Unsettled(key)
        BY DEF IsDelivery
    <2>2. \A k \in MessageKeys :
              Unsettled(k)' \/ Delivered(k)' <=> Unsettled(k) \/ Delivered(k)
        BY <1>2, <1>3, <2>1
    <2> QED
        BY <1>4, <2>2 DEF DeliveryInv, MessageNeverLost
\* What a receipt was true of stays delivered by the same relayer.
<1>7. \A a, s \in Chains, receipt \in Receipts :
          IsTruthful(a, s, receipt) => TruthfulAfter(a, s, receipt)
    <2> TAKE a, s \in Chains, receipt \in Receipts
    <2> HAVE IsTruthful(a, s, receipt)
    <2>1. Key(s, a, receipt.receivedMessageID) \in MessageKeys
        BY DEF Key, MessageKeys, Receipts
    <2>2. Delivered(Key(s, a, receipt.receivedMessageID))
        BY ZeroAssumption DEF IsTruthful, Receipts, Delivered
    <2> QED
        BY <1>2, <2>1, <2>2 DEF IsTruthful, TruthfulAfter
<1>8. ReceiptsTruthful'
    <2>1. ASSUME NEW a \in Chains, NEW s \in Chains, NEW i \in DOMAIN receiptQueues'[a][s]
          PROVE  TruthfulAfter(a, s, receiptQueues'[a][s][i])
        <3>1. receiptQueues[a][s] \in Seq(Receipts)
            BY DEF DeliveryInv, TypeOK, DeliveryTypeOK
        <3>2. \A j \in DOMAIN receiptQueues[a][s] :
                  /\ receiptQueues[a][s][j] \in Receipts
                  /\ IsTruthful(a, s, receiptQueues[a][s][j])
            BY <3>1, ElementOfSeq, LenProperties DEF DeliveryInv, ReceiptsTruthful
        <3>3. CASE a = key.dst /\ s = key.src
            <4> DEFINE new == ReceiptOf(m, relayer)
            <4>1. receiptQueues'[a][s] = Append(receiptQueues[a][s], new)
                BY <3>3, <1>1 DEF DeliveryInv, TypeOK, DeliveryTypeOK, IsDelivery
            <4>2. new.receivedMessageID = key.id /\ new.relayerRewardAddress = relayer
                BY DEF ReceiptOf, IsDelivery, DeliveryInv, StoredUnderOwnKey
            <4>3. new \in Receipts
                BY <1>1, <4>2 DEF ReceiptOf, Receipts
            <4> HIDE DEF new
            <4>4. TruthfulAfter(a, s, new)
                BY <1>1, <1>2, <3>3, <4>2 DEF TruthfulAfter
            <4>5. /\ Len(receiptQueues[a][s]) \in Nat
                  /\ DOMAIN receiptQueues[a][s] = 1..Len(receiptQueues[a][s])
                BY <3>1, LenProperties
            <4>6. CASE i = Len(receiptQueues[a][s]) + 1
                <5>1. receiptQueues'[a][s][i] = new
                    BY <4>1, <4>3, <4>6, <3>1, AppendProperties
                <5> QED
                    BY <5>1, <4>4
            <4>7. CASE i # Len(receiptQueues[a][s]) + 1
                <5>1. i \in DOMAIN receiptQueues[a][s]
                    BY <4>1, <4>3, <4>5, <4>7, <3>1, AppendProperties, LenProperties
                <5>2. receiptQueues'[a][s][i] = receiptQueues[a][s][i]
                    BY <4>1, <4>3, <4>5, <5>1, <3>1, AppendProperties
                <5> QED
                    BY <5>1, <5>2, <3>2, <1>7
            <4> QED
                BY <4>6, <4>7
        <3>4. CASE ~(a = key.dst /\ s = key.src)
            <4>1. receiptQueues'[a][s] = receiptQueues[a][s]
                BY <3>4 DEF DeliveryInv, TypeOK, DeliveryTypeOK, IsDelivery
            <4> QED
                BY <4>1, <3>2, <1>7
        <3> QED
            BY <3>3, <3>4
    <2>2. ASSUME NEW k \in MessageKeys, Unsettled(k)'
          PROVE  \A i \in DOMAIN sentMessageInfo'[k].messageHash.receipts :
                     TruthfulAfter(k.src, k.dst, sentMessageInfo'[k].messageHash.receipts[i])
        <3>1. Unsettled(k) /\ sentMessageInfo'[k] = sentMessageInfo[k]
            BY <2>2, <1>2
        <3>2. sentMessageInfo[k].messageHash.receipts \in Seq(Receipts)
            BY <3>1 DEF DeliveryInv, TypeOK, LedgerTypeOK, Unsettled, SentMessageInfos, Messages
        <3>3. \A i \in DOMAIN sentMessageInfo[k].messageHash.receipts :
                  /\ sentMessageInfo[k].messageHash.receipts[i] \in Receipts
                  /\ IsTruthful(k.src, k.dst, sentMessageInfo[k].messageHash.receipts[i])
            BY <3>1, <3>2, ElementOfSeq, LenProperties DEF DeliveryInv, ReceiptsTruthful
        <3> QED
            BY <1>1, <1>7, <3>1, <3>3
    <2>3. ASSUME NEW w \in warpMessages'
          PROVE  \A i \in DOMAIN w.payload.receipts :
                     TruthfulAfter(w.sourceChainID, w.payload.destinationBlockchainID,
                                w.payload.receipts[i])
        <3>1. w \in warpMessages /\ w \in WarpMessages
            BY <2>3, <1>4 DEF DeliveryInv, TypeOK
        <3>2. /\ w.payload.receipts \in Seq(Receipts)
              /\ w.sourceChainID \in Chains /\ w.payload.destinationBlockchainID \in Chains
            BY <3>1 DEF WarpMessages, Messages
        <3>3. \A i \in DOMAIN w.payload.receipts :
                  /\ w.payload.receipts[i] \in Receipts
                  /\ IsTruthful(w.sourceChainID, w.payload.destinationBlockchainID,
                                w.payload.receipts[i])
            BY <3>1, <3>2, ElementOfSeq, LenProperties DEF DeliveryInv, ReceiptsTruthful
        <3> QED
            BY <3>2, <3>3, <1>7
    <2> QED
        BY <2>1, <2>2, <2>3 DEF ReceiptsTruthful, IsTruthful, TruthfulAfter
<1>9. SignedMessagesAreSent'
    <2> SUFFICES ASSUME NEW w \in warpMessages,
                        NEW k, k = Key(w.sourceChainID, w.payload.destinationBlockchainID,
                                       w.payload.messageID)
                 PROVE  /\ w.originSenderAddress = Teleporter
                        /\ Unsettled(k)' => sentMessageInfo'[k].messageHash = w.payload
                        /\ ~Unsettled(k)' => Delivered(k)'
        BY <1>4 DEF SignedMessagesAreSent
    <2>1. /\ w.originSenderAddress = Teleporter
          /\ Unsettled(k) => sentMessageInfo[k].messageHash = w.payload
          /\ ~Unsettled(k) => Delivered(k)
        BY DEF DeliveryInv, SignedMessagesAreSent
    <2>2. k \in MessageKeys
        BY DEF DeliveryInv, TypeOK, WarpMessages, Messages, MessageKeys, Key
    <2> QED
        BY <2>1, <2>2, <1>2, <1>3
<1> QED
    BY <1>5, <1>6, <1>8, <1>9 DEF DeliveryInv

\* A delivery executes its message or keeps it, and puts its receipt in a queue.
LEMMA ReceiveKeepsIInv ==
    ASSUME IInv, TypeOK',
           NEW key \in MessageKeys, NEW m \in Messages, NEW relayer \in Relayers,
           IsDelivery(key, m, relayer)
    PROVE  IInv'
<1>1. \A k \in MessageKeys : k.src \in Chains /\ k.dst \in Chains
    BY DEF MessageKeys
<1>2. /\ \A k \in MessageKeys : Delivered(k) => Delivered(k)'
      /\ \A k \in MessageKeys : Delivered(k)' => Delivered(k) \/ k = key
      /\ Delivered(key)' /\ Unsettled(key)'
      /\ \A k \in MessageKeys : Unsettled(k)' <=> Unsettled(k) /\ ~Settles(key, m, k)
      /\ \A k \in MessageKeys : Unsettled(k)' => sentMessageInfo'[k] = sentMessageInfo[k]
    BY DeliveryEffect DEF IInv, DeliveryInv
<1>3. DeliveryInv'
    BY ReceiveKeepsDeliveryInv DEF IInv
<1>4. ExecutedXorRetryable'
    <2>1. /\ ~Delivered(key) /\ sentMessageInfo[key].messageHash = m
          /\ \/ /\ m.nonEmpty
                /\ executed' = [executed EXCEPT ![key] = Append(@, m)]
                /\ receivedFailedMessageHashes' = receivedFailedMessageHashes
             \/ /\ m.nonEmpty
                /\ executed' = executed
                /\ receivedFailedMessageHashes' =
                       [receivedFailedMessageHashes EXCEPT ![key] = m]
             \/ /\ ~m.nonEmpty
                /\ executed' = executed
                /\ receivedFailedMessageHashes' = receivedFailedMessageHashes
        BY DEF IsDelivery, HandleInitialMessageExecution, StoreFailedMessageExecution
    <2>2. Executions(key) = 0 /\ ~Retryable(key)
        BY <2>1 DEF IInv, ExecutedXorRetryable
    <2>3. /\ executed \in [MessageKeys -> Seq(Messages)]
          /\ receivedFailedMessageHashes \in [MessageKeys -> Messages \cup {Zero}]
        BY DEF IInv, DeliveryInv, TypeOK, DeliveryTypeOK
    <2>4. \A k \in MessageKeys \ {key} :
              executed'[k] = executed[k]
              /\ receivedFailedMessageHashes'[k] = receivedFailedMessageHashes[k]
        BY <2>1, <2>3
    <2>5. ASSUME NEW k \in MessageKeys, k # key
          PROVE  /\ Executions(k)' + (IF Retryable(k)' THEN 1 ELSE 0) <= 1
                 /\ ~Delivered(k)' => Executions(k)' = 0 /\ ~Retryable(k)'
                 /\ Unsettled(k)' /\ Delivered(k)' =>
                      /\ sentMessageInfo'[k].messageHash.nonEmpty
                             <=> Retryable(k)' \/ Executions(k)' = 1
                      /\ Retryable(k)' =>
                             receivedFailedMessageHashes'[k] = sentMessageInfo'[k].messageHash
                      /\ \A i \in DOMAIN executed'[k] :
                             executed'[k][i] = sentMessageInfo'[k].messageHash
        <3>1. Executions(k)' = Executions(k) /\ (Retryable(k)' <=> Retryable(k))
            BY <2>4, <2>5 DEF Executions, Retryable
        <3>2. Unsettled(k)' /\ Delivered(k)' =>
                  Unsettled(k) /\ Delivered(k) /\ sentMessageInfo'[k] = sentMessageInfo[k]
            BY <1>2, <2>5
        <3>3. ~Delivered(k)' => ~Delivered(k)
            BY <1>2
        <3> QED
            BY <2>4, <2>5, <3>1, <3>2, <3>3 DEF IInv, ExecutedXorRetryable
    <2>6. /\ Executions(key)' + (IF Retryable(key)' THEN 1 ELSE 0) <= 1
          /\ m.nonEmpty <=> Retryable(key)' \/ Executions(key)' = 1
          /\ Retryable(key)' => receivedFailedMessageHashes'[key] = m
          /\ \A i \in DOMAIN executed'[key] : executed'[key][i] = m
        <3>1. executed[key] \in Seq(Messages) /\ Len(executed[key]) = 0
            BY <2>2, <2>3 DEF Executions
        <3>2. executed[key] = << >>
            BY <3>1, EmptySeq
        <3>3. m # Zero
            BY ZeroAssumption
        <3>4. CASE /\ m.nonEmpty
                   /\ executed' = [executed EXCEPT ![key] = Append(@, m)]
                   /\ receivedFailedMessageHashes' = receivedFailedMessageHashes
            <4>1. executed'[key] = << m >>
                BY <2>3, <3>2, <3>4
            <4>2. ~Retryable(key)'
                BY <2>2, <3>4 DEF Retryable
            <4>3. Executions(key)' = 1 /\ \A i \in DOMAIN executed'[key] : executed'[key][i] = m
                BY <4>1 DEF Executions
            <4> QED
                BY <3>4, <4>2, <4>3
        <3>5. CASE /\ m.nonEmpty
                   /\ executed' = executed
                   /\ receivedFailedMessageHashes' =
                          [receivedFailedMessageHashes EXCEPT ![key] = m]
            <4>1. receivedFailedMessageHashes'[key] = m
                BY <2>3, <3>5
            <4>2. Retryable(key)' /\ Executions(key)' = 0 /\ executed'[key] = << >>
                BY <2>2, <3>2, <3>3, <3>5, <4>1 DEF Retryable, Executions
            <4> QED
                BY <3>5, <4>1, <4>2
        <3>6. CASE /\ ~m.nonEmpty
                   /\ executed' = executed
                   /\ receivedFailedMessageHashes' = receivedFailedMessageHashes
            <4>1. ~Retryable(key)' /\ Executions(key)' = 0 /\ executed'[key] = << >>
                BY <2>2, <3>2, <3>6 DEF Retryable, Executions
            <4> QED
                BY <3>6, <4>1
        <3> QED
            BY <2>1, <3>4, <3>5, <3>6
    <2>7. sentMessageInfo'[key].messageHash = m
        BY <1>2, <2>1
    <2> QED
        BY <1>2, <2>5, <2>6, <2>7 DEF ExecutedXorRetryable
<1>5. ReceiptNeverLost'
    <2> SUFFICES ASSUME NEW k \in MessageKeys, Unsettled(k)', Delivered(k)'
                 PROVE  \/ Names(receiptQueues'[k.dst][k.src], k)
                        \/ \E j \in MessageKeys :
                              /\ j.src = k.dst /\ j.dst = k.src
                              /\ Unsettled(j)' /\ ~Delivered(j)'
                              /\ Names(sentMessageInfo'[j].messageHash.receipts, k)
        BY DEF ReceiptNeverLost, Names
    <2> DEFINE q == receiptQueues[k.dst][k.src]
               new == ReceiptOf(m, relayer)
    <2>1. q \in Seq(Receipts)
        <3>1. receiptQueues \in [Chains -> [Chains -> Seq(Receipts)]]
            BY DEF IInv, DeliveryInv, TypeOK, DeliveryTypeOK
        <3>2. k.src \in Chains /\ k.dst \in Chains
            BY DEF MessageKeys
        <3> QED
            BY ONLY <3>1, <3>2 DEF q
    <2>2. new.receivedMessageID = key.id /\ new \in Receipts
        <3>1. m.messageID = key.id /\ key.id \in MessageIDs
            BY DEF IInv, DeliveryInv, StoredUnderOwnKey, IsDelivery, MessageKeys
        <3> QED
            BY <3>1 DEF ReceiptOf, Receipts
    <2>3. receiptQueues'[k.dst][k.src] =
              IF k.dst = key.dst /\ k.src = key.src THEN Append(q, new) ELSE q
        <3>1. /\ receiptQueues \in [Chains -> [Chains -> Seq(Receipts)]]
              /\ receiptQueues' =
                     [receiptQueues EXCEPT ![key.dst][key.src] = Append(@, new)]
            BY DEF IInv, DeliveryInv, TypeOK, DeliveryTypeOK, IsDelivery
        <3>2. k.src \in Chains /\ k.dst \in Chains /\ key.src \in Chains /\ key.dst \in Chains
            BY DEF MessageKeys
        <3> HIDE DEF new
        <3> QED
            BY ONLY <3>1, <3>2 DEF q
    <2> HIDE DEF q, new
    <2>4. /\ Len(q) \in Nat /\ DOMAIN q = 1..Len(q)
          /\ Append(q, new) \in Seq(Receipts)
          /\ DOMAIN Append(q, new) = 1..(Len(q) + 1)
          /\ \A i \in 1..Len(q) : Append(q, new)[i] = q[i]
          /\ Append(q, new)[Len(q) + 1] = new
        BY <2>1, <2>2, LenProperties, AppendProperties
    <2>5. CASE k = key
        <3>1. Append(q, new)[Len(q) + 1].receivedMessageID = k.id
            BY <2>2, <2>4, <2>5
        <3> QED
            BY <2>3, <2>4, <2>5, <3>1 DEF Names
    <2>6. CASE k # key /\ Names(q, k)
        BY <2>3, <2>4, <2>6 DEF Names
    <2>7. CASE k # key /\ ~Names(q, k)
        <3>1. Unsettled(k) /\ Delivered(k) /\ ~Settles(key, m, k)
            BY <1>2, <2>7
        <3>2. PICK j \in MessageKeys :
                  /\ j.src = k.dst /\ j.dst = k.src
                  /\ Unsettled(j) /\ ~Delivered(j)
                  /\ Names(sentMessageInfo[j].messageHash.receipts, k)
            BY <2>7, <3>1 DEF IInv, ReceiptNeverLost, q
        <3>3. j # key
            BY <3>1, <3>2 DEF Settles, IsDelivery
        <3>4. Unsettled(j)' /\ ~Delivered(j)'
            BY <1>2, <3>2, <3>3 DEF IsDelivery
        <3> QED
            BY <1>2, <3>2, <3>4
    <2> QED
        BY <2>5, <2>6, <2>7
<1> QED
    BY <1>3, <1>4, <1>5 DEF IInv

\* What a retried execution changes.
IsRetried(key, m) ==
    /\ Retryable(key) /\ receivedFailedMessageHashes[key] = m
    /\ receivedFailedMessageHashes' = [receivedFailedMessageHashes EXCEPT ![key] = Zero]
    /\ executed' = [executed EXCEPT ![key] = Append(@, m)]
    /\ UNCHANGED << latestMessageIDs, receiptQueues, sentMessageInfo, warpMessages,
                    relayerRewardAddresses >>

\* Every retryMessageExecution is such a retry.
LEMMA RetryChanges ==
    ASSUME TypeOK, NEW c \in Chains, NEW origin \in Chains, NEW m \in KnownMessages,
           RetryMessageExecution(c, origin, m)
    PROVE  m \in Messages /\ \E key \in MessageKeys : IsRetried(key, m)
<1> DEFINE key == Key(origin, c, m.messageID)
<1>1. m \in Messages
    BY KnownMessagesType
<1>2. key \in MessageKeys
    BY <1>1 DEF Messages, Key, MessageKeys
<1>3. IsRetried(key, m)
    <2>1. RetryExecution(key, m, receivedFailedMessageHashes[key])
        BY DEF RetryMessageExecution
    <2> HIDE DEF key
    <2> QED
        BY <2>1 DEF RetryExecution, MatchesHash, senderVars, IsRetried, Retryable
<1> HIDE DEF key
<1> QED
    BY <1>1, <1>2, <1>3

\* What is kept for a retry was never executed, and is executed by the retry.
LEMMA RetryExecutionKeepsIInv ==
    ASSUME IInv, TypeOK', NEW key \in MessageKeys, NEW m \in Messages, IsRetried(key, m)
    PROVE  IInv'
<1>1. UNCHANGED << latestMessageIDs, receiptQueues, sentMessageInfo, warpMessages,
                   relayerRewardAddresses >>
    BY DEF IsRetried
<1>2. \A k \in MessageKeys : (Unsettled(k)' <=> Unsettled(k)) /\ (Delivered(k)' <=> Delivered(k))
    BY <1>1 DEF Unsettled, Delivered
<1>3. /\ StoredUnderOwnKey' /\ MessageNeverLost' /\ ReceiptsTruthful'
      /\ SignedMessagesAreSent' /\ ReceiptNeverLost'
    <2>1. StoredUnderOwnKey'
        BY <1>1 DEF IInv, DeliveryInv, StoredUnderOwnKey, Unsettled
    <2>2. MessageNeverLost'
        BY <1>1, <1>2 DEF IInv, DeliveryInv, MessageNeverLost
    <2>3. ReceiptsTruthful'
        BY <1>1 DEF IInv, DeliveryInv, ReceiptsTruthful, IsTruthful, Unsettled
    <2>4. SignedMessagesAreSent'
        BY <1>1 DEF IInv, DeliveryInv, SignedMessagesAreSent, Unsettled, Delivered
    <2>5. ReceiptNeverLost'
        BY <1>1 DEF IInv, ReceiptNeverLost, Unsettled, Delivered, Names
    <2> QED
        BY <2>1, <2>2, <2>3, <2>4, <2>5
<1>4. ExecutedXorRetryable'
    <2>1. /\ executed \in [MessageKeys -> Seq(Messages)]
          /\ receivedFailedMessageHashes \in [MessageKeys -> Messages \cup {Zero}]
        BY DEF IInv, DeliveryInv, TypeOK, DeliveryTypeOK
    <2>2. \A k \in MessageKeys \ {key} :
              executed'[k] = executed[k]
              /\ receivedFailedMessageHashes'[k] = receivedFailedMessageHashes[k]
        BY <2>1 DEF IsRetried
    <2>3. /\ Retryable(key) /\ Delivered(key) /\ executed[key] = << >>
        <3>1. Retryable(key)
            BY DEF IsRetried
        <3>2. Executions(key) \in Nat /\ Executions(key) + 1 <= 1
            BY <2>1, <3>1, LenProperties DEF Executions, IInv, ExecutedXorRetryable
        <3>3. Len(executed[key]) = 0
            BY <3>2 DEF Executions
        <3>4. Delivered(key)
            BY <3>1 DEF IInv, ExecutedXorRetryable
        <3> QED
            BY <2>1, <3>1, <3>3, <3>4, EmptySeq
    <2>4. executed'[key] = << m >> /\ ~Retryable(key)'
        BY <2>1, <2>3 DEF IsRetried, Retryable
    <2>5. Executions(key)' = 1 /\ \A i \in DOMAIN executed'[key] : executed'[key][i] = m
        BY <2>4 DEF Executions
    <2>6. Unsettled(key) =>
              sentMessageInfo[key].messageHash = m /\ m.nonEmpty
        <3>1. receivedFailedMessageHashes[key] = m
            BY DEF IsRetried
        <3> QED
            BY <2>3, <3>1 DEF IInv, ExecutedXorRetryable
    <2>7. \A k \in MessageKeys \ {key} :
              Executions(k)' = Executions(k) /\ (Retryable(k)' <=> Retryable(k))
        BY <2>2 DEF Executions, Retryable
    <2>8. ASSUME NEW k \in MessageKeys, k # key
          PROVE  /\ Executions(k)' + (IF Retryable(k)' THEN 1 ELSE 0) <= 1
                 /\ ~Delivered(k)' => Executions(k)' = 0 /\ ~Retryable(k)'
                 /\ Unsettled(k)' /\ Delivered(k)' =>
                      /\ sentMessageInfo'[k].messageHash.nonEmpty
                             <=> Retryable(k)' \/ Executions(k)' = 1
                      /\ Retryable(k)' =>
                             receivedFailedMessageHashes'[k] = sentMessageInfo'[k].messageHash
                      /\ \A i \in DOMAIN executed'[k] :
                             executed'[k][i] = sentMessageInfo'[k].messageHash
        BY <1>1, <1>2, <2>2, <2>7, <2>8 DEF IInv, ExecutedXorRetryable
    <2> QED
        BY <1>1, <1>2, <2>3, <2>4, <2>5, <2>6, <2>8 DEF ExecutedXorRetryable
<1> QED
    BY <1>3, <1>4 DEF IInv, DeliveryInv

-----------------------------------------------------------------------------
(* The theorems *)

LEMMA InitIInv == Init => IInv
<1> SUFFICES ASSUME Init PROVE IInv
    OBVIOUS
<1>1. TypeOK
    BY InitTypeOK
<1>2. \A k \in MessageKeys :
          /\ ~Unsettled(k) /\ ~Delivered(k) /\ ~Retryable(k)
          /\ executed[k] = << >>
          /\ k.src \in Chains /\ k.dst \in Chains
          /\ ~(k.id <= 0)
    BY DEF Init, Unsettled, Delivered, Retryable, MessageKeys, MessageIDs
<1>3. StoredUnderOwnKey
    BY <1>2 DEF StoredUnderOwnKey
<1>4. MessageNeverLost
    BY <1>2 DEF MessageNeverLost, Init
<1>5. ReceiptsTruthful
    BY <1>2 DEF ReceiptsTruthful, Init
<1>6. SignedMessagesAreSent
    BY DEF SignedMessagesAreSent, Init
<1>7. ExecutedXorRetryable
    <2>1. \A k \in MessageKeys : Executions(k) = 0
        BY <1>2 DEF Executions
    <2> QED
        BY <1>2, <2>1 DEF ExecutedXorRetryable
<1>8. ReceiptNeverLost
    BY <1>2 DEF ReceiptNeverLost
<1> QED
    BY <1>1, <1>3, <1>4, <1>5, <1>6, <1>7, <1>8 DEF IInv, DeliveryInv

\* A new message carries receipts of the queue, or receipts looked up by ID.
IsTruthfulSend(c, d, receipts, key, m) ==
    /\ IsSent(c, d, receipts, key, m)
    /\ QueuesAfter(c, d, receipts)
    /\ \A i \in DOMAIN receipts : IsTruthful(c, d, receipts[i])
    /\ UNCHANGED receiverVars

\* Each kind of send is such a send.
LEMMA SendStepChanges ==
    ASSUME IInv, SendStep
    PROVE  \E c, d \in Chains, receipts \in Seq(Receipts),
              key \in MessageKeys, m \in Messages : IsTruthfulSend(c, d, receipts, key, m)
<1>1. PICK i \in SendInputs, received \in 0..MaxFee :
          \/ SendCrossChainMessage(i.src, i.dst, i.fee, received, i.allowed, i.nonEmpty)
          \/ \E n \in 0..MaxSpecified : \E messageIDs \in [1..n -> MessageIDs] :
                 SendSpecifiedReceipts(i.src, i.dst, messageIDs, i.fee, received, i.allowed)
    BY DEF SendStep
<1> DEFINE c == i.src
           d == i.dst
<1>2. /\ c \in Chains /\ d \in Chains /\ i.fee \in FeeInfos
      /\ i.allowed \in SUBSET Relayers /\ received \in Nat /\ i.nonEmpty \in BOOLEAN
    BY InputsAssumption, BoundsAssumption DEF Inputs
<1>3. TypeOK
    BY DEF IInv, DeliveryInv
<1>4. \A a, s \in Chains : receiptQueues[a][s] \in Seq(Receipts)
    BY <1>3 DEF TypeOK, DeliveryTypeOK
<1>5. ASSUME SendCrossChainMessage(c, d, i.fee, received, i.allowed, i.nonEmpty)
      PROVE  \E receipts \in Seq(Receipts), key \in MessageKeys, m \in Messages :
                 IsTruthfulSend(c, d, receipts, key, m)
    <2> DEFINE q   == receiptQueues[c][d]
               out == OutstandingReceipts(q)
    <2>1. /\ out \in Seq(Receipts)
          /\ \A n \in DOMAIN out : \E j \in DOMAIN q : out[n] = q[j]
          /\ \A n \in DOMAIN QueueAfterSending(q) :
                 \E j \in DOMAIN q : QueueAfterSending(q)[n] = q[j]
          /\ \A j \in DOMAIN q :
                 \/ \E n \in DOMAIN out : out[n] = q[j]
                 \/ \E n \in DOMAIN QueueAfterSending(q) : QueueAfterSending(q)[n] = q[j]
        BY <1>2, <1>4, BatchProperties
    <2>2. /\ SendTeleporterMessage(c, d, i.fee, received, i.allowed, i.nonEmpty, out)
          /\ receiptQueues' = [receiptQueues EXCEPT ![c][d] = QueueAfterSending(q)]
          /\ UNCHANGED receiverVars
        BY <1>5 DEF SendCrossChainMessage
    <2> HIDE DEF c, d, out
    <2>3. PICK key \in MessageKeys, m \in Messages : IsSent(c, d, out, key, m)
        <3> HIDE DEF q
        <3>1. /\ out \in Seq(Receipts)
              /\ SendTeleporterMessage(c, d, i.fee, received, i.allowed, i.nonEmpty, out)
            BY <2>1, <2>2
        <3> QED
            BY ONLY <1>2, <1>3, <3>1, SendChanges
    <2>4. \A a, s \in Chains : receiptQueues'[a][s] =
              IF a = c /\ s = d THEN QueueAfterSending(q) ELSE receiptQueues[a][s]
        BY <1>2, <1>3, <2>2 DEF TypeOK, DeliveryTypeOK
    <2>5. QueuesAfter(c, d, out)
        BY <1>2, <2>1, <2>4 DEF QueuesAfter
    <2>6. \A n \in DOMAIN out : IsTruthful(c, d, out[n])
        BY <1>2, <2>1 DEF IInv, DeliveryInv, ReceiptsTruthful
    <2> QED
        BY <1>2, <2>1, <2>2, <2>3, <2>5, <2>6 DEF IsTruthfulSend
<1>6. ASSUME NEW n \in 0..MaxSpecified, NEW messageIDs \in [1..n -> MessageIDs],
             SendSpecifiedReceipts(c, d, messageIDs, i.fee, received, i.allowed)
      PROVE  \E receipts \in Seq(Receipts), key \in MessageKeys, m \in Messages :
                 IsTruthfulSend(c, d, receipts, key, m)
    <2> DEFINE out == SpecifiedReceipts(d, c, messageIDs)
    <2>1. out \in Seq(Receipts)
        <3>1. n \in Nat /\ ReceiptsFound(d, c, messageIDs)
            BY <1>6, BoundsAssumption DEF SendSpecifiedReceipts
        <3> HIDE DEF c, d
        <3> QED
            BY <1>2, <1>3, <3>1, SpecifiedReceiptsType
    <2>2. /\ SendTeleporterMessage(c, d, i.fee, received, i.allowed, FALSE, out)
          /\ UNCHANGED << receiptQueues, receiverVars >>
        BY <1>6 DEF SendSpecifiedReceipts
    <2>3. \A j \in DOMAIN out : IsTruthful(c, d, out[j])
        BY DEF SpecifiedReceipts, IsTruthful
    <2> HIDE DEF c, d, out
    <2>4. PICK key \in MessageKeys, m \in Messages : IsSent(c, d, out, key, m)
        <3>1. FALSE \in BOOLEAN
            OBVIOUS
        <3> QED
            BY ONLY <1>2, <1>3, <2>1, <2>2, <3>1, SendChanges
    <2>5. QueuesAfter(c, d, out)
        BY <2>2 DEF QueuesAfter
    <2> QED
        BY <1>2, <2>1, <2>2, <2>3, <2>4, <2>5 DEF IsTruthfulSend
<1>7. \E receipts \in Seq(Receipts), key \in MessageKeys, m \in Messages :
          IsTruthfulSend(c, d, receipts, key, m)
    BY <1>1, <1>5, <1>6
<1> HIDE DEF c, d
<1> QED
    BY <1>2, <1>7

\* IInv is inductive.
LEMMA NextIInv == IInv /\ [Next]_vars => IInv'
<1> SUFFICES ASSUME IInv, [Next]_vars PROVE IInv'
    OBVIOUS
<1>1. TypeOK /\ TypeOK'
    BY NextTypeOK DEF IInv, DeliveryInv
<1>2. CASE SendStep
    <2>1. PICK c \in Chains, d \in Chains, receipts \in Seq(Receipts),
               key \in MessageKeys, m \in Messages : IsTruthfulSend(c, d, receipts, key, m)
        BY <1>2, SendStepChanges
    <2> QED
        BY <1>1, <2>1, SendKeepsIInv DEF IsTruthfulSend
<1>3. CASE RetrySendStep
    BY <1>1, <1>3, RetrySendKeepsIInv DEF RetrySendStep
<1>4. CASE AddFeeStep
    <2>1. PICK k \in MessageKeys, token \in FeeAssets,
               additional \in 0..MaxFee, received \in 0..MaxFee :
              AddFeeAmount(k, token, additional, received)
        BY <1>4 DEF AddFeeStep
    <2>2. received \in Nat
        BY BoundsAssumption
    <2>3. /\ UNCHANGED << latestMessageIDs, receiptQueues, executed, warpMessages,
                         receivedFailedMessageHashes, relayerRewardAddresses >>
          /\ \A j \in MessageKeys : Unsettled(j)' <=> Unsettled(j)
          /\ \A j \in MessageKeys : Unsettled(j) =>
                 sentMessageInfo'[j].messageHash = sentMessageInfo[j].messageHash
        BY <1>1, <2>1, <2>2, AddFeeChanges
    <2>4. \A w \in warpMessages' : w \in warpMessages
        BY <2>3
    <2> QED
        BY <1>1, <2>3, <2>4, OtherKeepsIInv
<1>5. CASE ReceiveStep
    <2>1. PICK c \in Chains, w \in warpMessages \cup OtherWarpMessages,
               deliverer \in Relayers, relayer \in Relayers :
              ReceiveCrossChainMessage(c, w, deliverer, relayer)
        BY <1>5 DEF ReceiveStep
    <2>2. PICK key \in MessageKeys, m \in Messages : IsDelivery(key, m, relayer)
        BY <2>1, ReceiveChanges DEF IInv
    <2> QED
        BY <1>1, <2>2, ReceiveKeepsIInv
<1>6. CASE RetryExecutionStep
    <2>1. PICK c \in Chains, origin \in Chains, m \in KnownMessages :
              RetryMessageExecution(c, origin, m)
        BY <1>6 DEF RetryExecutionStep
    <2>2. m \in Messages /\ \E key \in MessageKeys : IsRetried(key, m)
        BY <1>1, <2>1, RetryChanges
    <2> QED
        BY <1>1, <2>2, RetryExecutionKeepsIInv
<1>7. ASSUME UNCHANGED << latestMessageIDs, receiptQueues, executed, sentMessageInfo,
                          receivedFailedMessageHashes, relayerRewardAddresses >>,
             warpMessages' \subseteq warpMessages
      PROVE  IInv'
    <2>1. \A k \in MessageKeys : Unsettled(k)' <=> Unsettled(k)
        BY <1>7 DEF Unsettled
    <2> QED
        BY <1>1, <1>7, <2>1, OtherKeepsIInv
<1>8. CASE RedeemStep
    BY <1>7, <1>8 DEF RedeemStep, RedeemRelayerRewards, receiverVars
<1>9. ASSUME NEW c \in Chains, DeployDestination(c) PROVE IInv'
    BY <1>7, <1>9 DEF DeployDestination, senderVars, receiverVars
<1>10. ASSUME NEW w \in warpMessages, LoseWarpMessage(w) PROVE IInv'
    BY <1>7, <1>10 DEF LoseWarpMessage, receiverVars
<1>11. CASE UNCHANGED vars
    BY <1>7, <1>11 DEF vars
<1> QED
    BY <1>2, <1>3, <1>4, <1>5, <1>6, <1>8, <1>9, <1>10, <1>11 DEF Next

\* All the safety properties of delivery hold together, always.
THEOREM DeliverySafety == Spec => []IInv
<1>1. Init => IInv
    BY InitIInv
<1>2. IInv /\ [Next]_vars => IInv'
    BY NextIInv
<1> QED
    BY <1>1, <1>2, PTL DEF Spec

\* An ID in use names a message that is stored or delivered, in every state.
THEOREM MessagesNeverLost == Spec => []MessageNeverLost
<1>1. IInv => MessageNeverLost
    BY DEF IInv, DeliveryInv
<1> QED
    BY <1>1, DeliverySafety, PTL

\* Every receipt, wherever it is, names a delivery and its reward address.
THEOREM ReceiptsAlwaysTruthful == Spec => []ReceiptsTruthful
<1>1. IInv => ReceiptsTruthful
    BY DEF IInv, DeliveryInv
<1> QED
    BY <1>1, DeliverySafety, PTL

\* A signed message is the stored one, or was delivered.
THEOREM SignedMessagesAlwaysSent == Spec => []SignedMessagesAreSent
<1>1. IInv => SignedMessagesAreSent
    BY DEF IInv, DeliveryInv
<1> QED
    BY <1>1, DeliverySafety, PTL

\* A delivered message was executed once or is kept for a retry.
THEOREM ExecutedOnce == Spec => []ExecutedXorRetryable
<1>1. IInv => ExecutedXorRetryable
    BY DEF IInv
<1> QED
    BY <1>1, DeliverySafety, PTL

\* The receipt of a delivered and unsettled message waits or travels.
THEOREM ReceiptsNeverLost == Spec => []ReceiptNeverLost
<1>1. IInv => ReceiptNeverLost
    BY DEF IInv
<1> QED
    BY <1>1, DeliverySafety, PTL
-----------------------------------------------------------------------------
(* TeleporterMessenger implements MessageDelivery: every step of the       *)
(* contract sends, delivers or executes one message, or changes nothing    *)
(* that MessageDelivery sees.                                              *)

\* What the refinement mapping of Delivery puts for stage and settled.
StageOf == [k \in MessageKeys |-> Stage(k)]
Settled == {k \in MessageKeys : Delivered(k) /\ ~Unsettled(k)}

\* A step that sends a message under a fresh key.
LEMMA SendRefines ==
    ASSUME IInv, NEW key \in MessageKeys, UNCHANGED receiverVars,
           ~Unsettled(key), ~Delivered(key), Unsettled(key)',
           \A k \in MessageKeys \ {key} : Unsettled(k)' <=> Unsettled(k)
    PROVE  Delivery!Send(key)
<1>1. \A k \in MessageKeys : (Delivered(k)' <=> Delivered(k)) /\ (Retryable(k)' <=> Retryable(k))
    BY DEF Delivered, Retryable, receiverVars
<1>2. Stage(key) = "unsent" /\ Stage(key)' = "sent"
    BY <1>1 DEF Stage
<1>3. \A k \in MessageKeys \ {key} : Stage(k)' = Stage(k)
    BY <1>1 DEF Stage
<1>4. StageOf' = [StageOf EXCEPT ![key] = "sent"] /\ StageOf[key] = "unsent"
    BY <1>2, <1>3 DEF StageOf
<1>5. Settled' = Settled
    BY <1>1 DEF Settled
<1>6. relayerRewardAddresses' = relayerRewardAddresses
    BY DEF receiverVars
<1> QED
    BY <1>4, <1>5, <1>6 DEF Delivery!Send, StageOf, Settled

\* A delivery that settles only messages delivered before.
LEMMA DeliveryRefines ==
    ASSUME IInv, IInv', NEW key \in MessageKeys, NEW m \in Messages,
           NEW relayer \in Relayers, IsDelivery(key, m, relayer)
    PROVE  \E outcome \in {"failed", "done"} : Delivery!Deliver(key, relayer, outcome)
<1> DEFINE outcome == IF Retryable(key)' THEN "failed" ELSE "done"
<1>1. /\ Delivered(key)' /\ Unsettled(key)'
      /\ \A k \in MessageKeys : Delivered(k) => Delivered(k)'
      /\ \A k \in MessageKeys : Delivered(k)' => Delivered(k) \/ k = key
      /\ \A k \in MessageKeys : Unsettled(k)' <=> Unsettled(k) /\ ~Settles(key, m, k)
    BY DeliveryEffect DEF IInv, DeliveryInv
<1>2. /\ Unsettled(key) /\ ~Delivered(key)
      /\ \A k \in MessageKeys : Settles(key, m, k) => Delivered(k)
      /\ relayerRewardAddresses' = [relayerRewardAddresses EXCEPT ![key] = relayer]
    BY DEF IsDelivery
<1>3. \A k \in MessageKeys \ {key} : Retryable(k)' <=> Retryable(k)
    BY DEF IsDelivery, HandleInitialMessageExecution, StoreFailedMessageExecution,
           Retryable, IInv, DeliveryInv, TypeOK, DeliveryTypeOK
<1>4. Stage(key) = "sent" /\ Stage(key)' = outcome
    BY <1>1, <1>2 DEF Stage
<1>5. \A k \in MessageKeys \ {key} : Stage(k)' = Stage(k)
    BY <1>1, <1>2, <1>3 DEF Stage
<1>6. StageOf' = [StageOf EXCEPT ![key] = outcome] /\ StageOf[key] = "sent"
    BY <1>4, <1>5 DEF StageOf
<1>7. /\ Settled \subseteq Settled'
      /\ Settled' \subseteq Settled \cup {a \in MessageKeys : relayerRewardAddresses[a] # Zero}
    BY <1>1, <1>2 DEF Settled, Delivered
<1>8. outcome \in {"failed", "done"}
    OBVIOUS
<1> HIDE DEF outcome
<1>9. Delivery!Deliver(key, relayer, outcome)
    BY <1>2, <1>6, <1>7 DEF Delivery!Deliver, StageOf, Settled
<1> QED
    BY <1>8, <1>9

\* A retry executes a message whose execution failed.
LEMMA RetryRefines ==
    ASSUME IInv, NEW key \in MessageKeys, NEW m \in Messages, IsRetried(key, m)
    PROVE  Delivery!Execute(key)
<1>1. UNCHANGED << sentMessageInfo, relayerRewardAddresses >>
    BY DEF IsRetried
<1>2. \A k \in MessageKeys : (Unsettled(k)' <=> Unsettled(k)) /\ (Delivered(k)' <=> Delivered(k))
    BY <1>1 DEF Unsettled, Delivered
<1>3. /\ Retryable(key) /\ ~Retryable(key)'
      /\ \A k \in MessageKeys \ {key} : Retryable(k)' <=> Retryable(k)
    BY DEF IsRetried, Retryable, IInv, DeliveryInv, TypeOK, DeliveryTypeOK
<1>4. Delivered(key)
    BY <1>3 DEF IInv, ExecutedXorRetryable
<1>5. Stage(key) = "failed" /\ Stage(key)' = "done"
    BY <1>2, <1>3, <1>4 DEF Stage
<1>6. \A k \in MessageKeys \ {key} : Stage(k)' = Stage(k)
    BY <1>2, <1>3 DEF Stage
<1>7. StageOf' = [StageOf EXCEPT ![key] = "done"] /\ StageOf[key] = "failed"
    BY <1>5, <1>6 DEF StageOf
<1>8. Settled' = Settled
    BY <1>2 DEF Settled
<1> QED
    BY <1>1, <1>7, <1>8 DEF Delivery!Execute, StageOf, Settled

\* A step that changes no stage, no deliverer and no settlement.
LEMMA OtherRefines ==
    ASSUME UNCHANGED << receivedFailedMessageHashes, relayerRewardAddresses >>,
           \A k \in MessageKeys : Unsettled(k)' <=> Unsettled(k)
    PROVE  UNCHANGED Delivery!vars
<1>1. \A k \in MessageKeys : (Delivered(k)' <=> Delivered(k)) /\ (Retryable(k)' <=> Retryable(k))
    BY DEF Delivered, Retryable
<1>2. \A k \in MessageKeys : Stage(k)' = Stage(k)
    BY <1>1 DEF Stage
<1>3. StageOf' = StageOf /\ Settled' = Settled
    BY <1>1, <1>2 DEF StageOf, Settled
<1> QED
    BY <1>3 DEF Delivery!vars, StageOf, Settled

\* The initial state maps to the initial state.
LEMMA InitRefines == Init => Delivery!Init
<1> SUFFICES ASSUME Init PROVE Delivery!Init
    OBVIOUS
<1>1. \A k \in MessageKeys : ~Unsettled(k) /\ ~Delivered(k)
    BY DEF Init, Unsettled, Delivered
<1>2. StageOf = [k \in MessageKeys |-> "unsent"] /\ Settled = {}
    BY <1>1 DEF StageOf, Settled, Stage
<1> QED
    BY <1>2 DEF Delivery!Init, StageOf, Settled, Init

\* Every step of the contract is a step of MessageDelivery or a stutter.
LEMMA NextRefines == IInv /\ IInv' /\ [Next]_vars => [Delivery!Next]_Delivery!vars
<1> SUFFICES ASSUME IInv, IInv', [Next]_vars
             PROVE  Delivery!Next \/ UNCHANGED Delivery!vars
    OBVIOUS
<1>1. TypeOK /\ TypeOK' /\ DeliveryInv
    BY DEF IInv, DeliveryInv
<1>2. CASE SendStep
    <2>1. PICK c \in Chains, d \in Chains, receipts \in Seq(Receipts),
               key \in MessageKeys, m \in Messages : IsTruthfulSend(c, d, receipts, key, m)
        BY <1>2, SendStepChanges
    <2>2. /\ ~Unsettled(key) /\ ~Delivered(key) /\ Unsettled(key)'
          /\ \A k \in MessageKeys \ {key} : Unsettled(k)' <=> Unsettled(k)
        BY <1>1, <2>1, FreshKey DEF IsTruthfulSend
    <2>3. Delivery!Send(key)
        BY <2>1, <2>2, SendRefines DEF IsTruthfulSend
    <2> QED
        BY <2>3 DEF Delivery!Next
<1>3. CASE ReceiveStep
    <2>1. PICK c \in Chains, w \in warpMessages \cup OtherWarpMessages,
               deliverer \in Relayers, relayer \in Relayers :
              ReceiveCrossChainMessage(c, w, deliverer, relayer)
        BY <1>3 DEF ReceiveStep
    <2>2. PICK key \in MessageKeys, m \in Messages : IsDelivery(key, m, relayer)
        BY <1>1, <2>1, ReceiveChanges
    <2>3. \E outcome \in {"failed", "done"} : Delivery!Deliver(key, relayer, outcome)
        BY <2>2, DeliveryRefines
    <2> QED
        BY <2>3 DEF Delivery!Next
<1>4. CASE RetryExecutionStep
    <2>1. PICK c \in Chains, origin \in Chains, m \in KnownMessages :
              RetryMessageExecution(c, origin, m)
        BY <1>4 DEF RetryExecutionStep
    <2>2. m \in Messages /\ \E key \in MessageKeys : IsRetried(key, m)
        BY <1>1, <2>1, RetryChanges
    <2>3. \E key \in MessageKeys : Delivery!Execute(key)
        BY <2>2, RetryRefines
    <2> QED
        BY <2>3 DEF Delivery!Next
<1>5. CASE AddFeeStep
    <2>1. PICK k \in MessageKeys, token \in FeeAssets,
               additional \in 0..MaxFee, received \in 0..MaxFee :
              AddFeeAmount(k, token, additional, received)
        BY <1>5 DEF AddFeeStep
    <2>2. received \in Nat
        BY BoundsAssumption
    <2>3. /\ UNCHANGED << receivedFailedMessageHashes, relayerRewardAddresses >>
          /\ \A j \in MessageKeys : Unsettled(j)' <=> Unsettled(j)
        BY <1>1, <2>1, <2>2, AddFeeChanges
    <2> QED
        BY <2>3, OtherRefines
<1>6. ASSUME UNCHANGED << sentMessageInfo, receivedFailedMessageHashes, relayerRewardAddresses >>
      PROVE  UNCHANGED Delivery!vars
    BY <1>6, OtherRefines DEF Unsettled
<1>7. CASE RetrySendStep
    BY <1>6, <1>7 DEF RetrySendStep, RetrySendCrossChainMessage, receiverVars
<1>8. CASE RedeemStep
    BY <1>6, <1>8 DEF RedeemStep, RedeemRelayerRewards, receiverVars
<1>9. ASSUME NEW c \in Chains, DeployDestination(c) PROVE UNCHANGED Delivery!vars
    BY <1>6, <1>9 DEF DeployDestination, senderVars, receiverVars
<1>10. ASSUME NEW w \in warpMessages, LoseWarpMessage(w) PROVE UNCHANGED Delivery!vars
    BY <1>6, <1>10 DEF LoseWarpMessage, receiverVars
<1>11. CASE UNCHANGED vars
    BY <1>6, <1>11 DEF vars
<1> QED
    BY <1>2, <1>3, <1>4, <1>5, <1>7, <1>8, <1>9, <1>10, <1>11 DEF Next

\* The contracts deliver every message at most once, execute it at most once and
\* settle its fee only after its delivery, whatever chains, relayers and bounds.
THEOREM DeliveryImplemented == Spec => ImplementsDelivery
<1>1. Init => Delivery!Init
    BY InitRefines
<1>2. IInv /\ IInv' /\ [Next]_vars => [Delivery!Next]_Delivery!vars
    BY NextRefines
<1> QED
    BY <1>1, <1>2, DeliverySafety, PTL DEF Spec, ImplementsDelivery, Delivery!Spec

-----------------------------------------------------------------------------
(* Fees: the contract holds exactly what it owes.                          *)

LEMMA KeysFinite == IsFiniteSet(MessageKeys) /\ IsFiniteSet(Relayers)
<1> DEFINE S == (Chains \X Chains) \X MessageIDs
           f == [p \in S |-> Key(p[1][1], p[1][2], p[2])]
<1>1. IsFiniteSet(S)
    <2>1. IsFiniteSet(MessageIDs)
        BY BoundsAssumption, FS_Interval DEF MessageIDs
    <2> QED
        BY <2>1, FinitenessAssumption, FS_Product
<1>2. f \in Surjection(S, MessageKeys)
    <2>1. f \in [S -> MessageKeys]
        BY DEF Key, MessageKeys
    <2>2. ASSUME NEW k \in MessageKeys PROVE \E p \in S : f[p] = k
        <3>1. << <<k.src, k.dst>>, k.id >> \in S /\ f[<< <<k.src, k.dst>>, k.id >>] = k
            BY DEF Key, MessageKeys
        <3> QED
            BY <3>1
    <2> QED
        BY <2>1, <2>2 DEF Surjection
<1> QED
    BY <1>1, <1>2, FinitenessAssumption, FS_Surjection

-----------------------------------------------------------------------------
(* What is owed, as sums over all messages and all relayers.               *)

StoredMessages == [MessageKeys -> SentMessageInfos \cup {Zero}]

\* The fee that a stored message promises on chain c in token t.
Fee(info, t) ==
    IF info # Zero THEN IF info.feeInfo.feeTokenAddress = t THEN info.feeInfo.amount ELSE 0 ELSE 0

Fees(sent, c, t) == [k \in MessageKeys |-> IF k.src = c THEN Fee(sent[k], t) ELSE 0]
RewardsIn(rewards, t) == [r \in Relayers |-> rewards[<<r, t>>]]

TotalFees(sent, c, t) == SetSum(Fees(sent, c, t), MessageKeys)
TotalRewards(rewards, t) == SetSum(RewardsIn(rewards, t), Relayers)
Owed(sent, rewards, c, t) == TotalFees(sent, c, t) + TotalRewards(rewards, t)

Accounted ==
    \A c \in Chains, t \in Tokens :
        balances[c][t] = Owed(sentMessageInfo, relayerRewardAmounts[c], c, t)

LEMMA FeeType ==
    ASSUME NEW info \in SentMessageInfos \cup {Zero}, NEW t
    PROVE  Fee(info, t) \in Nat
<1>1. CASE info = Zero
    BY <1>1 DEF Fee
<1>2. CASE info # Zero
    <2>1. info.feeInfo \in FeeInfos
        BY <1>2 DEF SentMessageInfos
    <2>2. info.feeInfo.amount \in Nat
        BY <2>1 DEF FeeInfos
    <2> QED
        BY <2>2 DEF Fee
<1> QED
    BY <1>1, <1>2

LEMMA FeesType ==
    ASSUME NEW sent \in StoredMessages, NEW c, NEW t
    PROVE  /\ \A k \in MessageKeys : Fees(sent, c, t)[k] \in Nat
           /\ TotalFees(sent, c, t) \in Nat
<1>1. \A k \in MessageKeys : Fees(sent, c, t)[k] \in Nat
    <2> TAKE k \in MessageKeys
    <2>1. Fee(sent[k], t) \in Nat
        BY FeeType DEF StoredMessages
    <2> QED
        BY <2>1 DEF Fees
<1> QED
    BY <1>1, KeysFinite, SetSumProperties DEF TotalFees

LEMMA RewardsType ==
    ASSUME NEW rewards \in [Relayers \X FeeAssets -> Nat], NEW t \in Tokens
    PROVE  /\ \A r \in Relayers : RewardsIn(rewards, t)[r] \in Nat
           /\ TotalRewards(rewards, t) \in Nat
<1>1. \A r \in Relayers : RewardsIn(rewards, t)[r] \in Nat
    <2> TAKE r \in Relayers
    <2>1. <<r, t>> \in Relayers \X FeeAssets
        BY DEF FeeAssets
    <2> QED
        BY <2>1 DEF RewardsIn
<1> QED
    BY <1>1, KeysFinite, SetSumProperties DEF TotalRewards

\* The fees change with the one message that changes.
LEMMA FeesUpdate ==
    ASSUME NEW sent \in StoredMessages, NEW after \in StoredMessages, NEW key \in MessageKeys,
           \A k \in MessageKeys \ {key} : after[k] = sent[k], NEW c, NEW t
    PROVE  IF key.src = c
           THEN TotalFees(after, c, t) + Fee(sent[key], t) = TotalFees(sent, c, t) + Fee(after[key], t)
           ELSE TotalFees(after, c, t) = TotalFees(sent, c, t)
<1> DEFINE f == Fees(sent, c, t)
           g == Fees(after, c, t)
<1>1. (\A k \in MessageKeys : f[k] \in Nat) /\ (\A k \in MessageKeys : g[k] \in Nat)
    BY FeesType
<1>2. \A k \in MessageKeys \ {key} : f[k] = g[k]
    BY DEF Fees
<1>3. f[key] = (IF key.src = c THEN Fee(sent[key], t) ELSE 0)
      /\ g[key] = IF key.src = c THEN Fee(after[key], t) ELSE 0
    BY DEF Fees
<1>4. SetSum(f, MessageKeys) = TotalFees(sent, c, t) /\ SetSum(g, MessageKeys) = TotalFees(after, c, t)
    BY DEF TotalFees
<1>5. TotalFees(sent, c, t) \in Nat /\ TotalFees(after, c, t) \in Nat
    BY FeesType
<1> HIDE DEF f, g
<1>6. SetSum(g, MessageKeys) + f[key] = SetSum(f, MessageKeys) + g[key]
    BY <1>1, <1>2, KeysFinite, SetSumUpdate
<1> QED
    BY <1>3, <1>4, <1>5, <1>6

\* The rewards change with the one relayer whose reward changes.
LEMMA RewardsUpdate ==
    ASSUME NEW rewards \in [Relayers \X FeeAssets -> Nat],
           NEW after \in [Relayers \X FeeAssets -> Nat],
           NEW relayer \in Relayers, NEW t \in Tokens,
           \A r \in Relayers \ {relayer} : after[<<r, t>>] = rewards[<<r, t>>]
    PROVE  TotalRewards(after, t) + rewards[<<relayer, t>>]
               = TotalRewards(rewards, t) + after[<<relayer, t>>]
<1> DEFINE f == RewardsIn(rewards, t)
           g == RewardsIn(after, t)
<1>1. (\A r \in Relayers : f[r] \in Nat) /\ (\A r \in Relayers : g[r] \in Nat)
    BY RewardsType
<1>2. \A r \in Relayers \ {relayer} : f[r] = g[r]
    BY DEF RewardsIn
<1>3. f[relayer] = rewards[<<relayer, t>>] /\ g[relayer] = after[<<relayer, t>>]
    BY DEF RewardsIn
<1>4. SetSum(f, Relayers) = TotalRewards(rewards, t) /\ SetSum(g, Relayers) = TotalRewards(after, t)
    BY DEF TotalRewards
<1> HIDE DEF f, g
<1>5. SetSum(g, Relayers) + f[relayer] = SetSum(f, Relayers) + g[relayer]
    BY <1>1, <1>2, KeysFinite, SetSumUpdate
<1> QED
    BY <1>3, <1>4, <1>5

-----------------------------------------------------------------------------
(* Receipts.                                                               *)

\* One receipt turns a fee into a reward and leaves other chains' fees alone.
LEMMA MarkReceiptPays ==
    ASSUME NEW c \in Chains, NEW d \in Chains, NEW receipt \in Receipts,
           NEW ledger \in Ledgers, NEW t \in Tokens
    PROVE  LET after == MarkReceipt(ledger, c, d, receipt)
           IN  /\ Owed(after.sent, after.rewards, c, t) = Owed(ledger.sent, ledger.rewards, c, t)
               /\ \A a \in Chains \ {c} :
                      TotalFees(after.sent, a, t) = TotalFees(ledger.sent, a, t)
<1> DEFINE after == MarkReceipt(ledger, c, d, receipt)
           key   == Key(c, d, receipt.receivedMessageID)
           info  == ledger.sent[key]
           payee == receipt.relayerRewardAddress
<1>1. /\ key \in MessageKeys /\ key.src = c /\ payee \in Relayers
      /\ ledger.sent \in StoredMessages /\ ledger.rewards \in [Relayers \X FeeAssets -> Nat]
    BY DEF Key, MessageKeys, Receipts, Ledgers, StoredMessages
<1>2. /\ after \in Ledgers
      /\ after.sent = [k \in MessageKeys |-> IF k = key THEN Zero ELSE ledger.sent[k]]
    BY MarkReceiptEffect
<1>3. after.sent \in StoredMessages /\ after.rewards \in [Relayers \X FeeAssets -> Nat]
    BY <1>2 DEF Ledgers, StoredMessages
<1>4. CASE info = Zero
    <2>1. after = ledger
        BY <1>4 DEF MarkReceipt
    <2> QED
        BY <2>1
<1>5. CASE info # Zero
    <2>1. /\ info.feeInfo.feeTokenAddress \in FeeAssets /\ info.feeInfo.amount \in Nat
        <3>1. info \in SentMessageInfos
            BY <1>1, <1>5 DEF StoredMessages
        <3>2. info.feeInfo \in FeeInfos
            BY <3>1 DEF SentMessageInfos
        <3> QED
            BY <3>2 DEF FeeInfos
    <2>2. after.rewards = [ledger.rewards EXCEPT
                              ![<<payee, info.feeInfo.feeTokenAddress>>] = @ + info.feeInfo.amount]
        BY <1>5 DEF MarkReceipt, Credited
    <2>3. \A r \in Relayers : after.rewards[<<r, t>>] =
              IF r = payee THEN ledger.rewards[<<r, t>>] + Fee(info, t) ELSE ledger.rewards[<<r, t>>]
        <3> TAKE r \in Relayers
        <3>1. <<r, t>> \in Relayers \X FeeAssets /\ ledger.rewards[<<r, t>>] \in Nat
            BY <1>1 DEF FeeAssets
        <3>2. after.rewards[<<r, t>>] =
                  IF <<r, t>> = <<payee, info.feeInfo.feeTokenAddress>>
                  THEN ledger.rewards[<<r, t>>] + info.feeInfo.amount ELSE ledger.rewards[<<r, t>>]
            BY <1>1, <2>2, <3>1
        <3> HIDE DEF info, payee, after
        <3> QED
            BY <1>5, <3>1, <3>2 DEF Fee
    <2>4. after.sent[key] = Zero /\ \A k \in MessageKeys \ {key} : after.sent[k] = ledger.sent[k]
        BY <1>1, <1>2
    <2>5. Fee(Zero, t) = 0 /\ Fee(info, t) \in Nat
        BY <1>1, FeeType DEF Fee, StoredMessages
    <2> HIDE DEF after, key, info, payee
    <2>6. TotalRewards(after.rewards, t) = TotalRewards(ledger.rewards, t) + Fee(info, t)
        <3>1. TotalRewards(after.rewards, t) + ledger.rewards[<<payee, t>>]
                  = TotalRewards(ledger.rewards, t) + after.rewards[<<payee, t>>]
            BY <1>1, <1>3, <2>3, RewardsUpdate
        <3>2. ledger.rewards[<<payee, t>>] \in Nat
            BY <1>1 DEF FeeAssets
        <3>3. TotalRewards(after.rewards, t) \in Nat /\ TotalRewards(ledger.rewards, t) \in Nat
            BY <1>1, <1>3, RewardsType
        <3>4. after.rewards[<<payee, t>>] = ledger.rewards[<<payee, t>>] + Fee(info, t)
            BY <1>1, <2>3
        <3> QED
            BY <2>5, <3>1, <3>2, <3>3, <3>4
    <2>7. /\ TotalFees(after.sent, c, t) + Fee(ledger.sent[key], t)
                 = TotalFees(ledger.sent, c, t) + Fee(after.sent[key], t)
          /\ \A a \in Chains \ {c} : TotalFees(after.sent, a, t) = TotalFees(ledger.sent, a, t)
        BY <1>1, <1>3, <2>4, FeesUpdate
    <2>8. TotalFees(after.sent, c, t) + Fee(info, t) = TotalFees(ledger.sent, c, t)
        <3>1. TotalFees(after.sent, c, t) \in Nat /\ TotalFees(ledger.sent, c, t) \in Nat
            BY <1>1, <1>3, FeesType
        <3>2. ledger.sent[key] = info
            BY DEF info
        <3> QED
            BY <2>4, <2>5, <2>7, <3>1, <3>2
    <2>9. /\ TotalFees(after.sent, c, t) \in Nat /\ TotalFees(ledger.sent, c, t) \in Nat
          /\ TotalRewards(after.rewards, t) \in Nat /\ TotalRewards(ledger.rewards, t) \in Nat
        BY <1>1, <1>3, FeesType, RewardsType
    <2>10. Owed(after.sent, after.rewards, c, t) = Owed(ledger.sent, ledger.rewards, c, t)
        BY <2>5, <2>6, <2>8, <2>9 DEF Owed
    <2> QED
        BY <2>7, <2>10 DEF after
<1> QED
    BY <1>4, <1>5

\* The loop over the receipts of a message owes as much after as before.
LEMMA MarkReceiptsPay ==
    ASSUME NEW c \in Chains, NEW d \in Chains, NEW receipts \in Seq(Receipts), LedgerTypeOK,
           NEW t \in Tokens
    PROVE  LET after == MarkReceipts(c, d, receipts)
           IN  /\ Owed(after.sent, after.rewards, c, t)
                      = Owed(sentMessageInfo, relayerRewardAmounts[c], c, t)
               /\ \A a \in Chains \ {c} :
                      TotalFees(after.sent, a, t) = TotalFees(sentMessageInfo, a, t)
<1> DEFINE Pays(ledger) ==
               /\ Owed(ledger.sent, ledger.rewards, c, t)
                      = Owed(sentMessageInfo, relayerRewardAmounts[c], c, t)
               /\ \A a \in Chains \ {c} :
                      TotalFees(ledger.sent, a, t) = TotalFees(sentMessageInfo, a, t)
           S == {n \in Nat : n <= Len(receipts) => Pays(MarkFirst(c, d, receipts, n))}
<1>0. Len(receipts) \in Nat
    BY LenProperties
<1>1. PICK after : /\ IsLoop(c, d, receipts, Len(receipts), after)
                   /\ \A n : MarkFirst(c, d, receipts, n) = after[n]
    BY MarkFirstIsLoop
<1>2. \A n \in 0..Len(receipts) :
          MarkFirst(c, d, receipts, n) =
              IF n = 0
              THEN [sent |-> sentMessageInfo, rewards |-> relayerRewardAmounts[c]]
              ELSE MarkReceipt(MarkFirst(c, d, receipts, n - 1), c, d, receipts[n])
    BY <1>1 DEF IsLoop, LoopStep
<1>3. 0 \in S
    <2>1. MarkFirst(c, d, receipts, 0) =
              [sent |-> sentMessageInfo, rewards |-> relayerRewardAmounts[c]]
        BY <1>0, <1>2
    <2> QED
        BY <2>1
<1>4. ASSUME NEW n \in Nat, n \in S PROVE n + 1 \in S
    <2> SUFFICES ASSUME n + 1 <= Len(receipts) PROVE Pays(MarkFirst(c, d, receipts, n + 1))
        OBVIOUS
    <2> DEFINE old == MarkFirst(c, d, receipts, n)
               new == MarkFirst(c, d, receipts, n + 1)
    <2>1. Pays(old) /\ n <= Len(receipts)
        BY <1>0, <1>4
    <2>2. old \in Ledgers
        BY <2>1, MarkFirstEffect
    <2>3. new = MarkReceipt(old, c, d, receipts[n + 1])
        BY <1>0, <1>2
    <2>4. receipts[n + 1] \in Receipts
        BY <1>0, ElementOfSeq
    <2> HIDE DEF old, new, S, Pays
    <2>5. \A r \in Receipts :
              LET next == MarkReceipt(old, c, d, r)
              IN  /\ Owed(next.sent, next.rewards, c, t) = Owed(old.sent, old.rewards, c, t)
                  /\ \A a \in Chains \ {c} :
                         TotalFees(next.sent, a, t) = TotalFees(old.sent, a, t)
        BY <2>2, MarkReceiptPays
    <2>6. /\ Owed(new.sent, new.rewards, c, t) = Owed(old.sent, old.rewards, c, t)
          /\ \A a \in Chains \ {c} : TotalFees(new.sent, a, t) = TotalFees(old.sent, a, t)
        BY <2>3, <2>4, <2>5
    <2>7. Pays(new)
        BY <2>1, <2>6 DEF Pays
    <2> QED
        BY <2>7 DEF new
<1> HIDE DEF S
<1>5. \A n \in Nat : n \in S
    BY <1>3, <1>4, NatSetInduction
<1>6. Pays(MarkFirst(c, d, receipts, Len(receipts)))
    BY <1>0, <1>5 DEF S
<1> QED
    BY <1>6 DEF MarkReceipts

-----------------------------------------------------------------------------
(* The steps.                                                              *)

LEMMA OwedTypes ==
    ASSUME LedgerTypeOK
    PROVE  /\ sentMessageInfo \in StoredMessages
           /\ \A c \in Chains : relayerRewardAmounts[c] \in [Relayers \X FeeAssets -> Nat]
           /\ \A c \in Chains, t \in Tokens :
                  /\ balances[c][t] \in Nat
                  /\ TotalFees(sentMessageInfo, c, t) \in Nat
                  /\ TotalRewards(relayerRewardAmounts[c], t) \in Nat
<1>1. /\ sentMessageInfo \in StoredMessages
      /\ \A c \in Chains : relayerRewardAmounts[c] \in [Relayers \X FeeAssets -> Nat]
      /\ \A c \in Chains, t \in Tokens : balances[c][t] \in Nat
    BY DEF LedgerTypeOK, StoredMessages
<1> QED
    BY <1>1, FeesType, RewardsType

\* Tokens arrive for the fee of one message.
FeeArrival(key, token, received) ==
    /\ balances' = Deposit(key.src, token, received)
    /\ sentMessageInfo' \in StoredMessages
    /\ UNCHANGED relayerRewardAmounts
    /\ \A k \in MessageKeys \ {key} : sentMessageInfo'[k] = sentMessageInfo[k]
    /\ \A t \in Tokens : Fee(sentMessageInfo'[key], t) =
           Fee(sentMessageInfo[key], t) + (IF t = token THEN received ELSE 0)

\* A fee that arrives is held and owed.
LEMMA FeeArrives ==
    ASSUME LedgerTypeOK, Accounted, NEW key \in MessageKeys, NEW token, NEW received \in Nat,
           FeeArrival(key, token, received)
    PROVE  Accounted'
<1> DEFINE after == sentMessageInfo'
<1>0. /\ balances' = Deposit(key.src, token, received)
      /\ after \in StoredMessages
      /\ relayerRewardAmounts' = relayerRewardAmounts
      /\ \A k \in MessageKeys \ {key} : after[k] = sentMessageInfo[k]
      /\ \A t \in Tokens : Fee(after[key], t) =
             Fee(sentMessageInfo[key], t) + (IF t = token THEN received ELSE 0)
    BY DEF FeeArrival
<1>1. ASSUME NEW c \in Chains, NEW t \in Tokens
      PROVE  balances'[c][t] = Owed(after, relayerRewardAmounts[c], c, t)
    <2>1. balances'[c][t] = IF c = key.src /\ t = token
                            THEN balances[c][t] + received ELSE balances[c][t]
        BY <1>0 DEF Deposit, LedgerTypeOK
    <2>2. balances[c][t] = TotalFees(sentMessageInfo, c, t) + TotalRewards(relayerRewardAmounts[c], t)
        BY DEF Accounted, Owed
    <2>3. IF key.src = c
          THEN TotalFees(after, c, t) + Fee(sentMessageInfo[key], t)
                   = TotalFees(sentMessageInfo, c, t) + Fee(after[key], t)
          ELSE TotalFees(after, c, t) = TotalFees(sentMessageInfo, c, t)
        <3> HIDE DEF after
        <3> QED
            BY <1>0, OwedTypes, FeesUpdate
    <2>4. /\ TotalFees(sentMessageInfo, c, t) \in Nat /\ TotalFees(after, c, t) \in Nat
          /\ TotalRewards(relayerRewardAmounts[c], t) \in Nat
          /\ Fee(sentMessageInfo[key], t) \in Nat
        <3>1. Fee(sentMessageInfo[key], t) \in Nat
            BY FeeType, OwedTypes DEF StoredMessages
        <3>2. TotalFees(after, c, t) \in Nat
            BY <1>0, FeesType
        <3> QED
            BY <3>1, <3>2, OwedTypes
    <2>5. Fee(after[key], t) = Fee(sentMessageInfo[key], t) + (IF t = token THEN received ELSE 0)
        BY <1>0
    <2> HIDE DEF after
    <2>6. TotalFees(after, c, t) = IF c = key.src /\ t = token
                                   THEN TotalFees(sentMessageInfo, c, t) + received
                                   ELSE TotalFees(sentMessageInfo, c, t)
        BY <2>3, <2>4, <2>5
    <2> QED
        BY <2>1, <2>2, <2>4, <2>6 DEF Owed
<1> QED
    BY <1>0, <1>1 DEF Accounted

LEMMA SendAccounted ==
    ASSUME DeliveryInv, Accounted, NEW c \in Chains, NEW d \in Chains, NEW fee \in FeeInfos,
           NEW received \in Nat, NEW allowed \in SUBSET Relayers,
           NEW nonEmpty \in BOOLEAN, NEW receipts \in Seq(Receipts),
           SendTeleporterMessage(c, d, fee, received, allowed, nonEmpty, receipts),
           UNCHANGED relayerRewardAmounts
    PROVE  Accounted'
<1> DEFINE key  == Key(c, d, NextMessageID(c, d))
           m    == NewMessage(c, d, allowed, nonEmpty, receipts)
           info == [messageHash |-> m, feeInfo |-> AdjustedFeeInfo(fee, received)]
<1>1. TypeOK /\ LedgerTypeOK
    BY DEF DeliveryInv, TypeOK
<1>2. m \in Messages /\ key \in MessageKeys
    <2>1. NextMessageID(c, d) \in MessageIDs
        BY <1>1, BoundsAssumption DEF TypeOK, NextMessageID, SendTeleporterMessage, MessageIDs
    <2> QED
        BY <2>1 DEF NewMessage, Messages, Key, MessageKeys
<1>3. /\ sentMessageInfo' = [sentMessageInfo EXCEPT ![key] = info]
      /\ balances' = Deposit(c, fee.feeTokenAddress, received)
      /\ received \in AmountsReceived(fee.amount)
      /\ fee.amount > 0 => fee.feeTokenAddress # Zero
    BY DEF SendTeleporterMessage
<1>4. key.src = c /\ ~Unsettled(key)
    <2>1. key.src = c /\ key.dst = d /\ key.id = latestMessageIDs[c][d] + 1
        BY DEF Key, NextMessageID
    <2>2. latestMessageIDs[c][d] \in Nat
        BY BoundsAssumption DEF DeliveryInv, TypeOK
    <2> HIDE DEF key
    <2>3. ~(key.id <= latestMessageIDs[key.src][key.dst])
        BY <2>1, <2>2
    <2> QED
        BY <1>2, <2>1, <2>3 DEF DeliveryInv, MessageNeverLost
<1>6. /\ info.feeInfo.feeTokenAddress = fee.feeTokenAddress /\ info.feeInfo.amount = received
      /\ info # Zero /\ info \in SentMessageInfos
    <2>1. /\ AdjustedFeeInfo(fee, received) \in FeeInfos
          /\ AdjustedFeeInfo(fee, received).feeTokenAddress = fee.feeTokenAddress
          /\ AdjustedFeeInfo(fee, received).amount = received
        BY DEF AdjustedFeeInfo, FeeInfos
    <2> HIDE DEF m
    <2>2. info \in SentMessageInfos
        BY <1>2, <2>1 DEF SentMessageInfos
    <2> QED
        BY <2>1, <2>2, ZeroAssumption
<1> HIDE DEF info, key
<1>7. /\ sentMessageInfo' \in StoredMessages
      /\ sentMessageInfo'[key] = info /\ sentMessageInfo[key] = Zero
      /\ \A k \in MessageKeys \ {key} : sentMessageInfo'[k] = sentMessageInfo[k]
    BY <1>1, <1>2, <1>3, <1>4, <1>6 DEF LedgerTypeOK, Unsettled, StoredMessages
<1>8. \A t \in Tokens : Fee(info, t) =
          Fee(Zero, t) + (IF t = fee.feeTokenAddress THEN received ELSE 0)
    BY <1>6 DEF Fee
<1>9. \A t \in Tokens : Fee(sentMessageInfo'[key], t) =
          Fee(sentMessageInfo[key], t) + (IF t = fee.feeTokenAddress THEN received ELSE 0)
    BY <1>7, <1>8
<1>10. FeeArrival(key, fee.feeTokenAddress, received)
    BY <1>3, <1>4, <1>7, <1>9 DEF FeeArrival
<1> QED
    BY <1>1, <1>2, <1>10, FeeArrives

LEMMA AddFeeAccounted ==
    ASSUME LedgerTypeOK, LedgerTypeOK', Accounted, NEW key \in MessageKeys, NEW token,
           NEW additional, NEW received \in Nat, AddFeeAmount(key, token, additional, received)
    PROVE  Accounted'
<1>1. /\ sentMessageInfo[key] # Zero
      /\ sentMessageInfo[key].feeInfo.feeTokenAddress = token
      /\ balances' = Deposit(key.src, token, received)
      /\ sentMessageInfo' = [sentMessageInfo EXCEPT ![key].feeInfo.amount = @ + received]
      /\ UNCHANGED relayerRewardAmounts
    BY DEF AddFeeAmount, MessageSent
<1>2. sentMessageInfo \in StoredMessages /\ sentMessageInfo' \in StoredMessages
    BY DEF LedgerTypeOK, StoredMessages
<1>3. \A k \in MessageKeys \ {key} : sentMessageInfo'[k] = sentMessageInfo[k]
    BY <1>1, <1>2 DEF StoredMessages
<1> DEFINE info == sentMessageInfo[key]
           after == sentMessageInfo'[key]
<1>4. info \in SentMessageInfos /\ info # Zero
    BY <1>1, <1>2 DEF StoredMessages
<1>5. after = [info EXCEPT !.feeInfo.amount = @ + received]
    BY <1>1, <1>2 DEF StoredMessages
<1> HIDE DEF after, info
<1>6. info.feeInfo \in FeeInfos
    BY <1>4 DEF SentMessageInfos
<1>7. info.feeInfo.feeTokenAddress = token
    BY <1>1 DEF info
<1>8. /\ after # Zero /\ after.feeInfo.feeTokenAddress = token
      /\ after.feeInfo.amount = info.feeInfo.amount + received
    <2>1. after.feeInfo = [info.feeInfo EXCEPT !.amount = @ + received]
        BY <1>4, <1>5 DEF SentMessageInfos
    <2>2. after # Zero
        BY <1>4, <1>5, IncreasedFeeType, ZeroAssumption
    <2> QED
        BY <1>6, <1>7, <2>1, <2>2 DEF FeeInfos
<1>9. \A t \in Tokens : Fee(after, t) = Fee(info, t) + (IF t = token THEN received ELSE 0)
    BY <1>4, <1>7, <1>8 DEF Fee
<1>10. FeeArrival(key, token, received)
    BY <1>1, <1>2, <1>3, <1>9 DEF FeeArrival, after, info
<1> QED
    BY <1>10, FeeArrives

\* A delivery pays what its receipts settle, on the receiving chain only.
LEMMA ReceiveAccounted ==
    ASSUME DeliveryInv, Accounted, NEW c \in Chains,
           NEW w \in warpMessages \cup OtherWarpMessages,
           NEW deliverer \in Relayers, NEW relayer \in Relayers,
           ReceiveCrossChainMessage(c, w, deliverer, relayer)
    PROVE  Accounted'
<1> DEFINE ledger == MarkReceipts(c, w.sourceChainID, w.payload.receipts)
<1>1. TypeOK /\ LedgerTypeOK
    BY DEF DeliveryInv, TypeOK
<1>2. w.sourceChainID \in Chains /\ w.payload.receipts \in Seq(Receipts)
    BY <1>1, ReceivedMessageType
<1>3. /\ sentMessageInfo' = ledger.sent
      /\ relayerRewardAmounts' = [relayerRewardAmounts EXCEPT ![c] = ledger.rewards]
      /\ balances' = balances
    BY DEF ReceiveCrossChainMessage
<1>4. \A t \in Tokens :
          /\ Owed(ledger.sent, ledger.rewards, c, t)
                 = Owed(sentMessageInfo, relayerRewardAmounts[c], c, t)
          /\ \A a \in Chains \ {c} :
                 TotalFees(ledger.sent, a, t) = TotalFees(sentMessageInfo, a, t)
    BY <1>1, <1>2, MarkReceiptsPay
<1> HIDE DEF ledger
<1>5. ASSUME NEW a \in Chains, NEW t \in Tokens
      PROVE  balances'[a][t] = Owed(sentMessageInfo', relayerRewardAmounts'[a], a, t)
    <2>1. balances[a][t] = Owed(sentMessageInfo, relayerRewardAmounts[a], a, t)
        BY DEF Accounted
    <2>2. relayerRewardAmounts'[a] = IF a = c THEN ledger.rewards ELSE relayerRewardAmounts[a]
        BY <1>1, <1>3 DEF LedgerTypeOK
    <2>3. CASE a = c
        BY <1>3, <1>4, <2>1, <2>2, <2>3
    <2>4. CASE a # c
        BY <1>3, <1>4, <2>1, <2>2, <2>4 DEF Owed
    <2> QED
        BY <2>3, <2>4
<1> QED
    BY <1>5 DEF Accounted

\* What a relayer redeems leaves the contract and is no longer owed.
LEMMA RedeemAccounted ==
    ASSUME TypeOK, TypeOK', Accounted, NEW c \in Chains, NEW relayer \in Relayers,
           NEW asset \in Tokens, RedeemRelayerRewards(c, relayer, asset)
    PROVE  Accounted'
<1> DEFINE amount == relayerRewardAmounts[c][<<relayer, asset>>]
<1>1. LedgerTypeOK /\ LedgerTypeOK'
    BY DEF TypeOK
<1>2. /\ balances[c][asset] >= amount
      /\ relayerRewardAmounts' = [relayerRewardAmounts EXCEPT ![c][<<relayer, asset>>] = 0]
      /\ balances' = [balances EXCEPT ![c][asset] = @ - amount]
      /\ sentMessageInfo' = sentMessageInfo
    BY DEF RedeemRelayerRewards
<1>3. amount \in Nat /\ <<relayer, asset>> \in Relayers \X FeeAssets
    BY <1>1 DEF LedgerTypeOK, FeeAssets
<1> HIDE DEF amount
<1>4. ASSUME NEW a \in Chains, NEW t \in Tokens
      PROVE  balances'[a][t] = Owed(sentMessageInfo', relayerRewardAmounts'[a], a, t)
    <2>1. balances[a][t] = Owed(sentMessageInfo, relayerRewardAmounts[a], a, t)
        BY DEF Accounted
    <2>2. balances'[a][t] = IF a = c /\ t = asset THEN balances[a][t] - amount ELSE balances[a][t]
        BY <1>1, <1>2 DEF LedgerTypeOK
    <2>3. CASE a # c
        <3>1. relayerRewardAmounts'[a] = relayerRewardAmounts[a]
            BY <1>1, <1>2, <2>3 DEF LedgerTypeOK
        <3> QED
            BY <1>2, <2>1, <2>2, <2>3, <3>1
    <2>4. CASE a = c
        <3> DEFINE rewards == relayerRewardAmounts[c]
                   after   == relayerRewardAmounts'[c]
        <3>1. /\ rewards \in [Relayers \X FeeAssets -> Nat]
              /\ after \in [Relayers \X FeeAssets -> Nat]
              /\ after = [rewards EXCEPT ![<<relayer, asset>>] = 0]
            BY <1>1, <1>2 DEF LedgerTypeOK
        <3>2. rewards[<<relayer, asset>>] = amount
            BY DEF amount
        <3> HIDE DEF rewards, after
        <3>3. \A r \in Relayers : <<r, t>> \in Relayers \X FeeAssets
            BY DEF FeeAssets
        <3>4. \A r \in Relayers : after[<<r, t>>] =
                  IF r = relayer /\ t = asset THEN 0 ELSE rewards[<<r, t>>]
            BY <3>1, <3>3
        <3>5. TotalRewards(after, t) + rewards[<<relayer, t>>]
                  = TotalRewards(rewards, t) + after[<<relayer, t>>]
            <4>1. \A r \in Relayers \ {relayer} : after[<<r, t>>] = rewards[<<r, t>>]
                BY <3>4
            <4>2. /\ rewards \in [Relayers \X FeeAssets -> Nat]
                  /\ after \in [Relayers \X FeeAssets -> Nat]
                BY <3>1
            <4> QED
                BY ONLY <4>1, <4>2, relayer \in Relayers, t \in Tokens, RewardsUpdate
        <3>6. /\ TotalRewards(after, t) \in Nat /\ TotalRewards(rewards, t) \in Nat
              /\ rewards[<<relayer, t>>] \in Nat
            BY <3>1, <3>3, RewardsType
        <3>7. TotalRewards(after, t) =
                  IF t = asset THEN TotalRewards(rewards, t) - amount ELSE TotalRewards(rewards, t)
            BY <3>2, <3>4, <3>5, <3>6
        <3>8. TotalFees(sentMessageInfo, c, t) \in Nat
            BY <1>1, OwedTypes
        <3>9. balances[c][t] = TotalFees(sentMessageInfo, c, t) + TotalRewards(rewards, t)
            BY <2>1, <2>4 DEF Owed, rewards
        <3>10. balances'[c][t] = TotalFees(sentMessageInfo, c, t) + TotalRewards(after, t)
            BY <1>3, <2>2, <2>4, <3>6, <3>7, <3>8, <3>9
        <3> QED
            BY <1>2, <2>4, <3>10 DEF Owed, after
    <2> QED
        BY <2>3, <2>4
<1> QED
    BY <1>4 DEF Accounted

\* Without fees and rewards nothing is owed.
LEMMA InitAccounted == Init => Accounted
<1> SUFFICES ASSUME Init, NEW c \in Chains, NEW t \in Tokens
             PROVE  balances[c][t] = Owed(sentMessageInfo, relayerRewardAmounts[c], c, t)
    BY DEF Accounted
<1>1. balances[c][t] = 0
    BY DEF Init
<1>2. TotalFees(sentMessageInfo, c, t) = 0
    <2> DEFINE f == Fees(sentMessageInfo, c, t)
    <2>1. \A k \in MessageKeys : f[k] = 0
        BY DEF Init, Fees, Fee
    <2> HIDE DEF f
    <2>2. SetSum(f, MessageKeys) = SetSum(f, {}) /\ SetSum(f, {}) = 0
        BY <2>1, KeysFinite, SetSumSupport, SetSumProperties, FS_EmptySet
    <2> QED
        BY <2>2 DEF TotalFees, f
<1>3. TotalRewards(relayerRewardAmounts[c], t) = 0
    <2> DEFINE f == RewardsIn(relayerRewardAmounts[c], t)
    <2>1. \A r \in Relayers : f[r] = 0
        BY DEF Init, RewardsIn, FeeAssets
    <2> HIDE DEF f
    <2>2. SetSum(f, Relayers) = SetSum(f, {}) /\ SetSum(f, {}) = 0
        BY <2>1, KeysFinite, SetSumSupport, SetSumProperties, FS_EmptySet
    <2> QED
        BY <2>2 DEF TotalRewards, f
<1> QED
    BY <1>1, <1>2, <1>3 DEF Owed

\* Both kinds of send leave the contract owing what it holds.
LEMMA SendStepAccounted ==
    ASSUME DeliveryInv, Accounted, SendStep PROVE Accounted'
<1>1. PICK i \in SendInputs, received \in 0..MaxFee :
          \/ SendCrossChainMessage(i.src, i.dst, i.fee, received, i.allowed, i.nonEmpty)
          \/ \E n \in 0..MaxSpecified : \E messageIDs \in [1..n -> MessageIDs] :
                 SendSpecifiedReceipts(i.src, i.dst, messageIDs, i.fee, received, i.allowed)
    BY DEF SendStep
<1>2. /\ i.src \in Chains /\ i.dst \in Chains /\ i.fee \in FeeInfos
      /\ i.allowed \in SUBSET Relayers /\ received \in Nat /\ i.nonEmpty \in BOOLEAN
    BY InputsAssumption, BoundsAssumption DEF Inputs
<1>3. TypeOK
    BY DEF DeliveryInv
<1>4. ASSUME SendCrossChainMessage(i.src, i.dst, i.fee, received, i.allowed, i.nonEmpty)
      PROVE  Accounted'
    <2> DEFINE out == OutstandingReceipts(receiptQueues[i.src][i.dst])
    <2>1. out \in Seq(Receipts)
        <3>1. receiptQueues[i.src][i.dst] \in Seq(Receipts)
            BY <1>2, <1>3 DEF TypeOK, DeliveryTypeOK
        <3> QED
            BY <3>1, BatchProperties
    <2>2. /\ SendTeleporterMessage(i.src, i.dst, i.fee, received, i.allowed, i.nonEmpty, out)
          /\ UNCHANGED relayerRewardAmounts
        BY <1>4 DEF SendCrossChainMessage
    <2> DEFINE src == i.src
               dst == i.dst
               fee == i.fee
               allowed == i.allowed
               nonEmpty == i.nonEmpty
    <2>3. /\ src \in Chains /\ dst \in Chains /\ fee \in FeeInfos
          /\ allowed \in SUBSET Relayers /\ received \in Nat /\ nonEmpty \in BOOLEAN
          /\ SendTeleporterMessage(src, dst, fee, received, allowed, nonEmpty, out)
          /\ UNCHANGED relayerRewardAmounts
        BY <1>2, <2>2
    <2> HIDE DEF out, src, dst, fee, allowed, nonEmpty
    <2> QED
        BY ONLY DeliveryInv, Accounted, <2>1, <2>3, SendAccounted, Zenon
<1>5. ASSUME NEW n \in 0..MaxSpecified, NEW messageIDs \in [1..n -> MessageIDs],
             SendSpecifiedReceipts(i.src, i.dst, messageIDs, i.fee, received, i.allowed)
      PROVE  Accounted'
    <2> DEFINE out == SpecifiedReceipts(i.dst, i.src, messageIDs)
    <2>1. out \in Seq(Receipts)
        <3>1. n \in Nat /\ ReceiptsFound(i.dst, i.src, messageIDs)
            BY <1>5, BoundsAssumption DEF SendSpecifiedReceipts
        <3> QED
            BY <1>2, <1>3, <3>1, SpecifiedReceiptsType
    <2>2. /\ SendTeleporterMessage(i.src, i.dst, i.fee, received, i.allowed, FALSE, out)
          /\ UNCHANGED relayerRewardAmounts
        BY <1>5 DEF SendSpecifiedReceipts
    <2> DEFINE src == i.src
               dst == i.dst
               fee == i.fee
               allowed == i.allowed
               nonEmpty == FALSE
    <2>3. /\ src \in Chains /\ dst \in Chains /\ fee \in FeeInfos
          /\ allowed \in SUBSET Relayers /\ received \in Nat /\ nonEmpty \in BOOLEAN
          /\ SendTeleporterMessage(src, dst, fee, received, allowed, nonEmpty, out)
          /\ UNCHANGED relayerRewardAmounts
        BY <1>2, <2>2
    <2> HIDE DEF out, src, dst, fee, allowed, nonEmpty
    <2> QED
        BY ONLY DeliveryInv, Accounted, <2>1, <2>3, SendAccounted, Zenon
<1> QED
    BY <1>1, <1>4, <1>5

LEMMA NextAccounted == IInv /\ Accounted /\ [Next]_vars => Accounted'
<1> SUFFICES ASSUME IInv, Accounted, [Next]_vars PROVE Accounted'
    OBVIOUS
<1>1. DeliveryInv /\ TypeOK /\ TypeOK'
    BY NextTypeOK DEF IInv, DeliveryInv
<1>2. ASSUME UNCHANGED << sentMessageInfo, balances, relayerRewardAmounts >>
      PROVE  Accounted'
    BY <1>2 DEF Accounted
<1>3. CASE SendStep
    BY <1>1, <1>3, SendStepAccounted
<1>4. CASE RetrySendStep
    BY <1>2, <1>4 DEF RetrySendStep, RetrySendCrossChainMessage
<1>5. CASE AddFeeStep
    <2>1. PICK key \in MessageKeys, token \in FeeAssets,
               additional \in 0..MaxFee, received \in 0..MaxFee :
              AddFeeAmount(key, token, additional, received)
        BY <1>5 DEF AddFeeStep
    <2>2. received \in Nat
        BY BoundsAssumption
    <2>3. LedgerTypeOK /\ LedgerTypeOK'
        BY <1>1 DEF TypeOK
    <2> QED
        BY <2>1, <2>2, <2>3, AddFeeAccounted
<1>6. CASE ReceiveStep
    BY <1>1, <1>6, ReceiveAccounted DEF ReceiveStep
<1>7. CASE RetryExecutionStep
    BY <1>2, <1>7 DEF RetryExecutionStep, RetryMessageExecution, RetryExecution, senderVars
<1>8. CASE RedeemStep
    BY <1>1, <1>8, RedeemAccounted DEF RedeemStep
<1>9. ASSUME NEW c \in Chains, DeployDestination(c) PROVE Accounted'
    BY <1>2, <1>9 DEF DeployDestination, senderVars
<1>10. ASSUME NEW w \in warpMessages, LoseWarpMessage(w) PROVE Accounted'
    BY <1>2, <1>10 DEF LoseWarpMessage
<1>11. CASE UNCHANGED vars
    BY <1>2, <1>11 DEF vars
<1> QED
    BY <1>3, <1>4, <1>5, <1>6, <1>7, <1>8, <1>9, <1>10, <1>11 DEF Next

-----------------------------------------------------------------------------
(* The sums of the properties are those sums.                              *)

\* The amounts promised for some messages, and the equation of the recursion that
\* adds them up.
AmountOf(S) == MapThenSumSet(LAMBDA k : sentMessageInfo[k].feeInfo.amount, S)

AreAmountSums(S, h) ==
    h = [s \in SUBSET S |->
            IF s = {} THEN 0
            ELSE sentMessageInfo[CHOOSE x \in s : TRUE].feeInfo.amount
                     + h[s \ {CHOOSE x \in s : TRUE}]]

LEMMA AmountMatch ==
    ASSUME NEW S, IsFiniteSet(S), NEW f, \A k \in S : f[k] \in Nat,
           \A k \in S : f[k] = sentMessageInfo[k].feeInfo.amount
    PROVE  AmountOf(S) = SetSum(f, S)
<1> DEFINE H == CHOOSE h : AreAmountSums(S, h)
           G == CHOOSE sums : AreSetSums(f, S, sums)
<1>1. AmountOf(S) = H[S]
    BY DEF AmountOf, MapThenSumSet, MapThenFoldSet, AreAmountSums
<1>2. SetSum(f, S) = G[S]
    BY DEF SetSum
<1>3. \A h : AreSetSums(f, S, h) <=> AreAmountSums(S, h)
    <2> TAKE h
    <2> DEFINE left  == [s \in SUBSET S |-> SetSumStep(f, h, s)]
               right == [s \in SUBSET S |->
                            IF s = {} THEN 0
                            ELSE sentMessageInfo[CHOOSE x \in s : TRUE].feeInfo.amount
                                     + h[s \ {CHOOSE x \in s : TRUE}]]
    <2>1. \A s \in SUBSET S : left[s] = right[s]
        <3> SUFFICES ASSUME NEW s \in SUBSET S, s # {}
                     PROVE  f[Chosen(s)] = sentMessageInfo[Chosen(s)].feeInfo.amount
            BY DEF SetSumStep, Chosen
        <3>1. Chosen(s) \in S
            BY DEF Chosen
        <3> QED
            BY <3>1
    <2>2. left = right
        BY <2>1
    <2>3. AreSetSums(f, S, h) <=> h = left
        BY DEF AreSetSums
    <2>4. AreAmountSums(S, h) <=> h = right
        BY DEF AreAmountSums
    <2> QED
        BY <2>2, <2>3, <2>4
<1>4. AreSetSums(f, S, G)
    BY SetSumsExist
<1>5. AreSetSums(f, S, H)
    BY <1>3, <1>4
<1> HIDE DEF G, H
<1>6. S \in SUBSET S /\ S \subseteq S
    OBVIOUS
<1>7. H[S] = G[S]
    BY <1>4, <1>5, <1>6, SumsAgree
<1> QED
    BY <1>1, <1>2, <1>7

LEMMA LiveFeesMatch ==
    ASSUME LedgerTypeOK, NEW c \in Chains, NEW t \in Tokens
    PROVE  LiveFees(c, t) = TotalFees(sentMessageInfo, c, t)
<1> DEFINE f    == Fees(sentMessageInfo, c, t)
           live == {k \in MessageKeys : /\ k.src = c /\ Unsettled(k)
                                        /\ sentMessageInfo[k].feeInfo.feeTokenAddress = t}
<1>1. LiveFees(c, t) = AmountOf(live)
    BY DEF LiveFees, AmountOf
<1>2. \A k \in MessageKeys : f[k] \in Nat
    BY OwedTypes, FeesType
<1>3. live \in SUBSET MessageKeys /\ IsFiniteSet(live)
    BY KeysFinite, FS_Subset
<1>4. \A k \in live : f[k] = sentMessageInfo[k].feeInfo.amount
    BY DEF Fees, Fee, Unsettled
<1>5. \A k \in MessageKeys \ live : f[k] = 0
    BY DEF Fees, Fee, Unsettled
<1> HIDE DEF f, live
<1>6. \A k \in live : f[k] \in Nat
    BY <1>2, <1>3
<1>7. AmountOf(live) = SetSum(f, live)
    BY <1>3, <1>4, <1>6, AmountMatch
<1>8. SetSum(f, MessageKeys) = SetSum(f, live)
    BY <1>2, <1>3, <1>5, KeysFinite, SetSumSupport
<1> QED
    BY <1>1, <1>7, <1>8 DEF TotalFees, f

\* The same equation over the redeemable rewards.
AreRewardSums(c, t, h) ==
    h = [s \in SUBSET Relayers |->
            IF s = {} THEN 0
            ELSE relayerRewardAmounts[c][<<(CHOOSE x \in s : TRUE), t>>]
                     + h[s \ {CHOOSE x \in s : TRUE}]]

LEMMA RewardsMatch ==
    ASSUME LedgerTypeOK, NEW c \in Chains, NEW t \in Tokens
    PROVE  RedeemableRewards(c, t) = TotalRewards(relayerRewardAmounts[c], t)
<1> DEFINE f == RewardsIn(relayerRewardAmounts[c], t)
           H == CHOOSE h : AreRewardSums(c, t, h)
           G == CHOOSE sums : AreSetSums(f, Relayers, sums)
<1>1. RedeemableRewards(c, t) = H[Relayers]
    BY DEF RedeemableRewards, MapThenSumSet, MapThenFoldSet, AreRewardSums
<1>2. TotalRewards(relayerRewardAmounts[c], t) = G[Relayers]
    BY DEF SetSum, TotalRewards
<1>3. \A r \in Relayers : f[r] \in Nat
    BY OwedTypes, RewardsType
<1>4. \A r \in Relayers : f[r] = relayerRewardAmounts[c][<<r, t>>]
    BY DEF RewardsIn
<1> HIDE DEF f
<1>5. \A h : AreSetSums(f, Relayers, h) <=> AreRewardSums(c, t, h)
    <2> TAKE h
    <2> DEFINE left  == [s \in SUBSET Relayers |-> SetSumStep(f, h, s)]
               right == [s \in SUBSET Relayers |->
                            IF s = {} THEN 0
                            ELSE relayerRewardAmounts[c][<<(CHOOSE x \in s : TRUE), t>>]
                                     + h[s \ {CHOOSE x \in s : TRUE}]]
    <2>1. \A s \in SUBSET Relayers : left[s] = right[s]
        <3> SUFFICES ASSUME NEW s \in SUBSET Relayers, s # {}
                     PROVE  f[Chosen(s)] = relayerRewardAmounts[c][<<Chosen(s), t>>]
            BY DEF SetSumStep, Chosen
        <3>1. Chosen(s) \in Relayers
            BY DEF Chosen
        <3> QED
            BY <1>4, <3>1
    <2>2. left = right
        BY <2>1
    <2>3. AreSetSums(f, Relayers, h) <=> h = left
        BY DEF AreSetSums
    <2>4. AreRewardSums(c, t, h) <=> h = right
        BY DEF AreRewardSums
    <2> QED
        BY <2>2, <2>3, <2>4
<1>6. AreSetSums(f, Relayers, G)
    BY <1>3, KeysFinite, SetSumsExist
<1>7. AreSetSums(f, Relayers, H)
    BY <1>5, <1>6
<1> HIDE DEF G, H
<1>8. Relayers \in SUBSET Relayers /\ Relayers \subseteq Relayers
    OBVIOUS
<1>9. H[Relayers] = G[Relayers]
    BY <1>3, <1>6, <1>7, <1>8, KeysFinite, SumsAgree
<1> QED
    BY <1>1, <1>2, <1>9

\* In every state the contract holds exactly the fees of unacknowledged messages
\* and the rewards not yet redeemed, whatever the tokens keep of a transfer.
THEOREM FeesAlwaysAccounted == Spec => []FeesAccounted
<1>1. Init => Accounted
    BY InitAccounted
<1>2. IInv /\ Accounted /\ [Next]_vars => Accounted'
    BY NextAccounted
<1>3. IInv /\ Accounted => FeesAccounted
    <2> SUFFICES ASSUME IInv, Accounted, NEW c \in Chains, NEW t \in Tokens
                 PROVE  balances[c][t] = LiveFees(c, t) + RedeemableRewards(c, t)
        BY DEF FeesAccounted
    <2>1. LedgerTypeOK
        BY DEF IInv, DeliveryInv, TypeOK
    <2> QED
        BY <2>1, LiveFeesMatch, RewardsMatch DEF Accounted, Owed
<1> QED
    BY <1>1, <1>2, <1>3, DeliverySafety, PTL DEF Spec

-----------------------------------------------------------------------------
(* What relayers earn in a step.                                           *)

\* The fees of the messages deleted so far in a delivery that relayer r brought.
EarnedFees(sent, c, r, t) ==
    [k \in MessageKeys |->
        IF k.src = c /\ relayerRewardAddresses[k] = r /\ sent[k] = Zero
        THEN Fee(sentMessageInfo[k], t) ELSE 0]

TotalEarned(sent, c, r, t) == SetSum(EarnedFees(sent, c, r, t), MessageKeys)

\* The ledger of a delivery, up to some receipt, has paid r exactly those.
HasPaid(ledger, c, r, t) ==
    /\ \A k \in MessageKeys : ledger.sent[k] \in {Zero, sentMessageInfo[k]}
    /\ ledger.rewards[<<r, t>>] = relayerRewardAmounts[c][<<r, t>>] + TotalEarned(ledger.sent, c, r, t)

LEMMA EarnedType ==
    ASSUME LedgerTypeOK, NEW sent, NEW c, NEW r, NEW t
    PROVE  /\ \A k \in MessageKeys : EarnedFees(sent, c, r, t)[k] \in Nat
           /\ TotalEarned(sent, c, r, t) \in Nat
<1>1. \A k \in MessageKeys : EarnedFees(sent, c, r, t)[k] \in Nat
    <2> TAKE k \in MessageKeys
    <2>1. Fee(sentMessageInfo[k], t) \in Nat
        BY OwedTypes, FeeType DEF StoredMessages
    <2> QED
        BY <2>1 DEF EarnedFees
<1> QED
    BY <1>1, KeysFinite, SetSumProperties DEF TotalEarned

\* Before the first receipt nothing is earned.
LEMMA NothingEarned ==
    ASSUME LedgerTypeOK, NEW c, NEW r, NEW t
    PROVE  TotalEarned(sentMessageInfo, c, r, t) = 0
<1> DEFINE f == EarnedFees(sentMessageInfo, c, r, t)
<1>1. \A k \in MessageKeys : f[k] = 0
    BY DEF EarnedFees, Fee
<1> HIDE DEF f
<1>2. SetSum(f, MessageKeys) = SetSum(f, {}) /\ SetSum(f, {}) = 0
    BY <1>1, KeysFinite, SetSumSupport, SetSumProperties, FS_EmptySet
<1> QED
    BY <1>2 DEF TotalEarned, f

\* A true receipt pays the fee of its message to the relayer recorded for it.
LEMMA MarkReceiptEarns ==
    ASSUME LedgerTypeOK, NEW c \in Chains, NEW d \in Chains, NEW receipt \in Receipts,
           NEW ledger \in Ledgers, NEW r \in Relayers, NEW t \in Tokens,
           IsTruthful(d, c, receipt), HasPaid(ledger, c, r, t)
    PROVE  HasPaid(MarkReceipt(ledger, c, d, receipt), c, r, t)
<1> DEFINE after == MarkReceipt(ledger, c, d, receipt)
           key   == Key(c, d, receipt.receivedMessageID)
           info  == ledger.sent[key]
           payee == receipt.relayerRewardAddress
           f     == EarnedFees(ledger.sent, c, r, t)
           g     == EarnedFees(after.sent, c, r, t)
<1>1. /\ key \in MessageKeys /\ key.src = c /\ payee \in Relayers
      /\ ledger.sent \in StoredMessages /\ ledger.rewards \in [Relayers \X FeeAssets -> Nat]
      /\ <<r, t>> \in Relayers \X FeeAssets
    BY DEF Key, MessageKeys, Receipts, Ledgers, StoredMessages, FeeAssets
<1>2. after.sent = [k \in MessageKeys |-> IF k = key THEN Zero ELSE ledger.sent[k]]
    BY MarkReceiptEffect
<1>3. relayerRewardAddresses[key] = payee
    BY DEF IsTruthful
<1>4. CASE info = Zero
    <2>1. after = ledger
        BY <1>4 DEF MarkReceipt
    <2> QED
        BY <2>1
<1>5. CASE info # Zero
    <2>1. info = sentMessageInfo[key] /\ Fee(info, t) \in Nat
        <3>1. info = sentMessageInfo[key]
            BY <1>1, <1>5 DEF HasPaid
        <3>2. info \in SentMessageInfos \cup {Zero}
            BY <1>1 DEF StoredMessages
        <3> QED
            BY <3>1, <3>2, FeeType
    <2>2. after.rewards = [ledger.rewards EXCEPT
                              ![<<payee, info.feeInfo.feeTokenAddress>>] = @ + info.feeInfo.amount]
        BY <1>5 DEF MarkReceipt, Credited
    <2>3. info.feeInfo.feeTokenAddress \in FeeAssets /\ info.feeInfo.amount \in Nat
        <3>1. info \in SentMessageInfos
            BY <1>1, <1>5 DEF StoredMessages
        <3>2. info.feeInfo \in FeeInfos
            BY <3>1 DEF SentMessageInfos
        <3> QED
            BY <3>2 DEF FeeInfos
    <2>4. after.rewards[<<r, t>>] =
              ledger.rewards[<<r, t>>] + (IF r = payee THEN Fee(info, t) ELSE 0)
        <3>1. ledger.rewards[<<r, t>>] \in Nat
            BY <1>1
        <3>2. after.rewards[<<r, t>>] =
                  IF <<r, t>> = <<payee, info.feeInfo.feeTokenAddress>>
                  THEN ledger.rewards[<<r, t>>] + info.feeInfo.amount ELSE ledger.rewards[<<r, t>>]
            BY <1>1, <2>2
        <3> HIDE DEF info, payee, after
        <3> QED
            BY <1>5, <3>1, <3>2 DEF Fee
    <2>5. \A k \in MessageKeys : f[k] \in Nat /\ g[k] \in Nat
        BY EarnedType
    <2>6. /\ f[key] = 0
          /\ g[key] = IF r = payee THEN Fee(info, t) ELSE 0
          /\ \A k \in MessageKeys \ {key} : f[k] = g[k]
        <3>1. f[key] = 0
            BY <1>1, <1>5 DEF EarnedFees
        <3>2. g[key] = IF r = payee THEN Fee(info, t) ELSE 0
            BY <1>1, <1>2, <1>3, <2>1 DEF EarnedFees
        <3>3. \A k \in MessageKeys \ {key} : f[k] = g[k]
            BY <1>2 DEF EarnedFees
        <3> QED
            BY <3>1, <3>2, <3>3
    <2> HIDE DEF f, g
    <2>7. SetSum(g, MessageKeys) + f[key] = SetSum(f, MessageKeys) + g[key]
        <3>1. (\A k \in MessageKeys : f[k] \in Nat) /\ \A k \in MessageKeys : g[k] \in Nat
            BY <2>5
        <3> QED
            BY <1>1, <2>6, <3>1, KeysFinite, SetSumUpdate
    <2>8. /\ TotalEarned(ledger.sent, c, r, t) = SetSum(f, MessageKeys)
          /\ TotalEarned(after.sent, c, r, t) = SetSum(g, MessageKeys)
        BY DEF TotalEarned, f, g
    <2>9. /\ TotalEarned(ledger.sent, c, r, t) \in Nat /\ TotalEarned(after.sent, c, r, t) \in Nat
          /\ relayerRewardAmounts[c][<<r, t>>] \in Nat
        BY <1>1, EarnedType DEF LedgerTypeOK
    <2>10. ledger.rewards[<<r, t>>] =
               relayerRewardAmounts[c][<<r, t>>] + TotalEarned(ledger.sent, c, r, t)
        BY DEF HasPaid
    <2>11. after.rewards[<<r, t>>] =
               relayerRewardAmounts[c][<<r, t>>] + TotalEarned(after.sent, c, r, t)
        <3> HIDE DEF after, info, key
        <3> QED
            BY <2>1, <2>4, <2>6, <2>7, <2>8, <2>9, <2>10
    <2>12. \A k \in MessageKeys : after.sent[k] \in {Zero, sentMessageInfo[k]}
        BY <1>2 DEF HasPaid
    <2> QED
        BY <2>11, <2>12 DEF HasPaid
<1> QED
    BY <1>4, <1>5

\* So does the loop over true receipts.
LEMMA MarkReceiptsEarn ==
    ASSUME LedgerTypeOK, NEW c \in Chains, NEW d \in Chains, NEW receipts \in Seq(Receipts),
           NEW r \in Relayers, NEW t \in Tokens,
           \A i \in DOMAIN receipts : IsTruthful(d, c, receipts[i])
    PROVE  HasPaid(MarkReceipts(c, d, receipts), c, r, t)
<1> DEFINE S == {n \in Nat : n <= Len(receipts) => HasPaid(MarkFirst(c, d, receipts, n), c, r, t)}
<1>0. Len(receipts) \in Nat /\ DOMAIN receipts = 1..Len(receipts)
    BY LenProperties
<1>1. PICK after : /\ IsLoop(c, d, receipts, Len(receipts), after)
                   /\ \A n : MarkFirst(c, d, receipts, n) = after[n]
    BY MarkFirstIsLoop
<1>2. \A n \in 0..Len(receipts) :
          MarkFirst(c, d, receipts, n) =
              IF n = 0
              THEN [sent |-> sentMessageInfo, rewards |-> relayerRewardAmounts[c]]
              ELSE MarkReceipt(MarkFirst(c, d, receipts, n - 1), c, d, receipts[n])
    BY <1>1 DEF IsLoop, LoopStep
<1>3. 0 \in S
    <2> DEFINE start == MarkFirst(c, d, receipts, 0)
    <2>1. start.sent = sentMessageInfo /\ start.rewards = relayerRewardAmounts[c]
        BY <1>0, <1>2
    <2>2. relayerRewardAmounts[c][<<r, t>>] \in Nat
        BY DEF LedgerTypeOK, FeeAssets
    <2> HIDE DEF start
    <2>3. HasPaid(start, c, r, t)
        BY <2>1, <2>2, NothingEarned DEF HasPaid
    <2> QED
        BY <2>3 DEF start
<1>4. ASSUME NEW n \in Nat, n \in S PROVE n + 1 \in S
    <2> SUFFICES ASSUME n + 1 <= Len(receipts)
                 PROVE  HasPaid(MarkFirst(c, d, receipts, n + 1), c, r, t)
        OBVIOUS
    <2> DEFINE old == MarkFirst(c, d, receipts, n)
               receipt == receipts[n + 1]
    <2>1. HasPaid(old, c, r, t) /\ n <= Len(receipts)
        BY <1>0, <1>4
    <2>2. old \in Ledgers
        BY <2>1, MarkFirstEffect
    <2>3. MarkFirst(c, d, receipts, n + 1) = MarkReceipt(old, c, d, receipt)
        BY <1>0, <1>2
    <2>4. receipt \in Receipts /\ IsTruthful(d, c, receipt)
        BY <1>0, ElementOfSeq
    <2> HIDE DEF old, receipt, S
    <2>5. HasPaid(MarkReceipt(old, c, d, receipt), c, r, t)
        BY <2>1, <2>2, <2>4, MarkReceiptEarns
    <2> QED
        BY <2>3, <2>5
<1> HIDE DEF S
<1>5. \A n \in Nat : n \in S
    BY <1>3, <1>4, NatSetInduction
<1> QED
    BY <1>0, <1>5 DEF S, MarkReceipts

\* The messages whose fees in token t a step credits to relayer r on chain c.
SettledBy(c, r, t) ==
    {k \in MessageKeys :
        /\ k.src = c
        /\ Unsettled(k) /\ sentMessageInfo'[k] = Zero
        /\ relayerRewardAddresses[k] = r
        /\ sentMessageInfo[k].feeInfo.feeTokenAddress = t}

StepEarns(c, r, t) ==
    \/ /\ relayerRewardAmounts'[c][<<r, t>>] = 0
       /\ SettledBy(c, r, t) = {}
    \/ relayerRewardAmounts'[c][<<r, t>>] =
           relayerRewardAmounts[c][<<r, t>>] + AmountOf(SettledBy(c, r, t))

\* The fees earned by a step are those of the messages it settles.
LEMMA EarnedMatch ==
    ASSUME LedgerTypeOK, NEW c \in Chains, NEW r \in Relayers, NEW t \in Tokens
    PROVE  AmountOf(SettledBy(c, r, t)) = TotalEarned(sentMessageInfo', c, r, t)
<1> DEFINE f       == EarnedFees(sentMessageInfo', c, r, t)
           settled == SettledBy(c, r, t)
<1>1. \A k \in MessageKeys : f[k] \in Nat
    BY EarnedType
<1>2. settled \in SUBSET MessageKeys /\ IsFiniteSet(settled)
    BY KeysFinite, FS_Subset DEF SettledBy
<1>3. \A k \in settled : f[k] = sentMessageInfo[k].feeInfo.amount
    BY DEF SettledBy, EarnedFees, Fee, Unsettled
<1>4. \A k \in MessageKeys \ settled : f[k] = 0
    BY DEF SettledBy, EarnedFees, Fee, Unsettled
<1> HIDE DEF f, settled
<1>5. \A k \in settled : f[k] \in Nat
    BY <1>1, <1>2
<1>6. AmountOf(settled) = SetSum(f, settled)
    BY <1>2, <1>3, <1>5, AmountMatch
<1>7. SetSum(f, MessageKeys) = SetSum(f, settled)
    BY <1>1, <1>2, <1>4, KeysFinite, SetSumSupport
<1> QED
    BY <1>6, <1>7 DEF TotalEarned, f, settled

\* A step that settles nothing on a chain and leaves its rewards earns nothing.
LEMMA NothingSettled ==
    ASSUME LedgerTypeOK, NEW c \in Chains, NEW r \in Relayers, NEW t \in Tokens,
           \A k \in MessageKeys : k.src = c /\ Unsettled(k) => sentMessageInfo'[k] # Zero,
           \/ relayerRewardAmounts'[c][<<r, t>>] = relayerRewardAmounts[c][<<r, t>>]
           \/ relayerRewardAmounts'[c][<<r, t>>] = 0
    PROVE  StepEarns(c, r, t)
<1>1. SettledBy(c, r, t) = {}
    BY DEF SettledBy
<1>2. AmountOf({}) = 0
    <2> DEFINE f == [k \in {} |-> 0]
    <2>1. (\A k \in {} : f[k] \in Nat) /\ IsFiniteSet({})
        BY FS_EmptySet
    <2>2. \A k \in {} : f[k] = sentMessageInfo[k].feeInfo.amount
        OBVIOUS
    <2> HIDE DEF f
    <2> QED
        BY <2>1, <2>2, AmountMatch, SetSumProperties
<1>3. relayerRewardAmounts[c][<<r, t>>] \in Nat
    BY DEF LedgerTypeOK, FeeAssets
<1> QED
    BY <1>1, <1>2, <1>3 DEF StepEarns

\* A delivery pays on the receiving chain for what it settles there.
LEMMA ReceiveEarns ==
    ASSUME DeliveryInv, NEW c \in Chains,
           NEW w \in warpMessages \cup OtherWarpMessages,
           NEW deliverer \in Relayers, NEW relayer \in Relayers,
           ReceiveCrossChainMessage(c, w, deliverer, relayer),
           NEW a \in Chains, NEW r \in Relayers, NEW t \in Tokens
    PROVE  StepEarns(a, r, t)
<1> DEFINE source   == w.sourceChainID
           receipts == w.payload.receipts
           ledger   == MarkReceipts(c, source, receipts)
<1>1. TypeOK /\ LedgerTypeOK
    BY DEF DeliveryInv, TypeOK
<1>2. source \in Chains /\ receipts \in Seq(Receipts)
    BY <1>1, ReceivedMessageType
<1>3. /\ w.originSenderAddress = Teleporter
      /\ w.payload.destinationBlockchainID = c
      /\ sentMessageInfo' = ledger.sent
      /\ relayerRewardAmounts' = [relayerRewardAmounts EXCEPT ![c] = ledger.rewards]
    BY DEF ReceiveCrossChainMessage
<1>4. \A i \in DOMAIN receipts : IsTruthful(source, c, receipts[i])
    <2>1. w \in warpMessages
        BY <1>3, InputsAssumption
    <2> QED
        BY <1>3, <2>1 DEF DeliveryInv, ReceiptsTruthful
<1>5. \A k \in MessageKeys : k.src # c => ledger.sent[k] = sentMessageInfo[k]
    <2>1. ledger.sent = [k \in MessageKeys |->
              IF k.src = c /\ k.dst = source /\ Names(receipts, k)
              THEN Zero ELSE sentMessageInfo[k]]
        BY <1>1, <1>2, MarkReceiptsEffect
    <2> HIDE DEF ledger, source, receipts
    <2> QED
        BY <2>1
<1>6. HasPaid(ledger, c, r, t)
    BY <1>1, <1>2, <1>4, MarkReceiptsEarn
<1> HIDE DEF source, receipts, ledger
<1>7. relayerRewardAmounts'[a] = IF a = c THEN ledger.rewards ELSE relayerRewardAmounts[a]
    BY <1>1, <1>3 DEF LedgerTypeOK
<1>8. CASE a = c
    <2>1. ledger.rewards[<<r, t>>] =
              relayerRewardAmounts[c][<<r, t>>] + TotalEarned(ledger.sent, c, r, t)
        BY <1>6 DEF HasPaid
    <2>2. AmountOf(SettledBy(c, r, t)) = TotalEarned(ledger.sent, c, r, t)
        BY <1>1, <1>3, EarnedMatch
    <2> QED
        BY <1>7, <1>8, <2>1, <2>2 DEF StepEarns
<1>9. CASE a # c
    <2>1. \A k \in MessageKeys : k.src = a /\ Unsettled(k) => sentMessageInfo'[k] # Zero
        BY <1>3, <1>5, <1>9 DEF Unsettled
    <2> QED
        BY <1>1, <1>7, <1>9, <2>1, NothingSettled
<1> QED
    BY <1>8, <1>9

LEMMA NextEarns ==
    ASSUME IInv, [Next]_vars, NEW c \in Chains, NEW r \in Relayers, NEW t \in Tokens
    PROVE  StepEarns(c, r, t)
<1>1. DeliveryInv /\ TypeOK /\ TypeOK' /\ LedgerTypeOK
    BY NextTypeOK DEF IInv, DeliveryInv, TypeOK
<1>2. ASSUME relayerRewardAmounts' = relayerRewardAmounts,
             \A k \in MessageKeys : Unsettled(k) => sentMessageInfo'[k] # Zero
      PROVE  StepEarns(c, r, t)
    <2>1. \A k \in MessageKeys : k.src = c /\ Unsettled(k) => sentMessageInfo'[k] # Zero
        BY <1>2
    <2> QED
        BY <1>1, <1>2, <2>1, NothingSettled
<1>3. ASSUME UNCHANGED << sentMessageInfo, relayerRewardAmounts >>
      PROVE  StepEarns(c, r, t)
    BY <1>2, <1>3 DEF Unsettled
<1>4. CASE SendStep
    <2>1. PICK a, d \in Chains, receipts \in Seq(Receipts), key \in MessageKeys,
               m \in Messages : IsTruthfulSend(a, d, receipts, key, m)
        BY <1>4, SendStepChanges
    <2>2. \A k \in MessageKeys : Unsettled(k) => sentMessageInfo'[k] # Zero
        BY <2>1 DEF IsTruthfulSend, IsSent, Unsettled
    <2>3. relayerRewardAmounts' = relayerRewardAmounts
        BY <1>4 DEF SendStep, SendCrossChainMessage, SendSpecifiedReceipts
    <2> QED
        BY <1>2, <2>2, <2>3
<1>5. CASE RetrySendStep
    BY <1>3, <1>5 DEF RetrySendStep, RetrySendCrossChainMessage
<1>6. CASE AddFeeStep
    <2>1. PICK key \in MessageKeys, token \in FeeAssets,
               additional \in 0..MaxFee, received \in 0..MaxFee :
              AddFeeAmount(key, token, additional, received)
        BY <1>6 DEF AddFeeStep
    <2>2. received \in Nat
        BY BoundsAssumption
    <2>3. \A k \in MessageKeys : Unsettled(k) => sentMessageInfo'[k] # Zero
        BY <1>1, <2>1, <2>2, AddFeeChanges DEF Unsettled
    <2>4. relayerRewardAmounts' = relayerRewardAmounts
        BY <2>1 DEF AddFeeAmount
    <2> QED
        BY <1>2, <2>3, <2>4
<1>7. CASE ReceiveStep
    BY <1>1, <1>7, ReceiveEarns DEF ReceiveStep
<1>8. CASE RetryExecutionStep
    BY <1>3, <1>8 DEF RetryExecutionStep, RetryMessageExecution, RetryExecution, senderVars
<1>9. CASE RedeemStep
    <2>1. PICK a \in Chains, relayer \in Relayers, asset \in Tokens :
              RedeemRelayerRewards(a, relayer, asset)
        BY <1>9 DEF RedeemStep
    <2>2. /\ sentMessageInfo' = sentMessageInfo
          /\ relayerRewardAmounts' = [relayerRewardAmounts EXCEPT ![a][<<relayer, asset>>] = 0]
        BY <2>1 DEF RedeemRelayerRewards
    <2>3. \/ relayerRewardAmounts'[c][<<r, t>>] = relayerRewardAmounts[c][<<r, t>>]
          \/ relayerRewardAmounts'[c][<<r, t>>] = 0
        <3>1. relayerRewardAmounts[c] \in [Relayers \X FeeAssets -> Nat]
              /\ <<r, t>> \in Relayers \X FeeAssets
            BY <1>1 DEF LedgerTypeOK, FeeAssets
        <3>2. relayerRewardAmounts'[c] =
                  IF c = a THEN [relayerRewardAmounts[c] EXCEPT ![<<relayer, asset>>] = 0]
                  ELSE relayerRewardAmounts[c]
            BY <1>1, <2>2 DEF LedgerTypeOK
        <3> QED
            BY <3>1, <3>2
    <2>4. \A k \in MessageKeys : k.src = c /\ Unsettled(k) => sentMessageInfo'[k] # Zero
        BY <2>2 DEF Unsettled
    <2> QED
        BY <1>1, <2>3, <2>4, NothingSettled
<1>10. ASSUME NEW d \in Chains, DeployDestination(d) PROVE StepEarns(c, r, t)
    BY <1>3, <1>10 DEF DeployDestination, senderVars
<1>11. ASSUME NEW w \in warpMessages, LoseWarpMessage(w) PROVE StepEarns(c, r, t)
    BY <1>3, <1>11 DEF LoseWarpMessage
<1>12. CASE UNCHANGED vars
    BY <1>3, <1>12 DEF vars
<1> QED
    BY <1>4, <1>5, <1>6, <1>7, <1>8, <1>9, <1>10, <1>11, <1>12 DEF Next

\* What a step adds to a relayer's reward is the sum of the fees of the messages
\* it settles that this relayer delivered, for any receipts and any bounds.
THEOREM RewardsAlwaysEarned == Spec => RewardsAreEarned
<1>1. IInv /\ [Next]_vars =>
          [\A c \in Chains, r \in Relayers, t \in Tokens :
              LET settled == {k \in MessageKeys :
                      /\ k.src = c
                      /\ Unsettled(k) /\ sentMessageInfo'[k] = Zero
                      /\ relayerRewardAddresses[k] = r
                      /\ sentMessageInfo[k].feeInfo.feeTokenAddress = t}
              IN  \/ /\ relayerRewardAmounts'[c][<<r, t>>] = 0
                     /\ settled = {}
                  \/ relayerRewardAmounts'[c][<<r, t>>] = relayerRewardAmounts[c][<<r, t>>]
                       + MapThenSumSet(LAMBDA k : sentMessageInfo[k].feeInfo.amount, settled)
          ]_vars
    <2> SUFFICES ASSUME IInv, [Next]_vars, NEW c \in Chains, NEW r \in Relayers, NEW t \in Tokens
                 PROVE  StepEarns(c, r, t)
        BY DEF StepEarns, SettledBy, AmountOf
    <2> QED
        BY NextEarns
<1> QED
    BY <1>1, DeliverySafety, PTL DEF Spec, RewardsAreEarned
-----------------------------------------------------------------------------
(* Outcomes: what a delivery decided is never undone.                      *)

\* What has been decided of a delivered message stays decided.
OutcomeStays(k) ==
    /\ relayerRewardAddresses'[k] = relayerRewardAddresses[k]
    /\ ~Unsettled(k) => ~Unsettled(k)'
    /\ ~Retryable(k) => ~Retryable(k)'
    /\ Retryable(k)' => receivedFailedMessageHashes'[k] = receivedFailedMessageHashes[k]
    /\ Executions(k) <= Executions(k)'

\* Once a message is delivered, its relayer is never replaced; once its fee is
\* settled it is never stored again, so never paid for again; and once its
\* execution can no longer be retried it never can be, by any later sends,
\* deliveries and retries of this or other messages.
OutcomesPermanent == [][\A k \in MessageKeys : Delivered(k) => OutcomeStays(k)]_vars

LEMMA OutcomesKept ==
    ASSUME TypeOK, NEW k \in MessageKeys,
           UNCHANGED << receivedFailedMessageHashes, relayerRewardAddresses, executed >>,
           ~Unsettled(k) => ~Unsettled(k)'
    PROVE  OutcomeStays(k)
<1>1. Executions(k) \in Nat
    BY LenProperties DEF TypeOK, DeliveryTypeOK, Executions
<1>2. Executions(k)' = Executions(k) /\ (Retryable(k)' <=> Retryable(k))
    BY DEF Executions, Retryable
<1> QED
    BY <1>1, <1>2 DEF OutcomeStays

\* A delivery decides only the outcome of a message that was not delivered.
LEMMA DeliveryKeepsOutcomes ==
    ASSUME TypeOK, NEW key \in MessageKeys, NEW m \in Messages, NEW relayer \in Relayers,
           IsDelivery(key, m, relayer), NEW k \in MessageKeys, Delivered(k)
    PROVE  OutcomeStays(k)
<1>1. /\ k # key /\ relayerRewardAddresses'[k] = relayerRewardAddresses[k]
      /\ ~Unsettled(k) => ~Unsettled(k)'
    <2>1. ~Delivered(key)
        BY DEF IsDelivery
    <2> QED
        BY <2>1, DeliveryEffect
<1>2. /\ receivedFailedMessageHashes'[k] = receivedFailedMessageHashes[k]
      /\ executed'[k] = executed[k]
    <2>1. \/ HandleInitialMessageExecution(key, m)
          \/ UNCHANGED << executed, receivedFailedMessageHashes >>
        BY DEF IsDelivery
    <2> QED
        BY <1>1, <2>1 DEF HandleInitialMessageExecution, StoreFailedMessageExecution,
                          TypeOK, DeliveryTypeOK
<1>3. Executions(k) \in Nat
    BY LenProperties DEF TypeOK, DeliveryTypeOK, Executions
<1>4. Executions(k)' = Executions(k) /\ (Retryable(k)' <=> Retryable(k))
    BY <1>2 DEF Executions, Retryable
<1> QED
    BY <1>1, <1>2, <1>3, <1>4 DEF OutcomeStays

\* A retry ends the retries of its message.
LEMMA RetryKeepsOutcomes ==
    ASSUME TypeOK, NEW key \in MessageKeys, NEW m \in Messages, IsRetried(key, m),
           NEW k \in MessageKeys
    PROVE  OutcomeStays(k)
<1>1. /\ UNCHANGED << sentMessageInfo, relayerRewardAddresses >>
      /\ receivedFailedMessageHashes'[k] =
             IF k = key THEN Zero ELSE receivedFailedMessageHashes[k]
      /\ executed'[k] = IF k = key THEN Append(executed[k], m) ELSE executed[k]
      /\ executed[k] \in Seq(Messages)
    BY DEF IsRetried, TypeOK, DeliveryTypeOK
<1>2. /\ Len(executed[k]) \in Nat
      /\ Len(Append(executed[k], m)) = Len(executed[k]) + 1
    BY <1>1, LenProperties, AppendProperties
<1>3. Executions(k) <= Executions(k)'
    BY <1>1, <1>2 DEF Executions
<1>4. /\ ~Retryable(k) => ~Retryable(k)'
      /\ Retryable(k)' => receivedFailedMessageHashes'[k] = receivedFailedMessageHashes[k]
    BY <1>1 DEF Retryable
<1> QED
    BY <1>1, <1>3, <1>4 DEF OutcomeStays, Unsettled

LEMMA NextKeepsOutcomes ==
    ASSUME IInv, [Next]_vars, NEW k \in MessageKeys, Delivered(k)
    PROVE  OutcomeStays(k)
<1>1. TypeOK /\ TypeOK' /\ DeliveryInv
    BY NextTypeOK DEF IInv, DeliveryInv
<1>2. ASSUME UNCHANGED << sentMessageInfo, receiverVars >> PROVE OutcomeStays(k)
    BY <1>1, <1>2, OutcomesKept DEF receiverVars, Unsettled
<1>3. CASE SendStep
    <2>1. PICK c \in Chains, d \in Chains, receipts \in Seq(Receipts),
               key \in MessageKeys, m \in Messages : IsTruthfulSend(c, d, receipts, key, m)
        BY <1>3, SendStepChanges
    <2>2. k # key
        BY <1>1, <2>1, FreshKey DEF IsTruthfulSend
    <2>3. sentMessageInfo'[k] = sentMessageInfo[k] /\ UNCHANGED receiverVars
        BY <2>1, <2>2 DEF IsTruthfulSend, IsSent
    <2> QED
        BY <1>1, <2>3, OutcomesKept DEF receiverVars, Unsettled
<1>4. CASE ReceiveStep
    <2>1. PICK c \in Chains, w \in warpMessages \cup OtherWarpMessages,
               deliverer \in Relayers, relayer \in Relayers :
              ReceiveCrossChainMessage(c, w, deliverer, relayer)
        BY <1>4 DEF ReceiveStep
    <2>2. PICK key \in MessageKeys, m \in Messages : IsDelivery(key, m, relayer)
        BY <1>1, <2>1, ReceiveChanges
    <2> QED
        BY <1>1, <2>2, DeliveryKeepsOutcomes
<1>5. CASE RetryExecutionStep
    <2>1. PICK c \in Chains, origin \in Chains, m \in KnownMessages :
              RetryMessageExecution(c, origin, m)
        BY <1>5 DEF RetryExecutionStep
    <2>2. m \in Messages /\ \E key \in MessageKeys : IsRetried(key, m)
        BY <1>1, <2>1, RetryChanges
    <2> QED
        BY <1>1, <2>2, RetryKeepsOutcomes
<1>6. CASE AddFeeStep
    <2>1. PICK key \in MessageKeys, token \in FeeAssets,
               additional \in 0..MaxFee, received \in 0..MaxFee :
              AddFeeAmount(key, token, additional, received)
        BY <1>6 DEF AddFeeStep
    <2>2. received \in Nat
        BY BoundsAssumption
    <2>3. /\ UNCHANGED << receivedFailedMessageHashes, relayerRewardAddresses, executed >>
          /\ ~Unsettled(k) => ~Unsettled(k)'
        BY <1>1, <2>1, <2>2, AddFeeChanges
    <2> QED
        BY <1>1, <2>3, OutcomesKept
<1>7. CASE RetrySendStep
    BY <1>2, <1>7 DEF RetrySendStep, RetrySendCrossChainMessage
<1>8. CASE RedeemStep
    BY <1>2, <1>8 DEF RedeemStep, RedeemRelayerRewards
<1>9. ASSUME NEW c \in Chains, DeployDestination(c) PROVE OutcomeStays(k)
    BY <1>2, <1>9 DEF DeployDestination, senderVars
<1>10. ASSUME NEW w \in warpMessages, LoseWarpMessage(w) PROVE OutcomeStays(k)
    BY <1>2, <1>10 DEF LoseWarpMessage
<1>11. CASE UNCHANGED vars
    BY <1>2, <1>11 DEF vars, receiverVars
<1> QED
    BY <1>3, <1>4, <1>5, <1>6, <1>7, <1>8, <1>9, <1>10, <1>11 DEF Next

\* The outcome of a delivery is never undone, in any behaviour.
THEOREM OutcomesNeverUndone == Spec => OutcomesPermanent
<1>1. IInv /\ [Next]_vars => [\A k \in MessageKeys : Delivered(k) => OutcomeStays(k)]_vars
    BY NextKeepsOutcomes
<1> QED
    BY <1>1, DeliverySafety, PTL DEF Spec, OutcomesPermanent
=============================================================================
