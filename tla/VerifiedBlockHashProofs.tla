------------------------ MODULE VerifiedBlockHashProofs ------------------------
(***************************************************************************)
(* What the receiver shows is the hash of that height, for any chain and   *)
(* any messages, delivered in any order.                                   *)
(***************************************************************************)
EXTENDS VerifiedBlockHash, TLAPS, SequenceTheorems

TypesOfReceiver ==
    /\ blocks \in Seq(Hashes) /\ Len(blocks) > 0
    /\ messages \subseteq Payloads
    /\ latestBlockHeight \in Nat

\* The hash that the source chain gave to a height.
IsHashOf(hash, height) == height < Len(blocks) /\ hash = blocks[height + 1]

\* What the publisher sent is true, and stays true while the chain grows.
PublishedTrue ==
    \A m \in messages : FromPublisher(m) => IsHashOf(m.blockHash, m.blockHeight)

IInv == TypesOfReceiver /\ PublishedTrue /\ HashOfHeight

LEMMA InitIInv == Init => IInv
<1> SUFFICES ASSUME Init PROVE IInv
    OBVIOUS
<1>1. PICK genesis \in Hashes : blocks = << genesis >>
    BY DEF Init
<1>2. TypesOfReceiver
    BY <1>1, BlockHashAssumption DEF Init, TypesOfReceiver
<1>3. PublishedTrue
    BY BlockHashAssumption DEF Init, PublishedTrue, FromPublisher
<1> QED
    BY <1>2, <1>3 DEF Init, IInv, HashOfHeight

\* A block accepted leaves the hashes before it where they are.
LEMMA HashesStay ==
    ASSUME blocks \in Seq(Hashes), NEW hash \in Hashes, blocks' = Append(blocks, hash)
    PROVE  /\ blocks' \in Seq(Hashes) /\ Len(blocks') = Len(blocks) + 1
           /\ \A h : \A height \in Nat : IsHashOf(h, height) => IsHashOf(h, height)'
<1>1. /\ blocks' \in Seq(Hashes) /\ Len(blocks') = Len(blocks) + 1 /\ Len(blocks) \in Nat
      /\ \A i \in 1..Len(blocks) : blocks'[i] = blocks[i]
    BY AppendProperties, LenProperties
<1>2. ASSUME NEW h, NEW height \in Nat, IsHashOf(h, height) PROVE IsHashOf(h, height)'
    <2>1. height + 1 \in 1..Len(blocks)
        BY <1>1, <1>2 DEF IsHashOf
    <2> QED
        BY <1>1, <1>2, <2>1 DEF IsHashOf
<1> QED
    BY <1>1, <1>2

LEMMA AcceptKeepsIInv ==
    ASSUME IInv, NEW hash \in Hashes, AcceptBlock(hash) PROVE IInv'
<1>1. /\ blocks \in Seq(Hashes) /\ blocks' = Append(blocks, hash)
      /\ UNCHANGED << messages, latestBlockHeight, latestBlockHash >>
    BY DEF IInv, TypesOfReceiver, AcceptBlock, receiverVars
<1>2. /\ blocks' \in Seq(Hashes) /\ Len(blocks') = Len(blocks) + 1 /\ Len(blocks) \in Nat
      /\ \A h : \A height \in Nat : IsHashOf(h, height) => IsHashOf(h, height)'
    BY <1>1, HashesStay, LenProperties
<1>3. TypesOfReceiver'
    BY <1>1, <1>2 DEF IInv, TypesOfReceiver
<1>4. PublishedTrue'
    <2> SUFFICES ASSUME NEW m \in messages, FromPublisher(m)
                 PROVE  IsHashOf(m.blockHash, m.blockHeight)'
        BY <1>1 DEF PublishedTrue, FromPublisher
    <2>1. m.blockHeight \in Nat
        BY DEF IInv, TypesOfReceiver, Payloads
    <2>2. IsHashOf(m.blockHash, m.blockHeight)
        BY DEF IInv, PublishedTrue
    <2> QED
        BY <1>2, <2>1, <2>2
<1>5. HashOfHeight'
    <2> SUFFICES ASSUME latestBlockHash # NoHash
                 PROVE  IsHashOf(latestBlockHash, latestBlockHeight)'
        BY <1>1 DEF HashOfHeight, IsHashOf
    <2>1. IsHashOf(latestBlockHash, latestBlockHeight) /\ latestBlockHeight \in Nat
        BY DEF IInv, TypesOfReceiver, HashOfHeight, IsHashOf
    <2>2. IsHashOf(latestBlockHash, latestBlockHeight)' <=>
              latestBlockHeight < Len(blocks') /\ latestBlockHash = blocks'[latestBlockHeight + 1]
        BY <1>1 DEF IsHashOf
    <2> QED
        BY <1>2, <2>1, <2>2 DEF IsHashOf
<1> QED
    BY <1>3, <1>4, <1>5 DEF IInv

\* The hash of the last block is known while the next one is executed.
LEMMA PublishKeepsIInv ==
    ASSUME IInv, PublishLatestBlockHash PROVE IInv'
<1> DEFINE height == PublishedHeight
           m == [sender |-> Publisher, blockHeight |-> height, blockHash |-> PublishedHash(height)]
<1>1. /\ messages' = messages \cup {m}
      /\ UNCHANGED << blocks, latestBlockHeight, latestBlockHash >>
    BY DEF PublishLatestBlockHash, receiverVars
<1>2. /\ Len(blocks) \in Nat /\ Len(blocks) > 0
      /\ \A i \in 1..Len(blocks) : blocks[i] \in Hashes
    BY LenProperties, ElementOfSeq DEF IInv, TypesOfReceiver
<1>3. height \in Nat /\ height < Len(blocks) /\ height + 1 \in 1..Len(blocks)
    BY <1>2 DEF PublishedHeight, BlockNumber
<1>4. PublishedHash(height) = blocks[height + 1]
    BY <1>3 DEF PublishedHash, BlockHashAt, BlockNumber
<1>5. m \in Payloads /\ IsHashOf(m.blockHash, m.blockHeight)
    BY <1>2, <1>3, <1>4 DEF Payloads, IsHashOf
<1> HIDE DEF m
<1>6. TypesOfReceiver'
    BY <1>1, <1>5 DEF IInv, TypesOfReceiver
<1>7. PublishedTrue'
    BY <1>1, <1>5 DEF IInv, PublishedTrue, FromPublisher, IsHashOf
<1>8. HashOfHeight'
    BY <1>1 DEF IInv, HashOfHeight
<1> QED
    BY <1>6, <1>7, <1>8 DEF IInv

LEMMA ReceiveKeepsIInv ==
    ASSUME IInv, NEW m \in messages, ReceiveTeleporterMessage(m) PROVE IInv'
<1>1. /\ FromPublisher(m) /\ messages' = messages \ {m} /\ UNCHANGED blocks
      /\ IF IsNewer(m.blockHeight)
         THEN latestBlockHeight' = m.blockHeight /\ latestBlockHash' = m.blockHash
         ELSE UNCHANGED << latestBlockHeight, latestBlockHash >>
    BY DEF ReceiveTeleporterMessage, receiverVars
<1>2. m.blockHeight \in Nat /\ IsHashOf(m.blockHash, m.blockHeight)
    BY <1>1 DEF IInv, TypesOfReceiver, Payloads, PublishedTrue
<1>3. TypesOfReceiver'
    BY <1>1, <1>2 DEF IInv, TypesOfReceiver
<1>4. PublishedTrue'
    BY <1>1 DEF IInv, PublishedTrue, FromPublisher, IsHashOf
<1>5. HashOfHeight'
    BY <1>1, <1>2 DEF IInv, HashOfHeight, IsHashOf
<1> QED
    BY <1>3, <1>4, <1>5 DEF IInv

LEMMA NextIInv == IInv /\ [Next]_vars => IInv'
<1> SUFFICES ASSUME IInv, [Next]_vars PROVE IInv'
    OBVIOUS
<1>1. ASSUME NEW hash \in Hashes, AcceptBlock(hash) PROVE IInv'
    BY <1>1, AcceptKeepsIInv
<1>2. CASE PublishLatestBlockHash
    BY <1>2, PublishKeepsIInv
<1>3. ASSUME NEW m \in messages, ReceiveTeleporterMessage(m) PROVE IInv'
    BY <1>3, ReceiveKeepsIInv
<1>4. CASE UNCHANGED vars
    BY <1>4 DEF vars, IInv, TypesOfReceiver, PublishedTrue, HashOfHeight, IsHashOf, FromPublisher
<1> QED
    BY <1>1, <1>2, <1>3, <1>4 DEF Next

\* What the publisher sent, and what the receiver shows, is the hash that the
\* source chain gave to that height, in every state.
THEOREM BlockHashSafety == Spec => []IInv
BY InitIInv, NextIInv, PTL DEF Spec

\* The receiver never shows a hash of another height, or one that was made up.
THEOREM HashAlwaysOfHeight == Spec => []HashOfHeight
<1>1. IInv => HashOfHeight
    BY DEF IInv
<1> QED
    BY <1>1, BlockHashSafety, PTL
=============================================================================
