--------------------------- MODULE VerifiedBlockHash ---------------------------
(***************************************************************************)
(* A BlockHashPublisher and a BlockHashReceiver on another chain           *)
(* (src/contracts/src/CrossChainApplications/VerifiedBlockHash): anybody   *)
(* may have the hash of the last block published, in any block, and the    *)
(* receiver keeps the latest it was told.  Teleporter executes a message   *)
(* at most once, in any order; a call that reverts leaves it to be retried.*)
(***************************************************************************)
EXTENDS Naturals, Sequences

CONSTANTS
    Hashes,                   \* hashes of blocks
    NoHash,                   \* bytes32(0)
    MaxHeight,                \* bound: height of the last block
    OtherMessages             \* what other senders send to the receiver

Publisher == "BlockHashPublisher"
Heights == 0..MaxHeight
Payloads == [sender : {Publisher, "other"}, blockHeight : Nat, blockHash : Hashes \cup {NoHash}]

ASSUME BlockHashAssumption ==
    /\ MaxHeight \in Nat
    /\ NoHash \notin Hashes
    /\ OtherMessages \subseteq Payloads
    /\ \A m \in OtherMessages : m.sender # Publisher

VARIABLES
    blocks,                   \* hashes of the source chain, from height 0
    messages,                 \* messages to the receiver not yet executed
    published,                \* heights whose message was sent
    latestBlockHeight,        \* of the receiver
    latestBlockHash

receiverVars == << latestBlockHeight, latestBlockHash >>
vars == << blocks, messages, published, latestBlockHeight, latestBlockHash >>

Init ==
    /\ \E genesis \in Hashes : blocks = << genesis >>
    /\ messages = OtherMessages
    /\ published = {}
    /\ latestBlockHeight = 0
    /\ latestBlockHash = NoHash

\* The source chain accepts a block, for ever.
AcceptBlock(hash) ==
    /\ Len(blocks) <= MaxHeight
    /\ blocks' = Append(blocks, hash)
    /\ UNCHANGED << messages, published, receiverVars >>

\* The block being executed is the one after the last; blockhash is 0 for it.
BlockNumber == Len(blocks)
BlockHashAt(height) == IF height < BlockNumber THEN blocks[height + 1] ELSE NoHash

PublishedHeight == BlockNumber - 1

\* (Mutant: the hash comes from another block than the height.)
HashOfParent(height) == BlockHashAt(IF height = 0 THEN 0 ELSE height - 1)
PublishedHash(height) == BlockHashAt(height)

PublishLatestBlockHash ==
    LET height == PublishedHeight
    IN  /\ messages' = messages \cup {[sender      |-> Publisher,
                                       blockHeight |-> height,
                                       blockHash   |-> PublishedHash(height)]}
        /\ published' = published \cup {height}
        /\ UNCHANGED << blocks, receiverVars >>

\* (Mutants: the last message wins; only the next block is accepted.)
AnyOrder(height) == TRUE
OnlyNext(height) == height = latestBlockHeight + 1
IsNewer(height) == height > latestBlockHeight
FromPublisher(m) == m.sender = Publisher

\* A message that is not newer is executed all the same.
ReceiveTeleporterMessage(m) ==
    /\ FromPublisher(m)
    /\ messages' = messages \ {m}
    /\ IF IsNewer(m.blockHeight)
       THEN /\ latestBlockHeight' = m.blockHeight
            /\ latestBlockHash' = m.blockHash
       ELSE UNCHANGED receiverVars
    /\ UNCHANGED << blocks, published >>

Next ==
    \/ \E hash \in Hashes : AcceptBlock(hash)
    \/ PublishLatestBlockHash
    \/ \E m \in messages : ReceiveTeleporterMessage(m)

Spec == Init /\ [][Next]_vars

\* Relayers deliver every message in the end.
FairSpec ==
    /\ Spec
    /\ \A height \in Heights :
           WF_vars(\E m \in messages : m.blockHeight = height /\ ReceiveTeleporterMessage(m))

-----------------------------------------------------------------------------
(* Properties                                                              *)

\* What the receiver shows as verified is the hash that the source chain gave to
\* that very height, whatever else was sent to it and in whatever order.
HashOfHeight ==
    latestBlockHash # NoHash =>
        /\ latestBlockHeight < Len(blocks)
        /\ latestBlockHash = blocks[latestBlockHeight + 1]

\* Nothing that was published is missed: the receiver gets at least as far and stays
\* there, also when heights were skipped or arrive in the wrong order.
CatchesUp ==
    \A height \in Heights : height \in published ~> [](latestBlockHeight >= height)
=============================================================================
