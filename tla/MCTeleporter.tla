---------------------------- MODULE MCTeleporter ----------------------------
(* Small instances of TeleporterMessenger for TLC. *)
EXTENDS TeleporterMessenger, TLC

CONSTANTS A, B, r1, r2, t1

Fee(t, n) == [feeTokenAddress |-> t, amount |-> n]
NoFee == Fee(Zero, 0)

Input(s, d, maxID, fee, allowed, nonEmpty) ==
    [src |-> s, dst |-> d, maxID |-> maxID, fee |-> fee,
     allowed |-> allowed, nonEmpty |-> nonEmpty]

\* Two messages one way, one back, no fees; only r1 may deliver some.
DeliveryInputs ==
    { Input(A, B, 2, NoFee, {r1}, TRUE), Input(A, B, 2, NoFee, {}, FALSE),
      Input(B, A, 1, NoFee, {}, FALSE) }

\* A message with a fee and one that may have none, two empty ones back.
FeeInputs ==
    { Input(A, B, 1, Fee(t1, 2), {}, FALSE), Input(A, B, 2, NoFee, {}, FALSE),
      Input(B, A, 2, NoFee, {}, FALSE) }

\* One message with a payload and a fee, one empty message back.
RoundTripInputs ==
    { Input(A, B, 1, Fee(t1, 1), {}, TRUE), Input(B, A, 1, NoFee, {}, FALSE) }

\* One message that only r1 may deliver; of the messages back, the first may be
\* one that only r2 may deliver.
LivenessInputs ==
    { Input(A, B, 1, NoFee, {r1}, TRUE), Input(B, A, 1, NoFee, {r2}, FALSE),
      Input(B, A, 2, NoFee, {}, FALSE) }

\* A chain that sends to itself.
SelfInputs ==
    { Input(A, A, 3, Fee(t1, 1), {}, TRUE), Input(A, A, 3, NoFee, {}, FALSE) }

\* A warp message of another contract that imitates a delivery receipt.
Imitation ==
    [sourceChainID |-> B, originSenderAddress |-> Others,
     payload |-> [messageID |-> 1, destinationBlockchainID |-> A,
                  allowedRelayerAddresses |-> {},
                  receipts |-> << [receivedMessageID |-> 1,
                                   relayerRewardAddress |-> r2] >>,
                  nonEmpty |-> TRUE]]
Imitations == {Imitation}

RelayerSymmetry == Permutations(Relayers)
=============================================================================
