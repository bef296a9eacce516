----------------------------- MODULE ReceiptBatch -----------------------------
(***************************************************************************)
(* Which receipts of a queue a message carries away                        *)
(* (ReceiptQueue.getOutstandingReceiptsToSend), on the queue's contents.   *)
(***************************************************************************)
EXTENDS Naturals, Sequences

CONSTANT MaxReceiptCount   \* _MAXIMUM_RECEIPT_COUNT, 5 in the code

ASSUME MaxReceiptCountAssumption == MaxReceiptCount \in Nat \ {0}

NumberToSend(q) == IF Len(q) < MaxReceiptCount THEN Len(q) ELSE MaxReceiptCount

\* The oldest receipts, oldest first.
OutstandingReceipts(q) == SubSeq(q, 1, NumberToSend(q))

\* (Mutant: one receipt more than was sent leaves the queue.)
RestWithoutNext(q) == SubSeq(q, NumberToSend(q) + 2, Len(q))

QueueAfterSending(q) == SubSeq(q, NumberToSend(q) + 1, Len(q))
=============================================================================
