------------------------------ MODULE ReceiptFIFO ------------------------------
(***************************************************************************)
(* What the queue of receipts of one source chain promises: receipts are   *)
(* taken in the order they came, each once, at most MaxReceiptCount at a   *)
(* time, and as many as there are below that.                              *)
(***************************************************************************)
EXTENDS ReceiptBatch

CONSTANT Receipts

VARIABLES
    queue,     \* receipts waiting, oldest first
    taken      \* the receipts the last message carried away

vars == << queue, taken >>

Init == queue = << >> /\ taken = << >>

Put(r) == queue' = Append(queue, r) /\ UNCHANGED taken

Take ==
    /\ taken' = OutstandingReceipts(queue)
    /\ queue' = QueueAfterSending(queue)

Next == Take \/ \E r \in Receipts : Put(r)

Spec == Init /\ [][Next]_vars
=============================================================================
