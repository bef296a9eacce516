------------------------------ MODULE ReceiptQueue ------------------------------
(***************************************************************************)
(* One TeleporterMessageReceiptQueue (src/contracts/src/Teleporter/        *)
(* ReceiptQueue.sol): two counters that only grow, and a mapping from      *)
(* indices to receipts whose cells are deleted when they are read.         *)
(***************************************************************************)
EXTENDS Naturals, Sequences

CONSTANTS
    Receipts,
    NoReceipt,         \* the zero value of a receipt
    MaxReceiptCount,   \* _MAXIMUM_RECEIPT_COUNT, 5 in the code
    MaxEnqueued        \* bound: receipts ever put in the queue

ASSUME QueueBoundsAssumption ==
    /\ MaxReceiptCount \in Nat \ {0}
    /\ MaxEnqueued \in Nat

ASSUME NoReceiptAssumption == NoReceipt \notin Receipts

Indices == 0..MaxEnqueued

VARIABLES
    first,     \* index of the oldest receipt
    last,      \* index after the newest receipt
    data,      \* the receipts
    result     \* what getOutstandingReceiptsToSend last returned

vars == << first, last, data, result >>

Init ==
    /\ first = 0
    /\ last = 0
    /\ data = [i \in Indices |-> NoReceipt]
    /\ result = << >>

Size == last - first

Enqueue(receipt) ==
    /\ last < MaxEnqueued
    /\ data' = [data EXCEPT ![last] = receipt]
    /\ last' = last + 1
    /\ UNCHANGED << first, result >>

\* (Mutant: the head moves before it is read.)
DequeueNext(q) ==
    [first |-> q.first + 1,
     data  |-> [q.data EXCEPT ![q.first + 1] = NoReceipt],
     taken |-> Append(q.taken, q.data[q.first + 1])]

\* One dequeue: the head is read, its cell deleted, the head moved.
Dequeue(q) ==
    [first |-> q.first + 1,
     data  |-> [q.data EXCEPT ![q.first] = NoReceipt],
     taken |-> Append(q.taken, q.data[q.first])]

\* (Mutant: the size is not bounded by the maximum.)
WholeSize == Size
ResultSize == IF Size < MaxReceiptCount THEN Size ELSE MaxReceiptCount

\* Dequeuing from an empty queue reverts the batch.
GetOutstandingReceiptsToSend ==
    LET after[i \in 0..ResultSize] ==
            IF i = 0
            THEN [first |-> first, data |-> data, taken |-> << >>]
            ELSE Dequeue(after[i - 1])
        q == after[ResultSize]
    IN  /\ \A i \in 0..(ResultSize - 1) : after[i].first # last
        /\ first' = q.first
        /\ data' = q.data
        /\ result' = q.taken
        /\ UNCHANGED last

Next ==
    \/ \E receipt \in Receipts : Enqueue(receipt)
    \/ GetOutstandingReceiptsToSend

Spec == Init /\ [][Next]_vars

-----------------------------------------------------------------------------

\* getReceiptAtIndex, defined for index < Size.
ReceiptAtIndex(index) == data[first + index]

\* The contents in the order getReceiptAtIndex shows them.
Contents == [i \in 1..Size |-> ReceiptAtIndex(i - 1)]

\* The type invariant.
TypeOK ==
    /\ first \in Indices /\ last \in Indices
    /\ data \in [Indices -> Receipts \cup {NoReceipt}]
    /\ result \in Seq(Receipts)

\* The head never overtakes the tail (the size is an unsigned difference), and
\* exactly the cells between them hold a receipt: nothing that waits has been
\* deleted, nothing that was sent is left behind.
CellsMatchCounters ==
    /\ first <= last
    /\ \A i \in Indices : data[i] # NoReceipt <=> first <= i /\ i < last

FIFO == INSTANCE ReceiptFIFO WITH queue <- Contents, taken <- result

\* The counters and the mapping implement a first-in first-out queue read in
\* batches, as its users see it through getReceiptAtIndex.
ImplementsFIFO == FIFO!Spec
=============================================================================
