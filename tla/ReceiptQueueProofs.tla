-------------------------- MODULE ReceiptQueueProofs --------------------------
(***************************************************************************)
(* The counters and the mapping of the receipt queue implement a queue     *)
(* read in batches, for any receipts, any batch size and any number of     *)
(* receipts.                                                               *)
(***************************************************************************)
EXTENDS ReceiptQueue, CommonLemmas

IInv == TypeOK /\ CellsMatchCounters

\* The counters as numbers.
LEMMA Counters ==
    ASSUME IInv
    PROVE  /\ first \in Nat /\ last \in Nat /\ first <= last /\ last <= MaxEnqueued
           /\ MaxEnqueued \in Nat /\ MaxReceiptCount \in Nat
           /\ Size \in Nat /\ ResultSize \in 0..Size
           /\ \A i \in Indices : first <= i /\ i < last => data[i] \in Receipts
<1>1. /\ first \in Nat /\ last \in Nat /\ first <= last /\ last <= MaxEnqueued
      /\ MaxEnqueued \in Nat /\ MaxReceiptCount \in Nat
    BY QueueBoundsAssumption DEF IInv, TypeOK, CellsMatchCounters, Indices
<1>2. \A i \in Indices : first <= i /\ i < last => data[i] \in Receipts
    BY DEF IInv, TypeOK, CellsMatchCounters
<1>3. Size \in Nat /\ ResultSize \in 0..Size
    BY <1>1 DEF Size, ResultSize
<1> QED
    BY <1>1, <1>2, <1>3

-----------------------------------------------------------------------------
(* The loop of getOutstandingReceiptsToSend.                               *)

\* The equation of the loop over n receipts.
LoopStep(after, i) ==
    IF i = 0
    THEN [first |-> first, data |-> data, taken |-> << >>]
    ELSE Dequeue(after[i - 1])
IsLoop(n, after) == after = [i \in 0..n |-> LoopStep(after, i)]

\* What is read and what is left after i receipts.
Cleared(i) == [k \in Indices |-> IF first <= k /\ k < first + i THEN NoReceipt ELSE data[k]]
Taken(i) == [j \in 1..i |-> data[first + j - 1]]
After(i) == [first |-> first + i, data |-> Cleared(i), taken |-> Taken(i)]

\* The receipts read are a sequence.
LEMMA TakenType ==
    ASSUME IInv, NEW i \in 0..Size
    PROVE  Taken(i) \in Seq(Receipts) /\ Len(Taken(i)) = i
<1>1. \A j \in 1..i : data[first + j - 1] \in Receipts
    <2> TAKE j \in 1..i
    <2>1. first + j - 1 \in Indices /\ first <= first + j - 1 /\ first + j - 1 < last
        BY Counters DEF Size, Indices
    <2> QED
        BY <2>1, Counters
<1>2. i \in Nat
    BY Counters
<1>3. Taken(i) \in [1..i -> Receipts]
    BY <1>1 DEF Taken
<1> QED
    BY <1>2, <1>3, SeqDef

\* Nothing has been read before the first receipt.
LEMMA AfterNone ==
    ASSUME IInv
    PROVE  After(0) = [first |-> first, data |-> data, taken |-> << >>]
<1>1. Cleared(0) = data
    <2>1. \A k \in Indices : Cleared(0)[k] = data[k]
        BY Counters DEF Cleared, Indices
    <2>2. data = [k \in Indices |-> data[k]]
        BY DEF IInv, TypeOK
    <2> QED
        BY <2>1, <2>2 DEF Cleared
<1>2. Taken(0) = << >>
    BY TakenType, EmptySeq, Counters
<1> QED
    BY <1>1, <1>2, Counters DEF After

\* One more dequeue reads one more receipt and deletes its cell.
LEMMA AfterOneMore ==
    ASSUME IInv, NEW i \in 1..Size
    PROVE  Dequeue(After(i - 1)) = After(i)
<1>0. /\ first \in Nat /\ Size \in Nat /\ i \in Nat /\ i - 1 \in 0..Size /\ i \in 0..Size
      /\ first + (i - 1) \in Indices
      /\ first <= first + (i - 1) /\ first + (i - 1) < last
      /\ first + (i - 1) = first + i - 1
    BY Counters DEF Size, Indices
<1> DEFINE head == first + (i - 1)
<1>1. [Cleared(i - 1) EXCEPT ![head] = NoReceipt] = Cleared(i)
    <2>1. \A k \in Indices : [Cleared(i - 1) EXCEPT ![head] = NoReceipt][k] = Cleared(i)[k]
        BY <1>0 DEF Cleared, Indices
    <2> QED
        BY <2>1 DEF Cleared
<1>2. Cleared(i - 1)[head] = data[head] /\ data[head] \in Receipts
    BY <1>0, Counters DEF Cleared
<1>3. Append(Taken(i - 1), data[head]) = Taken(i)
    <2>1. Taken(i - 1) \in Seq(Receipts) /\ Len(Taken(i - 1)) = i - 1
        BY <1>0, TakenType
    <2>2. Taken(i) \in Seq(Receipts) /\ Len(Taken(i)) = i
        BY <1>0, TakenType
    <2> DEFINE longer == Append(Taken(i - 1), data[head])
    <2>3. /\ longer \in Seq(Receipts) /\ Len(longer) = i
          /\ \A j \in 1..(i - 1) : longer[j] = Taken(i - 1)[j]
          /\ longer[i] = data[head]
        <3>1. /\ longer \in Seq(Receipts) /\ Len(longer) = Len(Taken(i - 1)) + 1
              /\ \A j \in 1..Len(Taken(i - 1)) : longer[j] = Taken(i - 1)[j]
              /\ longer[Len(Taken(i - 1)) + 1] = data[head]
            BY <1>2, <2>1, AppendProperties
        <3>2. (i - 1) + 1 = i
            BY <1>0
        <3> HIDE DEF longer, head
        <3> QED
            BY <2>1, <3>1, <3>2
    <2> HIDE DEF longer
    <2>4. \A j \in 1..i : longer[j] = Taken(i)[j]
        <3> TAKE j \in 1..i
        <3>1. CASE j = i
            BY <3>1, <1>0, <2>3 DEF Taken
        <3>2. CASE j # i
            <4>1. j \in 1..(i - 1)
                BY <3>2, <1>0
            <4> QED
                BY <4>1, <2>3 DEF Taken
        <3> QED
            BY <3>1, <3>2
    <2>5. longer = Taken(i)
        BY <2>2, <2>3, <2>4, SeqEqual
    <2> QED
        BY <2>5 DEF longer
<1>4. /\ After(i - 1).first = head /\ After(i - 1).data = Cleared(i - 1)
      /\ After(i - 1).taken = Taken(i - 1)
    BY DEF After
<1>5. head + 1 = first + i
    BY <1>0
<1> HIDE DEF head
<1>6. Dequeue(After(i - 1)) = [first |-> head + 1,
                               data  |-> [Cleared(i - 1) EXCEPT ![head] = NoReceipt],
                               taken |-> Append(Taken(i - 1), Cleared(i - 1)[head])]
    BY <1>4, Zenon DEF Dequeue
<1> QED
    BY <1>1, <1>2, <1>3, <1>5, <1>6, Zenon DEF After

\* The loop over n receipts reads and deletes the n oldest ones.
LEMMA LoopEffect ==
    ASSUME IInv, NEW n \in 0..Size
    PROVE  LET f == CHOOSE after : IsLoop(n, after) IN f[n] = After(n)
<1> DEFINE f == CHOOSE after : IsLoop(n, after)
           g == [i \in 0..n |-> After(i)]
<1>0. n \in Nat /\ Size \in Nat /\ n <= Size
    BY Counters
<1>1. \A i \in 0..n : i # 0 => i \in 1..Size /\ i - 1 \in 0..n
    BY <1>0
<1>2. IsLoop(n, g)
    <2>1. \A i \in 0..n : After(i) = LoopStep(g, i)
        <3> TAKE i \in 0..n
        <3>1. CASE i = 0
            BY <3>1, AfterNone DEF LoopStep
        <3>2. CASE i # 0
            <4>1. g[i - 1] = After(i - 1)
                BY <3>2, <1>1
            <4> HIDE DEF g
            <4>2. Dequeue(After(i - 1)) = After(i)
                BY <3>2, <1>1, AfterOneMore
            <4> QED
                BY <3>2, <4>1, <4>2, Zenon DEF LoopStep
        <3> QED
            BY <3>1, <3>2
    <2> QED
        BY <2>1 DEF IsLoop
<1>3. IsLoop(n, f)
    BY <1>2
<1> HIDE DEF f, g
<1>4. \A i \in 0..n : f[i] = LoopStep(f, i)
    <2>1. f = [i \in 0..n |-> LoopStep(f, i)]
        BY <1>3 DEF IsLoop
    <2> QED
        BY <2>1, Zenon
<1> DEFINE S == {i \in Nat : i <= n => f[i] = After(i)}
<1>5. 0 \in S
    BY <1>0, <1>4, AfterNone DEF LoopStep
<1>6. ASSUME NEW i \in Nat, i \in S PROVE i + 1 \in S
    <2> SUFFICES ASSUME i + 1 <= n PROVE f[i + 1] = After(i + 1)
        OBVIOUS
    <2>1. /\ i + 1 \in 0..n /\ i + 1 \in 1..Size /\ (i + 1) - 1 = i /\ i + 1 # 0
          /\ f[i] = After(i)
        BY <1>0, <1>6
    <2>2. f[i + 1] = Dequeue(After(i))
        BY <1>4, <2>1 DEF LoopStep
    <2>3. Dequeue(After((i + 1) - 1)) = After(i + 1)
        BY <2>1, AfterOneMore
    <2> QED
        BY <2>1, <2>2, <2>3
<1> HIDE DEF S
<1>7. \A i \in Nat : i \in S
    BY <1>5, <1>6, NatSetInduction
<1>8. f[n] = After(n)
    BY <1>0, <1>7 DEF S
<1> QED
    BY <1>8 DEF f

\* What a batch read does, without the loop.
LEMMA BatchEffect ==
    ASSUME IInv, GetOutstandingReceiptsToSend
    PROVE  /\ first' = first + ResultSize
           /\ data' = Cleared(ResultSize)
           /\ result' = Taken(ResultSize)
           /\ last' = last
<1> DEFINE q == (CHOOSE after : IsLoop(ResultSize, after))[ResultSize]
<1>1. first' = q.first /\ data' = q.data /\ result' = q.taken /\ last' = last
    BY DEF GetOutstandingReceiptsToSend, IsLoop, LoopStep
<1>2. q = After(ResultSize)
    BY LoopEffect, Counters
<1> HIDE DEF q
<1> QED
    BY <1>1, <1>2 DEF After

-----------------------------------------------------------------------------
(* The invariant.                                                          *)

LEMMA InitIInv == Init => IInv
<1> SUFFICES ASSUME Init PROVE IInv
    OBVIOUS
<1>1. 0 \in Indices
    BY QueueBoundsAssumption DEF Indices
<1>2. result \in Seq(Receipts)
    BY EmptySeq DEF Init
<1> QED
    BY <1>1, <1>2 DEF Init, IInv, TypeOK, CellsMatchCounters, Indices

LEMMA EnqueueKeepsIInv ==
    ASSUME IInv, NEW receipt \in Receipts, Enqueue(receipt)
    PROVE  IInv'
<1>1. /\ first' = first /\ last' = last + 1 /\ result' = result /\ last < MaxEnqueued
      /\ data' = [data EXCEPT ![last] = receipt]
    BY DEF Enqueue
<1>2. TypeOK'
    BY <1>1, Counters DEF IInv, TypeOK, Indices
<1>3. CellsMatchCounters'
    <2>1. \A i \in Indices : data'[i] # NoReceipt <=> first' <= i /\ i < last'
        <3> TAKE i \in Indices
        <3>1. CASE i = last
            BY <3>1, <1>1, Counters, NoReceiptAssumption DEF IInv, TypeOK
        <3>2. CASE i # last
            <4>1. data'[i] = data[i] /\ i \in Nat
                BY <3>2, <1>1 DEF IInv, TypeOK, Indices
            <4> QED
                BY <4>1, <3>2, <1>1, Counters DEF IInv, CellsMatchCounters
        <3> QED
            BY <3>1, <3>2
    <2> QED
        BY <1>1, <2>1, Counters DEF CellsMatchCounters
<1> QED
    BY <1>2, <1>3 DEF IInv

LEMMA BatchKeepsIInv ==
    ASSUME IInv, GetOutstandingReceiptsToSend
    PROVE  IInv'
<1>1. /\ first' = first + ResultSize /\ data' = Cleared(ResultSize)
      /\ result' = Taken(ResultSize) /\ last' = last
    BY BatchEffect
<1>2. /\ first \in Nat /\ last \in Nat /\ last <= MaxEnqueued /\ MaxEnqueued \in Nat
      /\ ResultSize \in Nat /\ first + ResultSize <= last
    BY Counters DEF Size
<1>3. result' \in Seq(Receipts)
    BY <1>1, TakenType, Counters
<1>4. data' \in [Indices -> Receipts \cup {NoReceipt}]
    BY <1>1 DEF Cleared, IInv, TypeOK
<1>5. TypeOK'
    BY <1>1, <1>2, <1>3, <1>4 DEF TypeOK, Indices
<1>6. ASSUME NEW i \in Indices
      PROVE  data'[i] # NoReceipt <=> first' <= i /\ i < last'
    <2>1. data[i] # NoReceipt <=> first <= i /\ i < last
        BY DEF IInv, CellsMatchCounters
    <2>2. data'[i] = IF first <= i /\ i < first + ResultSize THEN NoReceipt ELSE data[i]
        BY <1>1 DEF Cleared
    <2> QED
        BY <1>1, <1>2, <2>1, <2>2 DEF Indices
<1> QED
    BY <1>1, <1>2, <1>5, <1>6 DEF IInv, CellsMatchCounters

LEMMA NextIInv == IInv /\ [Next]_vars => IInv'
<1> SUFFICES ASSUME IInv, [Next]_vars PROVE IInv'
    OBVIOUS
<1>1. ASSUME NEW receipt \in Receipts, Enqueue(receipt) PROVE IInv'
    BY <1>1, EnqueueKeepsIInv
<1>2. CASE GetOutstandingReceiptsToSend
    BY <1>2, BatchKeepsIInv
<1>3. CASE UNCHANGED vars
    BY <1>3 DEF vars, IInv, TypeOK, CellsMatchCounters
<1> QED
    BY <1>1, <1>2, <1>3 DEF Next

\* The counters stay within their bounds, the cells hold receipts or the zero
\* value, and a batch consists of receipts only.
THEOREM QueueTypeCorrect == Spec => []TypeOK
<1>1. IInv => TypeOK
    BY DEF IInv
<1> QED
    BY <1>1, InitIInv, NextIInv, PTL DEF Spec

\* The head never overtakes the tail, and exactly the cells between them hold a
\* receipt (enqueue, dequeue, getOutstandingReceiptsToSend).
THEOREM CellsAlwaysMatch == Spec => []CellsMatchCounters
<1>1. IInv => CellsMatchCounters
    BY DEF IInv
<1> QED
    BY <1>1, InitIInv, NextIInv, PTL DEF Spec

-----------------------------------------------------------------------------
(* The refinement.                                                         *)

ContentsOK ==
    /\ Contents \in Seq(Receipts) /\ Len(Contents) = Size
    /\ \A i \in 1..Size : Contents[i] = data[first + i - 1]

\* The contents are a sequence as long as the queue.
LEMMA ContentsType == IInv => ContentsOK
<1> SUFFICES ASSUME IInv PROVE ContentsOK
    OBVIOUS
<1>1. \A i \in 1..Size : /\ data[first + (i - 1)] \in Receipts
                         /\ first + (i - 1) = first + i - 1
    <2> TAKE i \in 1..Size
    <2>1. /\ first + (i - 1) \in Indices /\ first <= first + (i - 1) /\ first + (i - 1) < last
          /\ first + (i - 1) = first + i - 1
        BY Counters DEF Size, Indices
    <2> QED
        BY <2>1, Counters
<1>2. /\ Contents \in [1..Size -> Receipts]
      /\ \A i \in 1..Size : Contents[i] = data[first + i - 1]
    BY <1>1 DEF Contents, ReceiptAtIndex
<1> QED
    BY <1>2, Counters, SeqDef DEF ContentsOK

\* Putting a receipt in the queue appends it to the contents.
LEMMA EnqueueImplemented ==
    ASSUME IInv, NEW receipt \in Receipts, Enqueue(receipt)
    PROVE  FIFO!Put(receipt)
<1>1. /\ first' = first /\ last' = last + 1 /\ result' = result /\ last < MaxEnqueued
      /\ data' = [data EXCEPT ![last] = receipt]
    BY DEF Enqueue
<1> DEFINE before == Contents
           after == Contents'
           longer == Append(Contents, receipt)
<1>2. IInv'
    BY EnqueueKeepsIInv
<1>3. /\ before \in Seq(Receipts) /\ Len(before) = Size
      /\ \A i \in 1..Size : before[i] = data[first + i - 1]
    BY ContentsType DEF ContentsOK
<1>4. /\ after \in Seq(Receipts) /\ Len(after) = Size'
      /\ \A i \in 1..Size' : after[i] = data'[first' + i - 1]
    <2>1. ContentsOK'
        BY <1>2, ContentsType, PTL
    <2> QED
        BY <2>1 DEF ContentsOK
<1>5. /\ longer \in Seq(Receipts) /\ Len(longer) = Size + 1
      /\ \A i \in 1..Size : longer[i] = before[i]
      /\ longer[Size + 1] = receipt
    BY <1>3, AppendProperties
<1> HIDE DEF before, after, longer
<1>6. Size' = Size + 1 /\ first + Size = last /\ Size \in Nat /\ last \in Indices
    BY <1>1, Counters DEF Size, Indices
<1>7. \A i \in 1..(Size + 1) : longer[i] = after[i]
    <2> TAKE i \in 1..(Size + 1)
    <2>1. after[i] = data'[first + i - 1]
        BY <1>1, <1>4, <1>6
    <2>2. CASE i = Size + 1
        <3>1. first + i - 1 = last
            BY <2>2, <1>6, Counters
        <3>2. data'[last] = receipt
            BY <1>1, <1>6 DEF IInv, TypeOK
        <3> QED
            BY <2>1, <2>2, <3>1, <3>2, <1>5
    <2>3. CASE i # Size + 1
        <3>1. i \in 1..Size /\ first + i - 1 # last
            BY <2>3, <1>6, Counters
        <3>2. data'[first + i - 1] = data[first + i - 1]
            BY <1>1, <3>1 DEF IInv, TypeOK
        <3> QED
            BY <2>1, <3>1, <3>2, <1>3, <1>5
    <2> QED
        BY <2>2, <2>3
<1>8. longer = after
    BY <1>4, <1>5, <1>6, <1>7, SeqEqual
<1> QED
    BY <1>1, <1>8 DEF FIFO!Put, longer, after

\* Reading a batch takes the oldest receipts off the contents.
LEMMA BatchImplemented ==
    ASSUME IInv, GetOutstandingReceiptsToSend
    PROVE  FIFO!Take
<1>1. /\ first' = first + ResultSize /\ data' = Cleared(ResultSize)
      /\ result' = Taken(ResultSize) /\ last' = last
    BY BatchEffect
<1> DEFINE before == Contents
           after == Contents'
           size == Size
           n == ResultSize
           out == SubSeq(before, 1, n)
           rest == SubSeq(before, n + 1, size)
<1>2. /\ before \in Seq(Receipts) /\ Len(before) = size
      /\ \A i \in 1..size : before[i] = data[first + i - 1]
    BY ContentsType DEF ContentsOK
<1>3. /\ after \in Seq(Receipts) /\ Len(after) = Size'
      /\ \A i \in 1..Size' : after[i] = data'[first' + i - 1]
    <2>1. IInv'
        BY BatchKeepsIInv
    <2>2. ContentsOK'
        BY <2>1, ContentsType, PTL
    <2> QED
        BY <2>2 DEF ContentsOK
<1>4. FIFO!NumberToSend(before) = n
    BY <1>2 DEF FIFO!NumberToSend, ResultSize
<1>5. /\ n \in 0..size /\ size \in Nat /\ n \in Nat /\ first \in Nat /\ last \in Nat
      /\ Size' = size - n /\ size = last - first
    BY <1>1, Counters DEF Size
<1>6. Taken(n) \in Seq(Receipts) /\ Len(Taken(n)) = n
    BY <1>5, TakenType
<1> HIDE DEF before, after, size, n
<1>7. \A i \in 1..size : before[i] \in Receipts
    BY <1>2, ElementOfSeq
<1>8. out = Taken(n)
    <2>1. /\ out \in Seq(Receipts) /\ Len(out) = n
          /\ \A i \in 1..n : out[i] = before[i]
        BY <1>2, <1>5, SubSeqProperties
    <2> HIDE DEF out
    <2>2. \A i \in 1..n : out[i] = Taken(n)[i]
        <3> TAKE i \in 1..n
        <3>1. Taken(n)[i] = data[first + i - 1]
            BY DEF Taken
        <3>2. i \in 1..size
            BY <1>5
        <3> QED
            BY <3>1, <3>2, <2>1, <1>2
    <2> QED
        BY <2>1, <2>2, <1>6, SeqEqual
<1>9. rest = after
    <2>1. /\ rest \in Seq(Receipts)
          /\ Len(rest) = IF n + 1 <= size THEN size - (n + 1) + 1 ELSE 0
          /\ \A i \in 1..(size - (n + 1) + 1) : rest[i] = before[(n + 1) + i - 1]
        <3>1. n + 1 \in Int /\ size \in Int
            BY <1>5
        <3>2. \A i \in (n + 1)..size : before[i] \in Receipts
            BY <1>5, <1>7
        <3> QED
            BY <1>2, <3>1, <3>2, SubSeqProperties
    <2> HIDE DEF rest
    <2>2. Len(rest) = size - n
        <3>1. CASE n + 1 <= size
            BY <3>1, <2>1, <1>5
        <3>2. CASE ~(n + 1 <= size)
            BY <3>2, <2>1, <1>5
        <3> QED
            BY <3>1, <3>2
    <2>3. \A i \in 1..(size - n) : rest[i] = after[i]
        <3> TAKE i \in 1..(size - n)
        <3>1. /\ i \in 1..(size - (n + 1) + 1) /\ (n + 1) + i - 1 = n + i
              /\ n + i \in 1..size /\ first + (n + i) - 1 = (first + n) + i - 1
              /\ (first + n) + i - 1 \in Nat
              /\ first + n <= (first + n) + i - 1
              /\ (first + n) + i - 1 < last
            BY <1>5
        <3>2. rest[i] = data[(first + n) + i - 1]
            BY <3>1, <2>1, <1>2
        <3>3. after[i] = Cleared(n)[(first + n) + i - 1]
            BY <1>1, <1>3, <1>5 DEF n
        <3>4. (first + n) + i - 1 \in Indices
            BY <3>1, Counters DEF Indices
        <3>5. Cleared(n)[(first + n) + i - 1] = data[(first + n) + i - 1]
            BY <1>5, <3>1, <3>4 DEF Cleared
        <3> QED
            BY <3>2, <3>3, <3>5
    <2> QED
        BY <1>3, <1>5, <2>1, <2>2, <2>3, SeqEqual
<1>10. FIFO!OutstandingReceipts(before) = Taken(n) /\ FIFO!QueueAfterSending(before) = after
    BY <1>2, <1>4, <1>8, <1>9 DEF FIFO!OutstandingReceipts, FIFO!QueueAfterSending
<1> HIDE DEF out, rest
<1> QED
    BY <1>1, <1>10 DEF FIFO!Take, before, after, n

\* The counters and the mapping implement a first-in first-out queue read in
\* batches, whatever is put in and whenever it is read.
THEOREM QueueImplementsFIFO == Spec => ImplementsFIFO
<1>1. Init => FIFO!Init
    <2> SUFFICES ASSUME Init PROVE FIFO!Init
        OBVIOUS
    <2>1. IInv /\ Size = 0
        BY InitIInv DEF Init, Size
    <2>2. Contents = << >>
        BY <2>1, ContentsType, EmptySeq DEF ContentsOK
    <2> QED
        BY <2>2 DEF Init, FIFO!Init
<1>2. IInv /\ [Next]_vars => [FIFO!Next]_(FIFO!vars)
    <2> SUFFICES ASSUME IInv, [Next]_vars PROVE [FIFO!Next]_(FIFO!vars)
        OBVIOUS
    <2>1. ASSUME NEW receipt \in Receipts, Enqueue(receipt) PROVE FIFO!Next
        BY <2>1, EnqueueImplemented DEF FIFO!Next
    <2>2. CASE GetOutstandingReceiptsToSend
        BY <2>2, BatchImplemented DEF FIFO!Next
    <2>3. CASE UNCHANGED vars
        BY <2>3 DEF vars, FIFO!vars, Contents, ReceiptAtIndex, Size
    <2> QED
        BY <2>1, <2>2, <2>3 DEF Next
<1> QED
    BY <1>1, <1>2, InitIInv, NextIInv, PTL DEF Spec, ImplementsFIFO, FIFO!Spec
=============================================================================
