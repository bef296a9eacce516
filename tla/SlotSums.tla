------------------------------- MODULE SlotSums -------------------------------
(* The sum of the amounts kept in the slots 1..n of a function. *)
EXTENDS Naturals

\* The sums of the first 0, 1, ..., n amounts.
PartialSums(amounts, n) ==
    LET sums[i \in 0..n] == IF i = 0 THEN 0 ELSE sums[i - 1] + amounts[i]
    IN  sums

SlotSum(amounts, n) == PartialSums(amounts, n)[n]
=============================================================================
