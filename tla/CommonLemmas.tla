----------------------------- MODULE CommonLemmas -----------------------------
(***************************************************************************)
(* Facts about numbers, sums and sequences that the proofs of several      *)
(* modules rest on.  Induction is stated for sets, so that it can be cited *)
(* for any property by naming the set of the numbers that have it.         *)
(***************************************************************************)
EXTENDS Integers, Sequences, FiniteSets, SlotSums, TLAPS, WellFoundedInduction, SequenceTheorems,
        FiniteSetTheorems

\* Induction: a set with 0 and the successor of each of its numbers has them all.
LEMMA NatSetInduction ==
    ASSUME NEW S, 0 \in S, \A n \in Nat : n \in S => n + 1 \in S
    PROVE  \A n \in Nat : n \in S
<1> DEFINE Rest  == {n \in Nat : n \notin S}
           Below == {ss \in Nat \X Nat : ss[1] < ss[2]}
<1>1. IsWellFoundedOn(Below, Nat)
    BY NatLessThanWellFounded, Zenon DEF OpToRel
<1>2. SUFFICES ASSUME Rest # {} PROVE FALSE
    OBVIOUS
<1>3. \E m \in Rest : \A n \in Rest : ~ (<<n, m>> \in Below)
    <2> HIDE DEF Below
    <2>1. Rest \subseteq Nat
        OBVIOUS
    <2> HIDE DEF Rest
    <2> QED
        BY <1>1, <1>2, <2>1, WFMin, Zenon
<1>4. PICK m \in Nat : m \notin S /\ \A n \in Nat : n \notin S => ~ (n < m)
    BY <1>3
<1>5. m # 0 /\ m - 1 \in Nat /\ m - 1 < m
    BY <1>4
<1>6. m - 1 \in S
    BY <1>4, <1>5
<1>7. QED
    BY <1>4, <1>5, <1>6
-----------------------------------------------------------------------------
(* Sums of amounts in slots.                                               *)

\* The equation of the partial sums.
SumStep(f, sums, i) == IF i = 0 THEN 0 ELSE sums[i - 1] + f[i]
AreSums(f, n, sums) == sums = [i \in 0..n |-> SumStep(f, sums, i)]

\* The first m of n partial sums exist.
LEMMA PartialSumsExist ==
    ASSUME NEW n \in Nat, NEW f \in [1..n -> Nat]
    PROVE  \A m \in Nat : m <= n => \E sums \in [0..m -> Nat] : AreSums(f, m, sums)
<1> DEFINE S == {m \in Nat : m <= n => \E sums \in [0..m -> Nat] : AreSums(f, m, sums)}
<1>1. 0 \in S
    <2> DEFINE g == [i \in 0..0 |-> 0]
    <2>1. g \in [0..0 -> Nat] /\ AreSums(f, 0, g)
        BY DEF AreSums, SumStep
    <2> HIDE DEF g
    <2> QED
        BY <2>1
<1>2. ASSUME NEW m \in Nat, m \in S PROVE m + 1 \in S
    <2> SUFFICES ASSUME m + 1 <= n
                 PROVE  \E sums \in [0..(m + 1) -> Nat] : AreSums(f, m + 1, sums)
        OBVIOUS
    <2>1. PICK g \in [0..m -> Nat] : AreSums(f, m, g)
        BY <1>2
    <2> DEFINE h == [i \in 0..(m + 1) |-> IF i = m + 1 THEN g[m] + f[m + 1] ELSE g[i]]
    <2>2. f[m + 1] \in Nat /\ g[m] \in Nat
        OBVIOUS
    <2>3. h \in [0..(m + 1) -> Nat]
        BY <2>2
    <2>4. \A i \in 0..m : h[i] = g[i] /\ g[i] = SumStep(f, g, i)
        <3>1. \A i \in 0..m : h[i] = g[i]
            OBVIOUS
        <3>2. g = [i \in 0..m |-> SumStep(f, g, i)]
            BY <2>1 DEF AreSums
        <3> HIDE DEF h
        <3> QED
            BY <3>1, <3>2, Zenon
    <2>5. \A i \in 0..(m + 1) : h[i] = SumStep(f, h, i)
        <3> TAKE i \in 0..(m + 1)
        <3>1. CASE i = m + 1
            BY <3>1, <2>4 DEF SumStep
        <3>2. CASE i # m + 1
            <4>1. i \in 0..m /\ (i # 0 => i - 1 \in 0..m)
                BY <3>2
            <4> QED
                BY <4>1, <2>4 DEF SumStep
        <3> QED
            BY <3>1, <3>2
    <2>6. AreSums(f, m + 1, h)
        BY <2>5 DEF AreSums
    <2> HIDE DEF h
    <2> QED
        BY <2>3, <2>6
<1> HIDE DEF S
<1>3. \A m \in Nat : m \in S
    BY <1>1, <1>2, NatSetInduction
<1> QED
    BY <1>3 DEF S

\* Partial sums obey their equation and are natural numbers.
LEMMA PartialSumsEquation ==
    ASSUME NEW n \in Nat, NEW f \in [1..n -> Nat]
    PROVE  /\ PartialSums(f, n)[0] = 0
           /\ \A i \in 1..n : PartialSums(f, n)[i] = PartialSums(f, n)[i - 1] + f[i]
           /\ \A i \in 0..n : PartialSums(f, n)[i] \in Nat
<1> DEFINE P == PartialSums(f, n)
<1>1. \E sums : AreSums(f, n, sums)
    BY PartialSumsExist
<1>2. P = CHOOSE sums : AreSums(f, n, sums)
    BY DEF PartialSums, AreSums, SumStep
<1>3. AreSums(f, n, P)
    BY <1>1, <1>2
<1> HIDE DEF P
<1>4. P[0] = 0 /\ \A i \in 1..n : P[i] = P[i - 1] + f[i]
    BY <1>3 DEF AreSums, SumStep
<1> DEFINE S == {i \in Nat : i <= n => P[i] \in Nat}
<1>5. 0 \in S
    BY <1>4
<1>6. ASSUME NEW i \in Nat, i \in S PROVE i + 1 \in S
    <2> SUFFICES ASSUME i + 1 <= n PROVE P[i + 1] \in Nat
        OBVIOUS
    <2>1. P[i] \in Nat /\ f[i + 1] \in Nat
        BY <1>6
    <2>2. P[i + 1] = P[(i + 1) - 1] + f[i + 1] /\ (i + 1) - 1 = i
        BY <1>4
    <2> QED
        BY <2>1, <2>2
<1> HIDE DEF S
<1>7. \A i \in Nat : i \in S
    BY <1>5, <1>6, NatSetInduction
<1>8. \A i \in 0..n : P[i] \in Nat
    BY <1>7 DEF S
<1> QED
    BY <1>4, <1>8 DEF P

\* A sum is a natural number.
LEMMA SlotSumType ==
    ASSUME NEW n \in Nat, NEW f \in [1..n -> Nat]
    PROVE  SlotSum(f, n) \in Nat
BY PartialSumsEquation DEF SlotSum

\* Empty slots add up to nothing.
LEMMA SlotSumZero ==
    ASSUME NEW n \in Nat
    PROVE  SlotSum([i \in 1..n |-> 0], n) = 0
<1> DEFINE f == [i \in 1..n |-> 0]
           P == PartialSums(f, n)
           S == {i \in Nat : i <= n => P[i] = 0}
<1>1. f \in [1..n -> Nat] /\ \A i \in 1..n : f[i] = 0
    OBVIOUS
<1> HIDE DEF f
<1>2. P[0] = 0 /\ \A i \in 1..n : P[i] = P[i - 1] + f[i]
    BY <1>1, PartialSumsEquation
<1> HIDE DEF P
<1>3. 0 \in S
    BY <1>2
<1>4. ASSUME NEW i \in Nat, i \in S PROVE i + 1 \in S
    <2> SUFFICES ASSUME i + 1 <= n PROVE P[i + 1] = 0
        OBVIOUS
    <2>1. P[i + 1] = P[(i + 1) - 1] + f[i + 1] /\ (i + 1) - 1 = i /\ f[i + 1] = 0
        BY <1>1, <1>2
    <2> QED
        BY <1>4, <2>1
<1> HIDE DEF S
<1>5. \A i \in Nat : i \in S
    BY <1>3, <1>4, NatSetInduction
<1> QED
    BY <1>5 DEF S, P, SlotSum, f

\* A new amount in a slot takes the place of the old one in the sum.
LEMMA SlotSumUpdate ==
    ASSUME NEW n \in Nat, NEW f \in [1..n -> Nat], NEW g \in [1..n -> Nat], NEW k \in 1..n,
           \A i \in 1..n : i # k => g[i] = f[i]
    PROVE  SlotSum(g, n) = SlotSum(f, n) - f[k] + g[k]
<1> DEFINE v == g[k]
           P == PartialSums(f, n)
           Q == PartialSums(g, n)
           S == {i \in Nat : i <= n => Q[i] = IF i < k THEN P[i] ELSE P[i] - f[k] + v}
<1>1. v \in Nat /\ \A i \in 1..n : g[i] = IF i = k THEN v ELSE f[i]
    OBVIOUS
<1> HIDE DEF v
<1>2. /\ P[0] = 0 /\ \A i \in 1..n : P[i] = P[i - 1] + f[i]
      /\ \A i \in 0..n : P[i] \in Nat
    BY PartialSumsEquation
<1>3. Q[0] = 0 /\ \A i \in 1..n : Q[i] = Q[i - 1] + g[i]
    BY <1>1, PartialSumsEquation
<1> HIDE DEF P, Q
<1>4. 0 \in S
    BY <1>2, <1>3
<1>5. ASSUME NEW i \in Nat, i \in S PROVE i + 1 \in S
    <2> SUFFICES ASSUME i + 1 <= n
                 PROVE  Q[i + 1] = IF i + 1 < k THEN P[i + 1] ELSE P[i + 1] - f[k] + v
        OBVIOUS
    <2>1. Q[i] = IF i < k THEN P[i] ELSE P[i] - f[k] + v
        BY <1>5
    <2>2. Q[i + 1] = Q[i] + g[i + 1] /\ P[i + 1] = P[i] + f[i + 1]
        <3>1. i + 1 \in 1..n /\ (i + 1) - 1 = i
            OBVIOUS
        <3> QED
            BY <1>2, <1>3, <3>1
    <2>3. g[i + 1] = IF i + 1 = k THEN v ELSE f[i + 1]
        BY <1>1
    <2>4. P[i] \in Nat /\ f[i + 1] \in Nat /\ f[k] \in Nat /\ v \in Nat
        BY <1>1, <1>2
    <2>5. CASE i + 1 < k
        BY <2>1, <2>2, <2>3, <2>4, <2>5
    <2>6. CASE i + 1 = k
        <3>1. i < k
            BY <2>6
        <3>2. Q[i] = P[i] /\ g[i + 1] = v
            BY ONLY <2>1, <2>3, <2>6, <3>1
        <3>3. f[i + 1] = f[k]
            BY ONLY <2>6
        <3>4. ~(i + 1 < k)
            BY <2>6
        <3>5. Q[i + 1] = P[i] + v /\ P[i + 1] = P[i] + f[k]
            BY ONLY <2>2, <3>2, <3>3
        <3>6. Q[i + 1] = P[i + 1] - f[k] + v
            <4> DEFINE p == P[i]
                       fk == f[k]
            <4>1. Q[i + 1] = p + v /\ P[i + 1] = p + fk /\ p \in Nat /\ fk \in Nat
                BY <1>1, <2>4, <3>5
            <4> HIDE DEF p, fk
            <4>2. P[i + 1] - fk + v = p + v
                BY ONLY <4>1, <2>4
            <4> QED
                BY <4>1, <4>2 DEF fk
        <3> QED
            BY ONLY <3>4, <3>6
    <2>7. CASE i + 1 > k
        <3>1. Q[i] = P[i] - f[k] + v /\ g[i + 1] = f[i + 1]
            BY <2>1, <2>3, <2>7
        <3> QED
            BY <2>2, <2>4, <2>7, <3>1
    <2> QED
        BY <2>5, <2>6, <2>7
<1> HIDE DEF S
<1>6. \A i \in Nat : i \in S
    BY <1>4, <1>5, NatSetInduction
<1>7. Q[n] = P[n] - f[k] + v
    <2>1. n <= n /\ ~(n < k)
        OBVIOUS
    <2>2. n \in S
        BY <1>6
    <2> QED
        BY <2>1, <2>2 DEF S
<1>8. SlotSum(g, n) = Q[n] /\ SlotSum(f, n) = P[n]
    BY DEF P, Q, SlotSum
<1> QED
    BY <1>7, <1>8 DEF v

\* No amount exceeds the sum.
LEMMA SlotSumBound ==
    ASSUME NEW n \in Nat, NEW f \in [1..n -> Nat], NEW k \in 1..n
    PROVE  f[k] <= SlotSum(f, n)
<1> DEFINE g == [i \in 1..n |-> IF i = k THEN 0 ELSE f[i]]
<1>1. /\ g \in [1..n -> Nat] /\ g[k] = 0 /\ f[k] \in Nat
      /\ \A i \in 1..n : i # k => g[i] = f[i]
    OBVIOUS
<1> HIDE DEF g
<1>2. SlotSum(g, n) = SlotSum(f, n) - f[k] + g[k]
    BY <1>1, SlotSumUpdate
<1>3. SlotSum(g, n) \in Nat /\ SlotSum(f, n) \in Nat
    BY <1>1, SlotSumType
<1> DEFINE fk == f[k]
           sf == SlotSum(f, n)
           sg == SlotSum(g, n)
<1>4. sg = sf - fk + 0 /\ fk \in Nat /\ sf \in Nat /\ sg \in Nat
    BY <1>1, <1>2, <1>3
<1> HIDE DEF fk, sf, sg
<1>5. fk <= sf
    BY <1>4
<1> QED
    BY <1>5 DEF fk, sf
-----------------------------------------------------------------------------
(* Sequences.                                                              *)

\* The first n elements of a sequence and the rest hold elements of the sequence,
\* and between them every element.
LEMMA SplitProperties ==
    ASSUME NEW S, NEW q \in Seq(S), NEW n \in 0..Len(q)
    PROVE  /\ SubSeq(q, 1, n) \in Seq(S)
           /\ SubSeq(q, n + 1, Len(q)) \in Seq(S)
           /\ \A i \in DOMAIN SubSeq(q, 1, n) :
                  \E j \in DOMAIN q : SubSeq(q, 1, n)[i] = q[j]
           /\ \A i \in DOMAIN SubSeq(q, n + 1, Len(q)) :
                  \E j \in DOMAIN q : SubSeq(q, n + 1, Len(q))[i] = q[j]
           /\ \A j \in DOMAIN q :
                  \/ \E i \in DOMAIN SubSeq(q, 1, n) : SubSeq(q, 1, n)[i] = q[j]
                  \/ \E i \in DOMAIN SubSeq(q, n + 1, Len(q)) :
                        SubSeq(q, n + 1, Len(q))[i] = q[j]
<1> DEFINE out == SubSeq(q, 1, n)
           rest == SubSeq(q, n + 1, Len(q))
<1>1. Len(q) \in Nat /\ DOMAIN q = 1..Len(q) /\ \A i \in 1..Len(q) : q[i] \in S
    BY LenProperties
<1>2. n \in 0..Len(q)
    OBVIOUS
<1>3. /\ out \in Seq(S)
      /\ Len(out) = n
      /\ \A i \in 1..n : out[i] = q[i]
    BY <1>1, <1>2, SubSeqProperties
<1>4. /\ rest \in Seq(S)
      /\ Len(rest) = Len(q) - n
      /\ \A i \in 1..(Len(q) - n) : rest[i] = q[n + i]
    <2>1. \A i \in (n + 1)..Len(q) : q[i] \in S
        BY <1>1, <1>2
    <2>2. /\ rest \in Seq(S)
          /\ Len(rest) = IF n + 1 <= Len(q) THEN Len(q) - (n + 1) + 1 ELSE 0
          /\ \A i \in 1..(Len(q) - (n + 1) + 1) : rest[i] = q[(n + 1) + i - 1]
        <3>1. n + 1 \in Int /\ Len(q) \in Int
            BY <1>1, <1>2
        <3> QED
            BY <2>1, <3>1, SubSeqProperties
    <2> HIDE DEF rest
    <2>3. Len(rest) = Len(q) - n
        <3>1. Len(rest) = IF n + 1 <= Len(q) THEN Len(q) - (n + 1) + 1 ELSE 0
            BY <2>2
        <3>2. Len(q) \in Nat /\ n \in Nat /\ n <= Len(q)
            BY <1>1, <1>2
        <3>3. CASE n + 1 <= Len(q)
            BY <3>1, <3>2, <3>3
        <3>4. CASE ~(n + 1 <= Len(q))
            BY <3>1, <3>2, <3>4
        <3> QED
            BY <3>3, <3>4
    <2>4. ASSUME NEW i \in 1..(Len(q) - n) PROVE rest[i] = q[n + i]
        <3>1. i \in 1..(Len(q) - (n + 1) + 1) /\ (n + 1) + i - 1 = n + i
            BY <1>1, <1>2
        <3> QED
            BY <2>2, <3>1
    <2> QED
        BY <2>2, <2>3, <2>4
<1> HIDE DEF out, rest
<1>5. DOMAIN out = 1..n /\ DOMAIN rest = 1..(Len(q) - n)
    BY <1>3, <1>4, LenProperties
<1>6. \A i \in DOMAIN out : \E j \in DOMAIN q : out[i] = q[j]
    BY <1>1, <1>2, <1>3, <1>5
<1>7. \A i \in DOMAIN rest : \E j \in DOMAIN q : rest[i] = q[j]
    <2> TAKE i \in DOMAIN rest
    <2>1. n + i \in DOMAIN q
        BY <1>1, <1>2, <1>5
    <2> QED
        BY <1>4, <1>5, <2>1
<1>8. ASSUME NEW j \in DOMAIN q
      PROVE  \/ \E i \in DOMAIN out : out[i] = q[j]
             \/ \E i \in DOMAIN rest : rest[i] = q[j]
    <2>1. CASE j <= n
        BY <1>1, <1>2, <1>3, <1>5, <2>1
    <2>2. CASE ~(j <= n)
        <3>1. j - n \in DOMAIN rest /\ n + (j - n) = j
            BY <1>1, <1>2, <1>5, <2>2
        <3> QED
            BY <1>4, <1>5, <3>1
    <2> QED
        BY <2>1, <2>2
<1> QED
    BY <1>3, <1>4, <1>6, <1>7, <1>8 DEF out, rest
-----------------------------------------------------------------------------
(* Sums over finite sets, as MapThenSumSet takes them: an element is chosen, *)
(* and its amount added to the sum over the others.                         *)

Chosen(s) == CHOOSE x \in s : TRUE

\* The equation of the sums of f over the subsets of a set.
SetSumStep(f, sums, s) == IF s = {} THEN 0 ELSE f[Chosen(s)] + sums[s \ {Chosen(s)}]
AreSetSums(f, S, sums) == sums = [s \in SUBSET S |-> SetSumStep(f, sums, s)]

SetSum(f, S) == (CHOOSE sums : AreSetSums(f, S, sums))[S]

\* Induction over a finite set: what holds of a set when it holds of the set
\* without any one of its elements holds of all subsets.
LEMMA SubsetInduction ==
    ASSUME NEW S, IsFiniteSet(S), NEW Q,
           \A s \in SUBSET S : (\A x \in s : s \ {x} \in Q) => s \in Q
    PROVE  \A s \in SUBSET S : s \in Q
<1> DEFINE N == {n \in Nat : \A s \in SUBSET S : Cardinality(s) = n => s \in Q}
<1>1. \A s \in SUBSET S : IsFiniteSet(s) /\ Cardinality(s) \in Nat
    BY FS_Subset, FS_CardinalityType
<1>2. 0 \in N
    <2> SUFFICES ASSUME NEW s \in SUBSET S, Cardinality(s) = 0 PROVE s \in Q
        OBVIOUS
    <2>1. s = {}
        BY <1>1, FS_EmptySet
    <2> QED
        BY <2>1
<1>3. ASSUME NEW n \in Nat, n \in N PROVE n + 1 \in N
    <2> SUFFICES ASSUME NEW s \in SUBSET S, Cardinality(s) = n + 1 PROVE s \in Q
        OBVIOUS
    <2>1. ASSUME NEW x \in s PROVE s \ {x} \in Q
        <3>1. Cardinality(s \ {x}) = n
            BY <1>1, FS_RemoveElement
        <3> QED
            BY <1>3, <3>1
    <2> QED
        BY <2>1
<1> HIDE DEF N
<1>4. \A n \in Nat : n \in N
    BY <1>2, <1>3, NatSetInduction
<1> QED
    BY <1>1, <1>4 DEF N

\* The sums exist.
LEMMA SetSumsExist ==
    ASSUME NEW S, IsFiniteSet(S), NEW f, \A x \in S : f[x] \in Nat
    PROVE  \E sums : AreSetSums(f, S, sums)
<1> DEFINE N == {n \in Nat : \E g : \A s \in SUBSET S :
                     Cardinality(s) <= n => g[s] = SetSumStep(f, g, s)}
<1>0. \A s \in SUBSET S : IsFiniteSet(s) /\ Cardinality(s) \in Nat
    BY FS_Subset, FS_CardinalityType
<1>1. \A s \in SUBSET S : s # {} => /\ Chosen(s) \in s
                                    /\ s \ {Chosen(s)} \in SUBSET S
                                    /\ Cardinality(s \ {Chosen(s)}) = Cardinality(s) - 1
    BY <1>0, FS_RemoveElement DEF Chosen
<1>2. 0 \in N
    <2> DEFINE g == [s \in SUBSET S |-> 0]
    <2>1. \A s \in SUBSET S : Cardinality(s) <= 0 => s = {}
        BY <1>0, FS_EmptySet
    <2>2. \A s \in SUBSET S : Cardinality(s) <= 0 => g[s] = SetSumStep(f, g, s)
        BY <2>1 DEF SetSumStep
    <2> HIDE DEF g
    <2> QED
        BY <2>2
<1>3. ASSUME NEW n \in Nat, n \in N PROVE n + 1 \in N
    <2>1. PICK g : \A s \in SUBSET S : Cardinality(s) <= n => g[s] = SetSumStep(f, g, s)
        BY <1>3
    <2> DEFINE h == [s \in SUBSET S |->
                        IF Cardinality(s) = n + 1 THEN SetSumStep(f, g, s) ELSE g[s]]
    <2>2. \A s \in SUBSET S : h[s] = IF Cardinality(s) = n + 1 THEN SetSumStep(f, g, s) ELSE g[s]
        OBVIOUS
    <2> HIDE DEF h
    <2>3. ASSUME NEW s \in SUBSET S, Cardinality(s) <= n + 1
          PROVE  h[s] = SetSumStep(f, h, s)
        <3>1. h[s] = SetSumStep(f, g, s)
            <4>1. CASE Cardinality(s) = n + 1
                BY <4>1, <2>2
            <4>2. CASE Cardinality(s) # n + 1
                <5>1. Cardinality(s) <= n
                    BY <4>2, <2>3, <1>0
                <5> QED
                    BY <4>2, <5>1, <2>1, <2>2
            <4> QED
                BY <4>1, <4>2
        <3>2. s # {} => h[s \ {Chosen(s)}] = g[s \ {Chosen(s)}]
            <4> SUFFICES ASSUME s # {} PROVE h[s \ {Chosen(s)}] = g[s \ {Chosen(s)}]
                OBVIOUS
            <4>1. /\ s \ {Chosen(s)} \in SUBSET S
                  /\ Cardinality(s \ {Chosen(s)}) # n + 1
                BY <1>0, <1>1, <2>3
            <4> QED
                BY <4>1, <2>2
        <3> QED
            BY <3>1, <3>2 DEF SetSumStep
    <2>4. n + 1 \in N
        BY <2>3
    <2> QED
        BY <2>4
<1> HIDE DEF N
<1>4. \A n \in Nat : n \in N
    BY <1>2, <1>3, NatSetInduction
<1>5. PICK g : \A s \in SUBSET S : Cardinality(s) <= Cardinality(S) => g[s] = SetSumStep(f, g, s)
    BY <1>0, <1>4 DEF N
<1>6. \A s \in SUBSET S : g[s] = SetSumStep(f, g, s)
    BY <1>5, FS_Subset
<1> DEFINE sums == [s \in SUBSET S |-> g[s]]
<1>7. \A s \in SUBSET S : sums[s] = SetSumStep(f, sums, s)
    <2> TAKE s \in SUBSET S
    <2>1. sums[s] = SetSumStep(f, g, s)
        BY <1>6
    <2>2. s # {} => sums[s \ {Chosen(s)}] = g[s \ {Chosen(s)}]
        BY <1>1
    <2> HIDE DEF sums
    <2> QED
        BY <2>1, <2>2 DEF SetSumStep
<1>8. AreSetSums(f, S, sums)
    BY <1>7 DEF AreSetSums
<1> HIDE DEF sums
<1> QED
    BY <1>8

\* All sums over subsets are natural numbers, and any element may be taken first.
LEMMA SetSumsEquation ==
    ASSUME NEW S, IsFiniteSet(S), NEW f, \A x \in S : f[x] \in Nat,
           NEW sums, AreSetSums(f, S, sums)
    PROVE  /\ sums[{}] = 0
           /\ \A s \in SUBSET S : sums[s] \in Nat
           /\ \A s \in SUBSET S : \A x \in s : sums[s] = f[x] + sums[s \ {x}]
<1>1. \A s \in SUBSET S : sums[s] = SetSumStep(f, sums, s)
    <2>1. sums = [s \in SUBSET S |-> SetSumStep(f, sums, s)]
        BY DEF AreSetSums
    <2> QED
        BY <2>1, Zenon
<1>2. sums[{}] = 0
    BY <1>1 DEF SetSumStep
<1> DEFINE Good(s) == /\ sums[s] \in Nat
                      /\ \A x \in s : /\ sums[s \ {x}] \in Nat
                                       /\ sums[s] = f[x] + sums[s \ {x}]
           Q == {s \in SUBSET S : Good(s)}
<1>3. ASSUME NEW s \in SUBSET S, \A x \in s : s \ {x} \in Q
      PROVE  s \in Q
    <2>0. \A x \in s : Good(s \ {x})
        BY <1>3
    <2>1. CASE s = {}
        BY <2>1, <1>2
    <2>2. CASE s # {}
        <3> DEFINE y == Chosen(s)
        <3>1. y \in s /\ sums[s] = f[y] + sums[s \ {y}] /\ f[y] \in Nat
            BY <1>1, <2>2 DEF SetSumStep, Chosen
        <3> HIDE DEF y
        <3>2. sums[s \ {y}] \in Nat /\ sums[s] \in Nat
            <4>1. sums[s \ {y}] \in Nat
                BY <2>0, <3>1
            <4> QED
                BY <3>1, <4>1
        <3>3. ASSUME NEW x \in s PROVE sums[s] = f[x] + sums[s \ {x}]
            <4>1. CASE x = y
                BY <4>1, <3>1
            <4>2. CASE x # y
                <5>1. x \in s \ {y} /\ y \in s \ {x} /\ (s \ {y}) \ {x} = (s \ {x}) \ {y}
                    BY <4>2, <3>1
                <5>2. sums[s \ {y}] = f[x] + sums[(s \ {y}) \ {x}]
                    BY <2>0, <3>1, <5>1
                <5>3. sums[s \ {x}] = f[y] + sums[(s \ {y}) \ {x}]
                    BY <2>0, <5>1
                <5>4. f[x] \in Nat /\ sums[(s \ {y}) \ {x}] \in Nat
                    BY <2>0, <3>1, <5>1
                <5> QED
                    BY <3>1, <5>2, <5>3, <5>4
            <4> QED
                BY <4>1, <4>2
        <3> QED
            BY <2>0, <3>2, <3>3
    <2> QED
        BY <2>1, <2>2
<1> HIDE DEF Q
<1>4. \A s \in SUBSET S : s \in Q
    BY <1>3, SubsetInduction
<1> QED
    BY <1>2, <1>4 DEF Q

\* The sum of a finite set is a natural number; any element may be taken first.
LEMMA SetSumProperties ==
    ASSUME NEW S, IsFiniteSet(S), NEW f, \A x \in S : f[x] \in Nat
    PROVE  /\ SetSum(f, S) \in Nat
           /\ S = {} => SetSum(f, S) = 0
<1> DEFINE sums == CHOOSE sums : AreSetSums(f, S, sums)
<1>1. AreSetSums(f, S, sums)
    BY SetSumsExist
<1>2. SetSum(f, S) = sums[S]
    BY DEF SetSum
<1> HIDE DEF sums
<1>3. sums[{}] = 0 /\ \A s \in SUBSET S : sums[s] \in Nat
    BY <1>1, SetSumsEquation
<1> QED
    BY <1>2, <1>3

\* Sums of functions that agree on a set agree there.
LEMMA SumsAgree ==
    ASSUME NEW S, IsFiniteSet(S), NEW f, \A x \in S : f[x] \in Nat,
           NEW T, IsFiniteSet(T), NEW g, \A x \in T : g[x] \in Nat,
           NEW F, AreSetSums(f, S, F), NEW G, AreSetSums(g, T, G),
           NEW U \in SUBSET S, U \subseteq T, \A x \in U : f[x] = g[x]
    PROVE  F[U] = G[U]
<1> DEFINE Q == {s \in SUBSET U : F[s] = G[s]}
<1>1. F[{}] = 0 /\ \A s \in SUBSET S : \A x \in s : F[s] = f[x] + F[s \ {x}]
    BY SetSumsEquation
<1>2. G[{}] = 0 /\ \A s \in SUBSET T : \A x \in s : G[s] = g[x] + G[s \ {x}]
    BY SetSumsEquation
<1>3. IsFiniteSet(U)
    BY FS_Subset
<1>4. ASSUME NEW s \in SUBSET U, \A x \in s : s \ {x} \in Q PROVE s \in Q
    <2>1. CASE s = {}
        BY <2>1, <1>1, <1>2
    <2>2. CASE s # {}
        <3>1. PICK x \in s : TRUE
            BY <2>2
        <3>2. F[s \ {x}] = G[s \ {x}] /\ f[x] = g[x]
            BY <1>4, <3>1
        <3>3. F[s] = f[x] + F[s \ {x}]
            BY <1>1, <3>1
        <3>4. G[s] = g[x] + G[s \ {x}]
            BY <1>2, <3>1
        <3> QED
            BY <3>2, <3>3, <3>4
    <2> QED
        BY <2>1, <2>2
<1> HIDE DEF Q
<1>5. \A s \in SUBSET U : s \in Q
    BY <1>3, <1>4, SubsetInduction
<1> QED
    BY <1>5 DEF Q

\* Any element may be taken out of a sum.
LEMMA SetSumRemove ==
    ASSUME NEW S, IsFiniteSet(S), NEW f, \A x \in S : f[x] \in Nat, NEW k \in S
    PROVE  SetSum(f, S) = f[k] + SetSum(f, S \ {k})
<1> DEFINE T == S \ {k}
           F == CHOOSE sums : AreSetSums(f, S, sums)
           G == CHOOSE sums : AreSetSums(f, T, sums)
<1>1. IsFiniteSet(T) /\ T \in SUBSET S /\ T \subseteq T
    BY FS_Subset
<1>2. \A x \in T : f[x] \in Nat
    OBVIOUS
<1>3. SetSum(f, S) = F[S] /\ SetSum(f, T) = G[T]
    BY DEF SetSum
<1>4. AreSetSums(f, S, F)
    BY SetSumsExist
<1> HIDE DEF T
<1>5. AreSetSums(f, T, G)
    BY <1>1, <1>2, SetSumsExist
<1> HIDE DEF F, G
<1>6. F[T] = G[T]
    BY <1>1, <1>2, <1>4, <1>5, SumsAgree
<1>7. F[S] = f[k] + F[S \ {k}]
    BY <1>4, SetSumsEquation
<1> QED
    BY <1>3, <1>6, <1>7 DEF T

\* Amounts that agree have the same sum.
LEMMA SetSumAgree ==
    ASSUME NEW S, IsFiniteSet(S), NEW f, \A x \in S : f[x] \in Nat,
           NEW g, \A x \in S : f[x] = g[x]
    PROVE  SetSum(f, S) = SetSum(g, S)
<1> DEFINE F == CHOOSE sums : AreSetSums(f, S, sums)
           G == CHOOSE sums : AreSetSums(g, S, sums)
<1>1. SetSum(f, S) = F[S] /\ SetSum(g, S) = G[S]
    BY DEF SetSum
<1>2. \A x \in S : g[x] \in Nat
    OBVIOUS
<1>3. AreSetSums(f, S, F)
    BY SetSumsExist
<1>4. AreSetSums(g, S, G)
    BY <1>2, SetSumsExist
<1> HIDE DEF F, G
<1>5. S \in SUBSET S /\ S \subseteq S
    OBVIOUS
<1> QED
    BY <1>1, <1>2, <1>3, <1>4, <1>5, SumsAgree

\* Amounts that agree but for one change the sum by that one.
LEMMA SetSumUpdate ==
    ASSUME NEW S, IsFiniteSet(S), NEW f, \A x \in S : f[x] \in Nat,
           NEW g, \A x \in S : g[x] \in Nat,
           NEW k \in S, \A x \in S \ {k} : f[x] = g[x]
    PROVE  SetSum(g, S) + f[k] = SetSum(f, S) + g[k]
<1> DEFINE T == S \ {k}
<1>1. IsFiniteSet(T) /\ (\A x \in T : f[x] \in Nat) /\ \A x \in T : f[x] = g[x]
    BY FS_Subset
<1>2. SetSum(f, S) = f[k] + SetSum(f, T) /\ SetSum(g, S) = g[k] + SetSum(g, T)
    BY SetSumRemove
<1> HIDE DEF T
<1>3. SetSum(f, T) = SetSum(g, T)
    BY <1>1, SetSumAgree
<1>4. SetSum(f, T) \in Nat
    BY <1>1, SetSumProperties
<1>5. f[k] \in Nat /\ g[k] \in Nat
    OBVIOUS
<1> QED
    BY <1>2, <1>3, <1>4, <1>5

\* Elements without an amount do not count.
LEMMA SetSumSupport ==
    ASSUME NEW S, IsFiniteSet(S), NEW f, \A x \in S : f[x] \in Nat,
           NEW T \in SUBSET S, \A x \in S \ T : f[x] = 0
    PROVE  SetSum(f, S) = SetSum(f, T)
<1> DEFINE Q == {R \in SUBSET (S \ T) : SetSum(f, T \cup R) = SetSum(f, T)}
<1>1. IsFiniteSet(S \ T)
    BY FS_Subset
<1>2. ASSUME NEW R \in SUBSET (S \ T), \A x \in R : R \ {x} \in Q PROVE R \in Q
    <2>1. CASE R = {}
        <3>1. T \cup R = T
            BY <2>1
        <3> QED
            BY <3>1
    <2>2. CASE R # {}
        <3>1. PICK x \in R : TRUE
            BY <2>2
        <3> DEFINE all == T \cup R
        <3>2. /\ all \ {x} = T \cup (R \ {x}) /\ x \in all /\ f[x] = 0
              /\ all \in SUBSET S /\ all \ {x} \in SUBSET S
            BY <3>1
        <3>3. SetSum(f, all \ {x}) = SetSum(f, T)
            BY <1>2, <3>1, <3>2
        <3>4. /\ IsFiniteSet(all) /\ IsFiniteSet(all \ {x})
              /\ (\A z \in all : f[z] \in Nat) /\ \A z \in all \ {x} : f[z] \in Nat
            BY <3>2, FS_Subset
        <3> HIDE DEF all
        <3>5. SetSum(f, all) = f[x] + SetSum(f, all \ {x})
            BY <3>2, <3>4, SetSumRemove
        <3>6. SetSum(f, all \ {x}) \in Nat
            BY <3>4, SetSumProperties
        <3>7. SetSum(f, all) = SetSum(f, T)
            BY <3>2, <3>3, <3>5, <3>6
        <3> QED
            BY <3>7 DEF all
    <2> QED
        BY <2>1, <2>2
<1> DEFINE rest == S \ T
<1> HIDE DEF Q, rest
<1>3. \A R \in SUBSET rest : R \in Q
    <2>1. IsFiniteSet(rest)
        BY <1>1 DEF rest
    <2>2. \A R \in SUBSET rest : (\A x \in R : R \ {x} \in Q) => R \in Q
        BY <1>2 DEF rest
    <2> QED
        BY ONLY <2>1, <2>2, SubsetInduction
<1>4. T \cup (S \ T) = S /\ S \ T \in SUBSET (S \ T)
    OBVIOUS
<1>5. S \ T \in Q
    BY <1>3, <1>4 DEF rest
<1>6. SetSum(f, T \cup (S \ T)) = SetSum(f, T)
    BY <1>5 DEF Q
<1> QED
    BY <1>4, <1>6
=============================================================================
