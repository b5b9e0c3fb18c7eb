--------------------------- MODULE BatchesProofs ----------------------------
(***************************************************************************)
(* Proofs about Batches: every batch asks somebody and nobody twice, and   *)
(* what the recursion of GetNrOfBatches computes.                          *)
(***************************************************************************)
EXTENDS Batches, Integers, WellFoundedInduction, TLAPS

----------------------------------------------------------------------------
\* The sizes of the batches.

\* The size of the batches after the first one.
LaterSize(total) ==
    AtLeast(MinNrOfNodesInBatch,
            (total - MinNrOfNodesInBatch) \div MaxNrOfBatchesAfterFirst)

\* A tenth of the peers, rounded down but not below the minimum: thirteen
\* such batches are as many as there are peers after the first batch.
LEMMA LaterSizeFacts ==
    ASSUME NEW total \in Nat
    PROVE  /\ LaterSize(total) \in Nat
           /\ LaterSize(total) >= MinNrOfNodesInBatch
           /\ total - MinNrOfNodesInBatch <= 13 * LaterSize(total)
<1> DEFINE d == total - 3
           q == d \div 10
           s == LaterSize(total)
<1>1. d \in Int
  OBVIOUS
<1>2. q \in Int /\ 10 * q <= d /\ d < 10 * q + 10
  <2> HIDE DEF d
  <2> QED BY <1>1
<1>3. s = IF q < 3 THEN 3 ELSE q
  BY DEF LaterSize, AtLeast, MinNrOfNodesInBatch, MaxNrOfBatchesAfterFirst
<1> HIDE DEF q
<1>4. s \in Nat /\ s >= 3 /\ s >= q
  BY <1>2, <1>3
<1> HIDE DEF d, s
<1>5. d <= 13 * s
  BY <1>1, <1>2, <1>4
<1>6. QED
  BY <1>4, <1>5 DEF d, s, MinNrOfNodesInBatch

\* A batch asks somebody and nobody twice.
LEMMA NextBatchSizeFacts ==
    ASSUME NEW total \in Nat, NEW remaining \in 1 .. total
    PROVE  LET size == GetNextBatchSize(total, remaining)
           IN  /\ size \in 1 .. remaining
               /\ size < remaining
                    => size = IF remaining = total
                              THEN MinNrOfNodesInBatch ELSE LaterSize(total)
<1> DEFINE wish == IF total = remaining THEN MinNrOfNodesInBatch
                   ELSE LaterSize(total)
<1>1. wish \in Nat /\ wish >= 1
  BY LaterSizeFacts DEF MinNrOfNodesInBatch
<1>2. GetNextBatchSize(total, remaining) = AtMost(remaining, wish)
  BY DEF GetNextBatchSize, LaterSize
<1>3. QED
  BY <1>1, <1>2 DEF AtMost

----------------------------------------------------------------------------
\* The number of batches.

\* A set of natural numbers has a least element: induction in the form that
\* the proofs below use.
LEMMA Smallest ==
    ASSUME NEW T \in SUBSET Nat, T # {}
    PROVE  \E x \in T : \A y \in T : x <= y
<1>1. PICK x \in T : \A y \in T : ~(<<y, x>> \in OpToRel(<, Nat))
  BY NatLessThanWellFounded, WFMin
<1>2. \A y \in T : ~(y < x)
  BY <1>1 DEF OpToRel
<1>3. QED
  BY <1>2

\* Function f counts the batches for up to n of the peers that remain.
Counts(total, n, f) ==
    f = [remaining \in 0 .. n |->
           IF remaining = 0 THEN 0
           ELSE 1 + f[remaining - GetNextBatchSize(total, remaining)]]

\* The recursion has a solution.
LEMMA CountsExists ==
    ASSUME NEW total \in Nat, NEW n \in 0 .. total
    PROVE  \E f : Counts(total, n, f)
<1> DEFINE bad == {k \in 0 .. total : ~\E f : Counts(total, k, f)}
<1> SUFFICES ASSUME ~\E f : Counts(total, n, f) PROVE FALSE
  OBVIOUS
<1>0. n \in bad
  OBVIOUS
<1>1. PICK k \in bad : \A j \in bad : k <= j
  <2>1. bad \in SUBSET Nat /\ bad # {}
    BY <1>0
  <2> HIDE DEF bad
  <2>2. QED
    BY <2>1, Smallest
<1>2. k # 0
  <2>1. Counts(total, 0, [remaining \in 0 .. 0 |-> 0])
    BY DEF Counts
  <2>2. QED
    BY <2>1
<1>3. k - 1 \in 0 .. total /\ k - 1 \notin bad
  BY <1>1, <1>2
<1>4. PICK f : Counts(total, k - 1, f)
  BY <1>3
<1> DEFINE size(r) == GetNextBatchSize(total, r)
           g == [r \in 0 .. k |-> IF r = k THEN 1 + f[k - size(k)] ELSE f[r]]
<1>5. \A r \in 1 .. k : size(r) \in 1 .. r
  BY NextBatchSizeFacts
<1> HIDE DEF size
<1>6. \A r \in 0 .. k - 1 : f[r] = IF r = 0 THEN 0 ELSE 1 + f[r - size(r)]
  <2>1. f = [r \in 0 .. k - 1 |-> IF r = 0 THEN 0 ELSE 1 + f[r - size(r)]]
    BY <1>4 DEF Counts, size
  <2>2. QED
    BY <2>1
<1>7. \A r \in 0 .. k : g[r] = IF r = 0 THEN 0 ELSE 1 + g[r - size(r)]
  <2>1. \A r \in 0 .. k - 1 : g[r] = f[r]
    OBVIOUS
  <2>2. ASSUME NEW r \in 1 .. k PROVE g[r] = 1 + g[r - size(r)]
    <3>1. r - size(r) \in 0 .. k - 1
      BY <1>5
    <3>2. CASE r = k
      BY <2>1, <3>1, <3>2
    <3>3. CASE r # k
      BY <1>6, <2>1, <3>1, <3>3
    <3>4. QED
      BY <3>2, <3>3
  <2>3. g[0] = 0
    BY <1>2, <1>6, <2>1
  <2> HIDE DEF g
  <2>4. ASSUME NEW r \in 0 .. k
        PROVE  g[r] = IF r = 0 THEN 0 ELSE 1 + g[r - size(r)]
    <3>1. k \in Nat
      OBVIOUS
    <3>2. r = 0 \/ r \in 1 .. k
      BY <3>1
    <3>3. QED
      BY <2>2, <2>3, <3>2
  <2>5. QED
    BY <2>4
<1>8. g = [r \in 0 .. k |-> IF r = 0 THEN 0 ELSE 1 + g[r - size(r)]]
  <2>1. g = [r \in 0 .. k |-> g[r]]
    OBVIOUS
  <2> HIDE DEF g
  <2>2. QED
    BY <1>7, <2>1
<1>9. Counts(total, k, g)
  <2> HIDE DEF g
  <2> QED BY <1>8 DEF Counts, size
<1>10. QED
  BY <1>9

\* The function that GetNrOfBatches takes the last value of.
NrOfBatches(total) == CHOOSE f : Counts(total, total, f)

\* It counts one batch after the other, and is a number.
LEMMA NrOfBatchesFacts ==
    ASSUME NEW total \in Nat
    PROVE  LET f == NrOfBatches(total)
           IN  /\ GetNrOfBatches(total) = f[total]
               /\ f[0] = 0
               /\ \A r \in 1 .. total :
                    f[r] = 1 + f[r - GetNextBatchSize(total, r)]
               /\ \A r \in 0 .. total : f[r] \in Nat
<1> DEFINE f == NrOfBatches(total)
<1>1. Counts(total, total, f)
  BY CountsExists DEF NrOfBatches
<1>2. GetNrOfBatches(total) = f[total]
  BY DEF GetNrOfBatches, NrOfBatches, Counts
<1>3. \A r \in 0 .. total :
        f[r] = IF r = 0 THEN 0 ELSE 1 + f[r - GetNextBatchSize(total, r)]
  <2>1. f = [r \in 0 .. total |->
               IF r = 0 THEN 0 ELSE 1 + f[r - GetNextBatchSize(total, r)]]
    BY <1>1 DEF Counts
  <2> HIDE DEF f
  <2>2. QED
    BY <2>1
<1> HIDE DEF f
<1>4. \A r \in 0 .. total : f[r] \in Nat
  <2> DEFINE bad == {r \in 0 .. total : f[r] \notin Nat}
  <2> SUFFICES ASSUME NEW n \in 0 .. total, f[n] \notin Nat PROVE FALSE
    OBVIOUS
  <2>0. n \in bad
    OBVIOUS
  <2>1. PICK r \in bad : \A j \in bad : r <= j
    <3>1. bad \in SUBSET Nat /\ bad # {}
      BY <2>0
    <3> HIDE DEF bad
    <3>2. QED
      BY <3>1, Smallest
  <2>2. r # 0
    BY <1>3
  <2>3. GetNextBatchSize(total, r) \in 1 .. r
    BY <2>2, NextBatchSizeFacts
  <2>4. r - GetNextBatchSize(total, r) \in (0 .. total) \ bad
    BY <2>1, <2>3
  <2>5. QED
    BY <1>3, <2>2, <2>4
<1>5. QED
  BY <1>2, <1>3, <1>4 DEF f

============================================================================
