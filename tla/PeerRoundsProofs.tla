-------------------------- MODULE PeerRoundsProofs --------------------------
(***************************************************************************)
(* Proofs about PeerRounds: a round of questions has at most               *)
(* WorstNrOfBatches batches, however large the cluster is, and every batch *)
(* asks somebody.                                                          *)
(***************************************************************************)
EXTENDS PeerRounds, BatchesProofs

\* How far the round is: the first batch takes MinNrOfNodesInBatch peers and
\* each later one LaterSize, but for the last, which takes what is left; the
\* batches that were asked and those that the recursion of GetNrOfBatches
\* counts for the peers that remain are together all that it counts.
RoundInv ==
    /\ workers \in 1 .. MaxWorkers
    /\ remaining \in 0 .. nrAllPeers
    /\ batches \in 0 .. WorstNrOfBatches
    /\ batches = 0 => remaining = nrAllPeers
    /\ batches > 0 /\ remaining > 0
         => remaining = nrAllPeers - MinNrOfNodesInBatch
                          - (batches - 1) * LaterSize(nrAllPeers)
    /\ batches + NrOfBatches(nrAllPeers)[remaining]
         = NrOfBatches(nrAllPeers)[nrAllPeers]

----------------------------------------------------------------------------
\* The product of a batch's number and its size, one batch later.
LEMMA NextProduct ==
    ASSUME NEW b \in Nat, NEW s \in Nat
    PROVE  (b + 1) * s = b * s + s
OBVIOUS

\* A turn of the loop keeps the invariant.
LEMMA AskBatchKeeps ==
    ASSUME RoundInv, AskBatch
    PROVE  RoundInv'
<1> DEFINE size == GetNextBatchSize(nrAllPeers, remaining)
           n == nrAllPeers
           s == LaterSize(nrAllPeers)
           f == NrOfBatches(nrAllPeers)
<1>1. /\ workers' = workers /\ n' = n /\ s' = s /\ f' = f
      /\ remaining' = remaining - size /\ batches' = batches + 1
      /\ remaining > 0
  BY DEF AskBatch, nrAllPeers
<1>0. n \in Nat /\ remaining \in 1 .. n
  BY <1>1, MaxWorkersAssumption DEF RoundInv, nrAllPeers
<1>2. /\ size \in 1 .. remaining
      /\ size < remaining => size = IF remaining = n THEN 3 ELSE s
  BY <1>0, NextBatchSizeFacts DEF MinNrOfNodesInBatch
<1>3. /\ workers \in 1 .. MaxWorkers
      /\ n \in Nat /\ remaining \in 0 .. n /\ batches \in 0 .. 14
      /\ batches = 0 => remaining = n
      /\ batches > 0 => remaining = n - 3 - (batches - 1) * s
  BY <1>1, MaxWorkersAssumption DEF RoundInv, nrAllPeers, WorstNrOfBatches,
                                    MinNrOfNodesInBatch
<1>4. s \in Nat /\ s >= 3 /\ n - 3 <= 13 * s
  BY <1>0, LaterSizeFacts DEF MinNrOfNodesInBatch
<1>10. batches' + f[remaining'] = f[n]
  <2>1. /\ f[remaining] = 1 + f[remaining - size]
        /\ \A r \in 0 .. n : f[r] \in Nat
    BY <1>0, NrOfBatchesFacts
  <2>2. batches + f[remaining] = f[n]
    BY DEF RoundInv
  <2>3. remaining - size \in 0 .. n
    BY <1>0, <1>2
  <2> HIDE DEF size, n, f
  <2>4. QED
    BY <1>1, <1>3, <2>1, <2>2, <2>3
<1> HIDE DEF size, n, s, f
<1>5. batches <= 13
  <2> SUFFICES ASSUME batches = 14 PROVE FALSE
    BY <1>3
  <2>1. remaining = n - 3 - 13 * s
    BY <1>3
  <2>2. QED
    BY <1>1, <1>3, <1>4, <2>1
<1>6. remaining' \in 0 .. n
  BY <1>1, <1>2, <1>3
<1>7. ASSUME remaining' > 0
      PROVE  remaining' = n - 3 - batches * s
  <2>1. size = IF remaining = n THEN 3 ELSE s
    BY <1>1, <1>2, <1>3, <1>7
  <2>2. CASE batches = 0
    BY <1>1, <1>3, <1>4, <2>1, <2>2
  <2>3. CASE batches > 0
    <3>1. PICK b \in Nat : batches = b + 1
      <4>1. batches - 1 \in Nat /\ batches = (batches - 1) + 1
        BY <1>3, <2>3
      <4>2. QED
        BY <4>1
    <3>2. b * s \in Nat /\ (b + 1) * s = b * s + s
      BY <1>4, <3>1, NextProduct
    <3>3. remaining = n - 3 - b * s
      BY <1>3, <2>3, <3>1
    <3>4. remaining # n
      BY <1>3, <3>2, <3>3
    <3>5. QED
      BY <1>1, <1>2, <1>3, <1>4, <2>1, <3>1, <3>2, <3>3, <3>4
  <2>4. QED
    BY <1>3, <2>2, <2>3
<1>8. /\ workers' \in 1 .. MaxWorkers /\ remaining' \in 0 .. n'
      /\ batches' \in 0 .. 14 /\ batches' # 0
      /\ remaining' > 0 => remaining' = n' - 3 - (batches' - 1) * s'
  <2>1. batches' - 1 = batches
    BY <1>1, <1>3
  <2>2. QED
    BY <1>1, <1>3, <1>5, <1>6, <1>7, <2>1
<1>9. QED
  BY <1>1, <1>8, <1>10 DEF RoundInv, n, s, f, WorstNrOfBatches, MinNrOfNodesInBatch

----------------------------------------------------------------------------
\* The invariant of the round holds for every size of a cluster.
LEMMA RoundInvariant == Spec => []RoundInv
<1>1. Init => RoundInv
  <2> SUFFICES ASSUME Init PROVE RoundInv
    OBVIOUS
  <2>1. nrAllPeers \in Nat
    BY MaxWorkersAssumption DEF Init, nrAllPeers
  <2>2. NrOfBatches(nrAllPeers)[nrAllPeers] \in Nat
    BY <2>1, NrOfBatchesFacts
  <2>3. QED
    BY <2>1, <2>2 DEF Init, RoundInv, WorstNrOfBatches
<1>2. RoundInv /\ [Next]_vars => RoundInv'
  <2>1. CASE UNCHANGED vars
    BY <2>1 DEF vars, RoundInv, nrAllPeers
  <2>2. QED
    BY <2>1, AskBatchKeeps DEF Next
<1>3. QED
  BY <1>1, <1>2, PTL DEF Spec

\* getWorkerPeersResponse never takes more peers off its list than are left,
\* and asks them all in at most WorstNrOfBatches batches, however many
\* workers there are.
THEOREM RoundIsShort == Spec => []TypeOK
<1>1. RoundInv => TypeOK
  BY DEF RoundInv, TypeOK
<1>2. QED
  BY <1>1, RoundInvariant, PTL

\* GetNrOfBatches, with which the manager predicts how long a node may take
\* to ask its peers, counts exactly the batches that getWorkerPeersResponse
\* asks when no answer ends the round early, for every size of a cluster.
THEOREM PredictionIsRight == Spec => []PredictionAgrees
<1>1. RoundInv => PredictionAgrees
  <2> SUFFICES ASSUME RoundInv, remaining = 0
               PROVE  batches = GetNrOfBatches(nrAllPeers)
    BY DEF PredictionAgrees
  <2>1. nrAllPeers \in Nat /\ batches \in Nat
    BY MaxWorkersAssumption DEF RoundInv, nrAllPeers, WorstNrOfBatches
  <2>2. /\ GetNrOfBatches(nrAllPeers) = NrOfBatches(nrAllPeers)[nrAllPeers]
        /\ NrOfBatches(nrAllPeers)[0] = 0
    BY <2>1, NrOfBatchesFacts
  <2>3. batches + NrOfBatches(nrAllPeers)[0]
          = NrOfBatches(nrAllPeers)[nrAllPeers]
    BY DEF RoundInv
  <2>4. QED
    BY <2>1, <2>2, <2>3
<1>2. QED
  BY <1>1, RoundInvariant, PTL

\* No turn of the loop leaves the list of peers as it is.
THEOREM TurnsAdvance == Spec => EveryTurnAdvances
<1>1. RoundInv /\ [Next]_vars => [remaining' < remaining]_vars
  <2> SUFFICES ASSUME RoundInv, AskBatch PROVE remaining' < remaining
    BY DEF Next
  <2> DEFINE size == GetNextBatchSize(nrAllPeers, remaining)
  <2>1. remaining > 0 /\ remaining' = remaining - size
    BY DEF AskBatch
  <2>3. nrAllPeers \in Nat /\ remaining \in 1 .. nrAllPeers
    BY <2>1, MaxWorkersAssumption DEF RoundInv, nrAllPeers
  <2>2. size \in 1 .. remaining
    BY <2>1, <2>3, NextBatchSizeFacts
  <2> HIDE DEF size
  <2>4. QED
    BY <2>1, <2>2, <2>3
<1>2. QED
  BY <1>1, RoundInvariant, PTL DEF Spec, EveryTurnAdvances

============================================================================
