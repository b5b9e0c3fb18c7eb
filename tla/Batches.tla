------------------------------ MODULE Batches ------------------------------
(***************************************************************************)
(* The batches in which a node asks its peers (pkg/utils/peers.go): how    *)
(* many peers are asked next, and how many batches that makes.  The agent  *)
(* takes batch after batch off its list of peers (pkg/apicheck/check.go);  *)
(* the manager's calculator of the reboot duration counts the batches in   *)
(* advance from the number of worker nodes (pkg/reboot/calculator.go).     *)
(***************************************************************************)
EXTENDS Naturals

MinNrOfNodesInBatch == 3
MaxNrOfBatchesAfterFirst == 10

AtLeast(least, n) == IF n < least THEN least ELSE n
AtMost(most, n) == IF n > most THEN most ELSE n

\* Mutant: the size of the last batch is not limited to what is left.
GetNextBatchSizeUnlimited(total, remaining) ==
    IF total = remaining THEN MinNrOfNodesInBatch
    ELSE AtLeast(MinNrOfNodesInBatch,
                 (total - MinNrOfNodesInBatch) \div MaxNrOfBatchesAfterFirst)

\* Mutant: no minimum.
GetNextBatchSizeTenth(total, remaining) ==
    AtMost(remaining,
           IF total = remaining THEN MinNrOfNodesInBatch
           ELSE (total - MinNrOfNodesInBatch) \div MaxNrOfBatchesAfterFirst)

\* A few peers first, then a tenth of the others each time but not less than
\* the minimum; never more than are left.
GetNextBatchSize(total, remaining) ==
    AtMost(remaining,
           IF total = remaining THEN MinNrOfNodesInBatch
           ELSE AtLeast(MinNrOfNodesInBatch,
                        (total - MinNrOfNodesInBatch)
                            \div MaxNrOfBatchesAfterFirst))

\* Mutant: the size of the first batch is used for all.
GetNrOfBatchesOfFirstSize(total) ==
    (total + MinNrOfNodesInBatch - 1) \div MinNrOfNodesInBatch

GetNrOfBatches(total) ==
    LET batches[remaining \in 0 .. total] ==
          IF remaining = 0 THEN 0
          ELSE 1 + batches[remaining - GetNextBatchSize(total, remaining)]
    IN  batches[total]

============================================================================
