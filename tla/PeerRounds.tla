----------------------------- MODULE PeerRounds -----------------------------
(***************************************************************************)
(* One round of questions of a worker node that no answer ends early: the  *)
(* loop of getWorkerPeersResponse (pkg/apicheck/check.go) over the list of *)
(* its peers, which are the other worker nodes of the cluster.  It is the  *)
(* longest a node may need to find out that it is unhealthy;               *)
(* GetNrOfBatches predicts it for the calculator.                          *)
(***************************************************************************)
EXTENDS Batches

CONSTANT MaxWorkers   \* bound on the worker nodes of the cluster

ASSUME MaxWorkersAssumption == MaxWorkers \in Nat \ {0}

VARIABLES
    workers,    \* worker nodes of the cluster, this one included
    remaining,  \* peers that are still to be asked
    batches     \* batches asked so far

vars == <<workers, remaining, batches>>

nrAllPeers == workers - 1

Init ==
    /\ workers \in 1 .. MaxWorkers
    /\ remaining = nrAllPeers
    /\ batches = 0

\* One turn of the loop: popPeerIPs takes a batch off the list.
AskBatch ==
    /\ remaining > 0
    /\ remaining' = remaining - GetNextBatchSize(nrAllPeers, remaining)
    /\ batches' = batches + 1
    /\ UNCHANGED workers

Next == AskBatch

Spec == Init /\ [][Next]_vars

----------------------------------------------------------------------------
\* Properties.

\* The worst case over all sizes of a cluster: a tenth is rounded down, so
\* after the first batch there may be 13 and not 10.
WorstNrOfBatches == 14

\* The counter and the list have their types: popping a batch never takes
\* more peers than are left.
TypeOK ==
    /\ workers \in 1 .. MaxWorkers
    /\ remaining \in 0 .. nrAllPeers
    /\ batches \in 0 .. WorstNrOfBatches

\* GetNrOfBatches, which predicts the length of a round without taking it,
\* agrees with the loop that takes it.
PredictionAgrees ==
    remaining = 0 => batches = GetNrOfBatches(nrAllPeers)

\* A round ends, and every peer is asked in it: no turn leaves the list as it
\* is, however small the cluster.
EveryTurnAdvances == [][remaining' < remaining]_vars

============================================================================
