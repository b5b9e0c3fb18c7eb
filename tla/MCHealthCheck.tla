--------------------------- MODULE MCHealthCheck ---------------------------
(***************************************************************************)
(* Instances of HealthCheck for TLC in which some peers are connected, and *)
(* in reach as long as they have a pod; the others have no pod, or have    *)
(* lost the API server, or are out of reach, for good.  At most half of    *)
(* the peers make the node read "ApiError" for good: with more it stays up *)
(* whatever else happens.                                                  *)
(***************************************************************************)
EXTENDS HealthCheck

CONSTANT Moving  \* the peers whose pods come and go

Batch1 == 1 .. GetNextBatchSize(NrPeers, NrPeers)

\* What a peer that does not move does to the node: it makes it ask itself,
\* answers that it has lost the API server, or gives no answer.
absent(p) == pod[p] = "absent" /\ link[p] = "down"
withoutApi(p) == pod[p] = "ready" /\ link[p] = "noApi"
silent(p) == pod[p] = "ready" /\ link[p] = "down"

\* The order of peers within a batch means nothing: one of each pattern is enough.
inOrder(p, q) ==
    /\ withoutApi(p) => ~absent(q)
    /\ silent(p) => silent(q)

MCInit ==
    /\ Init
    /\ \A p \in Moving : pod[p] = "ready" /\ link[p] = "up"
    /\ \A p \in Peers \ Moving : absent(p) \/ withoutApi(p) \/ silent(p)
    /\ \A p, q \in Batch1 \ Moving : p < q => inOrder(p, q)
    /\ 2 * Cardinality({p \in Peers : absent(p) \/ withoutApi(p)}) <= NrPeers

MCNext == Next /\ \A p \in Peers \ Moving : pod'[p] = pod[p]

MCFairSpec == MCInit /\ [][MCNext]_vars /\ Fairness

============================================================================
