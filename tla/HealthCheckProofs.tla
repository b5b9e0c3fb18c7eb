------------------------- MODULE HealthCheckProofs --------------------------
(***************************************************************************)
(* Proofs about HealthCheck, for every number of peers and every choice of *)
(* thresholds and durations.                                               *)
(***************************************************************************)
EXTENDS HealthCheck, BatchesProofs, FiniteSetTheorems

----------------------------------------------------------------------------
\* The inductive invariants.

responses == healthyResponses + unhealthyResponses + apiErrorsResponses

\* Nobody is counted twice: what was counted in this round, in the batch and
\* before, and what is still to come, are together no more than the peers that
\* were asked.
CountInv ==
    /\ pc \in {"ask", "wait"} => peersToAsk \in [Peers -> Addresses]
    /\ pc # "wait" => pending = {}
    /\ pc = "wait" => apiErrorsResponsesSum + responses + Cardinality(pending)
                        <= asked
    /\ pc = "ask" => apiErrorsResponsesSum <= asked
    /\ pc \in {"down", "idle"} => apiErrorsResponsesSum = 0

\* What the history of the round tells.
HistoryInv ==
    /\ inRound /\ snr => snrSeen
    /\ inRound /\ ~snr => snrMissing
    /\ unhealthyResponses > 0 => pc = "wait" /\ snrSeen
    /\ healthyResponses > 0
         => pc = "wait" /\ ("matchError" \notin Changes => snrMissing)
    /\ response # "none" => pc \in {"decide", "judge", "kubelet"}
    /\ response = "UnHealthyBecausePeersResponse" => snrSeen
    /\ response = "HealthyBecauseCRNotFound"
         => ("matchError" \notin Changes => snrMissing)
    /\ steady \subseteq {p \in Peers : inReach(p)}

\* A node that was sound all the round still is, and so are the answers that it
\* got from the other control planes and its endpoint.
SoundInv ==
    /\ inRound /\ sound => isSound
    /\ pc \in {"judge", "kubelet"} /\ sound => reached
    /\ pc = "kubelet" /\ sound => ~endpointLost

\* Time passes only for a manager that knows its role.
RoleInv ==
    /\ role = "unset" => silence = 0
    /\ response = "UnHealthyBecauseNodeIsIsolated" => role # "unset"
    /\ role = "Worker" => ~ControlPlaneNode

\* The longest that the batches take in which n peers are asked.
batchesTime(n) ==
    (NrOfBatches(NrPeers)[NrPeers] - NrOfBatches(NrPeers)[NrPeers - n])
      * BatchTime

\* Once somebody who has to answer was asked there was an answer, and the
\* silence since then is no longer than the other batches took.
SilenceInv ==
    /\ pc \in {"ask", "wait"} => batchesTime(asked) \in Nat
    /\ pc = "wait" => batchesTime(asked) >= BatchTime
    /\ pc = "ask"
         => \A p \in 1 .. asked : answers(p)
              => silence + BatchTime <= batchesTime(asked)
    /\ pc = "wait"
         => \A p \in (1 .. asked) \ pending : answers(p)
              => \/ responses > 0
                 \/ silence + 2 * BatchTime <= batchesTime(asked) + batchAge

\* IsolatedNodeIsCutOff, and that the list it speaks of is there.
CutOffInv ==
    /\ response = "UnHealthyBecauseNodeIsIsolated"
         => peersToAsk \in [Peers -> Addresses]
    /\ IsolatedNodeIsCutOff

----------------------------------------------------------------------------
\* Types and counters.

\* The sets of peers that occur are finite.
LEMMA PeersFinite ==
    /\ IsFiniteSet(Peers) /\ Cardinality(Peers) = NrPeers
    /\ \A S \in SUBSET Peers : IsFiniteSet(S) /\ Cardinality(S) \in Nat
<1>1. IsFiniteSet(Peers) /\ Cardinality(Peers) = NrPeers
  BY SizesAssumption, FS_Interval DEF Peers
<1>2. ASSUME NEW S \in SUBSET Peers
      PROVE  IsFiniteSet(S) /\ Cardinality(S) \in Nat
  BY <1>1, FS_Subset, FS_CardinalityType
<1>3. QED
  BY <1>1, <1>2

\* While the node asks, the list has all peers.
LEMMA AllPeers ==
    ASSUME TypeOK, CountInv, pc \in {"ask", "wait"}
    PROVE  nrAllPeers = NrPeers
BY PeersFinite DEF CountInv, nrAllPeers

\* Pods that go away leave the lists well formed.
LEMMA WithoutAddressType ==
    ASSUME NEW list, NEW p,
           NEW A, Addresses \subseteq A
    PROVE  /\ list = NoAddresses => withoutAddress(list, p) = NoAddresses
           /\ list \in [Peers -> A]
                => withoutAddress(list, p) \in [Peers -> A]
<1>1. ASSUME list = NoAddresses PROVE withoutAddress(list, p) = NoAddresses
  <2>1. DOMAIN list = {}
    BY <1>1 DEF NoAddresses
  <2>2. QED
    BY <2>1 DEF NoAddresses, withoutAddress
<1>2. ASSUME list \in [Peers -> A]
      PROVE  withoutAddress(list, p) \in [Peers -> A]
  BY <1>2 DEF withoutAddress, Addresses
<1>3. QED
  BY <1>1, <1>2

\* A step keeps types and counters.
LEMMA CountKept ==
    ASSUME TypeOK, CountInv, [Next]_vars
    PROVE  TypeOK' /\ CountInv'
<1> USE DEF world, manager, peers, counters, batch, round, judgement, history
<1>0. /\ NrPeers \in Nat /\ Threshold \in Nat /\ Interval \in Nat
      /\ BatchTime \in Nat /\ Long \in Nat
  BY SizesAssumption DEF Long
<1>22. ASSUME NoBatch
       PROVE  /\ asked' = 0 /\ asked' \in 0 .. NrPeers
              /\ pending' = {} /\ pending' \subseteq Peers
              /\ batchAge' \in 0 .. BatchTime
              /\ healthyResponses' \in 0 .. NrPeers
              /\ unhealthyResponses' \in 0 .. NrPeers
              /\ apiErrorsResponses' \in 0 .. NrPeers
  BY <1>0, <1>22 DEF NoBatch
<1>27. ASSUME NoJudgement
       PROVE  /\ peersToAsk' = NoAddresses /\ apiErrorsResponsesSum' = 0
              /\ apiErrorsResponsesSum' \in 0 .. NrPeers
              /\ response' \in Reasons \union {"none"}
              /\ reached' \in BOOLEAN /\ endpointLost' \in BOOLEAN
              /\ snrSeen' \in BOOLEAN /\ snrMissing' \in BOOLEAN
              /\ steady' \subseteq Peers /\ sound' \in BOOLEAN
  <2>1. /\ snrSeen' \in BOOLEAN /\ snrMissing' \in BOOLEAN
        /\ sound' \in BOOLEAN /\ reached' \in BOOLEAN
        /\ endpointLost' \in BOOLEAN
    BY <1>27, Zenon DEF NoJudgement
  <2>2. /\ peersToAsk' = NoAddresses /\ apiErrorsResponsesSum' = 0
        /\ response' = "none" /\ steady' = {}
    BY <1>27, Zenon DEF NoJudgement
  <2>3. QED
    BY <1>0, <2>1, <2>2
<1>1. CASE UpdatePeers
  <2>1. ~updatePeersFails => cachedPods \in [Peers -> Addresses]
    BY DEF updatePeersFails, TypeOK
  <2>2. /\ addresses' = NoAddresses \/ addresses' \in [Peers -> Addresses]
        /\ updating' \in BOOLEAN
    BY <1>1, <2>1 DEF UpdatePeers, TypeOK
  <2>3. QED
    BY <1>1, <2>2 DEF UpdatePeers, TypeOK, CountInv, responses
<1>2. CASE InitializeManager
  <2>1. /\ role' \in {"unset", "Worker", "ControlPlane"}
        /\ accessibleAtStart' \in BOOLEAN
    BY <1>2 DEF InitializeManager, isEndpointAccessible
  <2>2. QED
    BY <1>2, <2>1 DEF InitializeManager, TypeOK, CountInv, responses
<1>3. CASE CheckSucceeds
  BY <1>0, <1>3 DEF TypeOK, CountInv, responses, CheckSucceeds
<1>4. CASE CheckFails
  <2>1. /\ NoBatch /\ snrSeen' \in BOOLEAN /\ snrMissing' \in BOOLEAN
        /\ steady' \subseteq Peers /\ sound' \in BOOLEAN
        /\ errorCount' \in 0 .. Threshold
    BY <1>0, <1>4 DEF CheckFails, Respond, TypeOK, AtMost, isSound
  <2>2. \/ pc' = "decide" /\ response' \in Reasons /\ UNCHANGED peersToAsk
        \/ /\ pc' = "ask" /\ UNCHANGED response
           /\ peersToAsk' \in [Peers -> Addresses]
    BY <1>4 DEF CheckFails, Respond, Reasons, TypeOK
  <2>3. apiErrorsResponsesSum' = apiErrorsResponsesSum
    BY <1>4 DEF CheckFails
  <2>4. apiErrorsResponsesSum = 0
    BY <1>4 DEF CheckFails, CountInv
  <2>5. TypeOK'
    BY <1>4, <1>22, <2>1, <2>2 DEF CheckFails, TypeOK
  <2>6. QED
    BY <1>22, <2>1, <2>2, <2>3, <2>4, <2>5 DEF CountInv
<1>5. CASE SendBatch
  <2> DEFINE size == GetNextBatchSize(NrPeers, NrPeers - asked)
  <2>1. /\ pc = "ask" /\ asked < NrPeers /\ pc' = "wait"
        /\ pending' = (asked + 1) .. (asked + size) /\ asked' = asked + size
        /\ batchAge' = 0 /\ healthyResponses' = 0 /\ unhealthyResponses' = 0
        /\ apiErrorsResponses' = 0
        /\ UNCHANGED <<peersToAsk, apiErrorsResponsesSum>>
    BY <1>5, AllPeers DEF SendBatch
  <2>2. asked \in Nat /\ NrPeers - asked \in 1 .. NrPeers
    BY <1>0, <2>1 DEF TypeOK
  <2>3. size \in 1 .. (NrPeers - asked)
    BY <1>0, <2>2, NextBatchSizeFacts
  <2> HIDE DEF size
  <2>4. asked' \in 0 .. NrPeers /\ pending' \subseteq Peers
    BY <1>0, <2>1, <2>2, <2>3 DEF Peers
  <2>5. Cardinality(pending') = size
    BY <2>1, <2>2, <2>3, FS_Interval
  <2>6. TypeOK'
    BY <1>0, <1>5, <2>1, <2>4 DEF SendBatch, TypeOK
  <2>7. apiErrorsResponsesSum \in Nat /\ apiErrorsResponsesSum <= asked
    BY <2>1 DEF TypeOK, CountInv
  <2>8. QED
    BY <2>1, <2>2, <2>3, <2>5, <2>6, <2>7 DEF CountInv, responses
<1>6. ASSUME NEW p \in Peers, ReceiveResponse(p)
      PROVE  TypeOK' /\ CountInv'
  <2>1. PICK r \in getHealthStatusFromPeer(p) :
          /\ healthyResponses'
               = healthyResponses + (IF r = "Healthy" THEN 1 ELSE 0)
          /\ unhealthyResponses'
               = unhealthyResponses + (IF r = "Unhealthy" THEN 1 ELSE 0)
          /\ apiErrorsResponses'
               = apiErrorsResponses + (IF r = "ApiError" THEN 1 ELSE 0)
    BY <1>6 DEF ReceiveResponse
  <2>2. /\ healthyResponses \in Nat /\ unhealthyResponses \in Nat
        /\ apiErrorsResponses \in Nat /\ apiErrorsResponsesSum \in Nat
        /\ asked \in 0 .. NrPeers /\ pending \subseteq Peers
    BY DEF TypeOK
  <2>3. /\ pc = "wait" /\ p \in pending /\ pending' = pending \ {p}
        /\ UNCHANGED <<pc, asked, peersToAsk, apiErrorsResponsesSum>>
    BY <1>6 DEF ReceiveResponse
  <2>4. /\ Cardinality(pending') = Cardinality(pending) - 1
        /\ Cardinality(pending) \in Nat /\ Cardinality(pending') \in Nat
    <3>1. IsFiniteSet(pending) /\ Cardinality(pending) \in Nat
      BY <2>2, PeersFinite
    <3>2. pending' \subseteq Peers
      BY <2>2, <2>3
    <3>3. QED
      BY <2>3, <3>1, <3>2, PeersFinite, FS_RemoveElement
  <2>5. /\ healthyResponses' \in Nat /\ unhealthyResponses' \in Nat
        /\ apiErrorsResponses' \in Nat /\ responses \in Nat
        /\ responses' \in Nat /\ responses' <= responses + 1
    <3>1. /\ healthyResponses' \in Nat /\ unhealthyResponses' \in Nat
          /\ apiErrorsResponses' \in Nat
      BY <2>1, <2>2
    <3>2. responses \in Nat
      BY <2>2 DEF responses
    <3>3. responses' \in Nat
      <4>1. responses' = healthyResponses' + unhealthyResponses'
                           + apiErrorsResponses'
        BY DEF responses
      <4>2. \A a, b, c \in Nat : a + b + c \in Nat
        OBVIOUS
      <4>3. healthyResponses' + unhealthyResponses' + apiErrorsResponses'
              \in Nat
        BY <3>1, <4>2
      <4>4. QED
        BY <4>1, <4>3
    <3>4. responses' <= responses + 1
      BY <2>1, <2>2 DEF responses
    <3>5. QED
      BY <3>1, <3>2, <3>3, <3>4
  <2>6. apiErrorsResponsesSum + responses + Cardinality(pending) <= asked
    BY <2>3 DEF CountInv
  <2>7. apiErrorsResponsesSum' + responses' + Cardinality(pending') <= asked'
    <3>1. apiErrorsResponsesSum' = apiErrorsResponsesSum /\ asked' = asked
      BY <2>3
    <3>2. apiErrorsResponsesSum + responses' + Cardinality(pending') <= asked
      <4>1. asked \in Nat
        BY <2>2
      <4>2. QED
        BY <2>2, <2>4, <2>5, <2>6, <4>1
    <3>3. QED
      BY <3>1, <3>2
  <2>8. /\ healthyResponses' \in 0 .. NrPeers
        /\ unhealthyResponses' \in 0 .. NrPeers
        /\ apiErrorsResponses' \in 0 .. NrPeers
    BY <1>0, <2>2, <2>3, <2>4, <2>5, <2>7 DEF responses
  <2>9. TypeOK'
    BY <1>6, <2>2, <2>3, <2>8 DEF ReceiveResponse, TypeOK
  <2>10. QED
    BY <2>3, <2>7, <2>9 DEF CountInv
<1>7. CASE EvaluateBatch
  <2> DEFINE sum == apiErrorsResponsesSum + apiErrorsResponses
  <2>1. pc = "wait" /\ pending = {} /\ UNCHANGED peersToAsk
    BY <1>7 DEF EvaluateBatch
  <2>2. sum \in 0 .. asked /\ asked \in 0 .. NrPeers
    BY <2>1, FS_EmptySet DEF TypeOK, CountInv, responses
  <2>3. \/ /\ pc' = "decide" /\ NoBatch /\ response' \in Reasons
           /\ apiErrorsResponsesSum' \in {sum, apiErrorsResponsesSum}
        \/ /\ pc' = "ask" /\ apiErrorsResponsesSum' = sum
           /\ UNCHANGED <<batch, response>>
    BY <1>7 DEF EvaluateBatch, Respond, Reasons
  <2>4. errorCount' \in 0 .. Threshold /\ silence' \in 0 .. Long
    BY <1>0, <1>7 DEF EvaluateBatch, TypeOK
  <2> HIDE DEF sum
  <2>5. TypeOK'
    <3>1. apiErrorsResponsesSum' \in 0 .. NrPeers
      BY <1>0, <2>2, <2>3 DEF TypeOK
    <3>3. CASE pc' = "decide"
      BY <1>7, <1>22, <2>1, <2>3, <2>4, <3>1, <3>3 DEF EvaluateBatch, TypeOK
    <3>4. CASE pc' = "ask"
      BY <1>7, <2>1, <2>3, <2>4, <3>1, <3>4 DEF EvaluateBatch, TypeOK
    <3>5. QED
      BY <2>3, <3>3, <3>4
  <2>6. CountInv'
    <3>1. CASE pc' = "decide"
      BY <1>22, <2>3, <3>1 DEF CountInv
    <3>2. CASE pc' = "ask"
      BY <2>1, <2>2, <2>3, <3>2 DEF CountInv
    <3>3. QED
      BY <2>3, <3>1, <3>2
  <2>7. QED
    BY <2>5, <2>6
<1>8. CASE AllPeersAsked
  <2>1. NoBatch /\ pc' = "decide" /\ response' \in Reasons
    BY <1>8 DEF AllPeersAsked, Respond, Reasons
  <2>2. QED
    BY <1>8, <1>22, <2>1 DEF AllPeersAsked, TypeOK, CountInv
<1>9. CASE DecideWorker
  <2>1. /\ NoJudgement /\ pc' = "idle" /\ untilCheck' = Interval
        /\ rebooting' \in BOOLEAN
    BY <1>9 DEF DecideWorker, Idle, TypeOK
  <2>2. pending = {}
    BY <1>9 DEF DecideWorker, CountInv
  <2>3. QED
    BY <1>0, <1>9, <1>27, <2>1, <2>2 DEF DecideWorker, TypeOK, CountInv
<1>10. CASE DecideControlPlane
  <2>1. /\ NoJudgement /\ pc' = "idle" /\ untilCheck' = Interval
        /\ rebooting' \in BOOLEAN
    BY <1>10 DEF DecideControlPlane, Idle, TypeOK
  <2>2. pending = {}
    BY <1>10 DEF DecideControlPlane, CountInv
  <2>3. QED
    BY <1>0, <1>10, <1>27, <2>1, <2>2 DEF DecideControlPlane, TypeOK, CountInv
<1>11. CASE StopAgent
  <2>1. /\ NoJudgement /\ NoBatch /\ pc' = "down"
        /\ rebooting' \in BOOLEAN /\ accessibleAtStart' \in BOOLEAN
        /\ updating' \in BOOLEAN
        /\ cachedPods' \in [Peers -> Addresses \union {"noIP"}]
    BY <1>11 DEF StopAgent, Addresses
  <2>2. QED
    BY <1>0, <1>11, <1>22, <1>27, <2>1 DEF StopAgent, TypeOK, CountInv
<1>23. CASE StartAgent
  <2>1. cachedPods' \in [Peers -> Addresses \union {"noIP"}]
    BY <1>23, SettingsAssumption
       DEF StartAgent, podSeen, TypeOK, Addresses, AllPods
  <2>2. updating' \in BOOLEAN /\ pc = "down" /\ pc' = "idle"
    BY <1>23 DEF StartAgent, running
  <2>3. QED
    BY <1>23, <2>1, <2>2 DEF StartAgent, TypeOK, CountInv
<1>24. ASSUME NEW p \in Peers, DeliverPod(p)
       PROVE  TypeOK' /\ CountInv'
  <2>1. podSeen(p) \in Addresses \union {"noIP"}
    BY SettingsAssumption DEF podSeen, TypeOK, Addresses, AllPods
  <2>2. cachedPods' \in [Peers -> Addresses \union {"noIP"}]
    BY <1>24, <2>1 DEF DeliverPod, TypeOK
  <2>3. QED
    BY <1>24, <2>2 DEF DeliverPod, TypeOK, CountInv, responses
<1>25. CASE AskControlPlanes
  <2>1. reached' \in BOOLEAN /\ pc = "decide" /\ pc' = "judge"
    BY <1>25 DEF AskControlPlanes, TypeOK
  <2>2. QED
    BY <1>25, <2>1 DEF AskControlPlanes, TypeOK, CountInv
<1>26. CASE DiagnoseEndpoint
  <2>1. endpointLost' \in BOOLEAN /\ pc = "judge" /\ pc' = "kubelet"
    BY <1>26 DEF DiagnoseEndpoint, isEndpointAccessLost, isEndpointAccessible,
                 TypeOK
  <2>2. QED
    BY <1>26, <2>1 DEF DiagnoseEndpoint, TypeOK, CountInv
<1>12. CASE Tick
  BY <1>0, <1>12 DEF TypeOK, CountInv, responses, Tick, later
<1>13. ASSUME NEW p \in Peers, NEW l \in Links, ChangeLink(p, l)
      PROVE  TypeOK' /\ CountInv'
  BY <1>0, <1>13 DEF TypeOK, CountInv, responses, ChangeLink, Change, Remember
<1>14. ASSUME NEW p \in Peers, NEW s \in Pods, ChangePod(p, s)
      PROVE  TypeOK' /\ CountInv'
  <2>1. /\ addresses' = NoAddresses \/ addresses' \in [Peers -> Addresses]
        /\ peersToAsk' = NoAddresses \/ peersToAsk' \in [Peers -> Addresses]
        /\ peersToAsk \in [Peers -> Addresses]
             => peersToAsk' \in [Peers -> Addresses]
        /\ cachedPods' \in [Peers -> Addresses \union {"noIP"}]
    BY <1>14, WithoutAddressType DEF ChangePod, TypeOK
  <2>2. pod' \in [Peers -> Pods] /\ steady' \subseteq Peers
    BY <1>14 DEF ChangePod, Remember, TypeOK
  <2>3. QED
    BY <1>14, <2>1, <2>2 DEF ChangePod, Remember, TypeOK, CountInv, responses
<1>15. CASE ChangeApi
  BY <1>0, <1>15 DEF TypeOK, CountInv, responses, ChangeApi, Change
<1>16. CASE ChangeSNR
  <2>1. snr' \in BOOLEAN /\ snrSeen' \in BOOLEAN /\ snrMissing' \in BOOLEAN
    BY <1>16 DEF TypeOK, ChangeSNR, inRound
  <2>2. QED
    BY <1>16, <2>1 DEF TypeOK, CountInv, responses, ChangeSNR, Change
<1>17. CASE ChangeControlPlanes
  <2>1. sound' \in BOOLEAN
    BY <1>17 DEF TypeOK, ChangeControlPlanes, RememberSound, isSound
  <2>2. QED
    BY <1>17, <2>1 DEF TypeOK, CountInv, responses, ChangeControlPlanes, Change,
                       RememberSound
<1>18. ASSUME NEW e \in Endpoints, ChangeEndpoint(e)
      PROVE  TypeOK' /\ CountInv'
  <2>1. sound' \in BOOLEAN
    BY <1>18 DEF TypeOK, ChangeEndpoint, RememberSound, isSound
  <2>2. QED
    BY <1>18, <2>1 DEF TypeOK, CountInv, responses, ChangeEndpoint, Change,
                       RememberSound
<1>19. CASE ChangeKubelet
  <2>1. sound' \in BOOLEAN
    BY <1>19 DEF TypeOK, ChangeKubelet, RememberSound, isSound
  <2>2. QED
    BY <1>19, <2>1 DEF TypeOK, CountInv, responses, ChangeKubelet, Change,
                       RememberSound
<1>20. CASE UNCHANGED vars
  BY <1>20 DEF TypeOK, CountInv, responses, vars
<1>21. QED
  BY <1>1, <1>2, <1>3, <1>4, <1>5, <1>6, <1>7, <1>8, <1>9, <1>10, <1>11, <1>12, <1>13,
      <1>14, <1>15, <1>16, <1>17, <1>18, <1>19, <1>20, <1>23, <1>24, <1>25,
      <1>26 DEF Next, Check, World, ReadPods

\* Types and counters are right in every reachable state.
LEMMA Counted == Spec => [](TypeOK /\ CountInv)
<1>1. Init => TypeOK /\ CountInv
  <2> SUFFICES ASSUME Init PROVE TypeOK /\ CountInv
    OBVIOUS
  <2>1. TypeOK
    <3>1. /\ NrPeers \in Nat /\ Threshold \in Nat /\ Interval \in Nat
          /\ BatchTime \in Nat /\ Long \in Nat
      BY SizesAssumption DEF Long
    <3>2. pod \in [Peers -> Pods] /\ link \in [Peers -> Links]
      BY SettingsAssumption DEF Init
    <3>3. /\ api \in BOOLEAN /\ snr \in BOOLEAN
          /\ otherControlPlanes \in BOOLEAN /\ kubelet \in BOOLEAN
          /\ accessibleAtStart \in BOOLEAN /\ updating \in BOOLEAN
          /\ rebooting \in BOOLEAN /\ snrSeen \in BOOLEAN
          /\ snrMissing \in BOOLEAN /\ sound \in BOOLEAN
          /\ reached \in BOOLEAN /\ endpointLost \in BOOLEAN
      BY DEF Init
    <3>4. cachedPods \in [Peers -> Addresses \union {"noIP"}]
      BY SettingsAssumption DEF Init, podSeen, Addresses, AllPods
    <3>5. QED
      BY <3>1, <3>2, <3>3, <3>4 DEF Init, TypeOK, Endpoints
  <2>2. CountInv
    BY DEF Init, CountInv
  <2>3. QED
    BY <2>1, <2>2
<1>2. TypeOK /\ CountInv /\ [Next]_vars => (TypeOK /\ CountInv)'
  BY CountKept
<1>3. QED
  BY <1>1, <1>2, PTL DEF Spec

\* Every variable keeps its type; in particular the counters of the answers
\* stay within the number of peers.
THEOREM TypeCorrect == Spec => []TypeOK
BY Counted, PTL

----------------------------------------------------------------------------
\* The history of a round.

\* A step keeps the history right.
LEMMA HistoryKept ==
    ASSUME TypeOK, HistoryInv, [Next]_vars
    PROVE  HistoryInv'
<1> USE DEF world, manager, peers, counters, batch, round, judgement, history
<1>1. CASE UpdatePeers
  BY <1>1 DEF HistoryInv, inReach, inRound, UpdatePeers
<1>2. CASE InitializeManager
  BY <1>2 DEF HistoryInv, inReach, inRound, InitializeManager
<1>3. CASE CheckSucceeds
  BY <1>3 DEF HistoryInv, inReach, inRound, CheckSucceeds
<1>4. CASE CheckFails
  <2>1. /\ snr => snrSeen'
        /\ ~snr => snrMissing'
        /\ steady' = {q \in Peers : inReach(q)}
        /\ UNCHANGED <<snr, link, pod>>
        /\ healthyResponses' = 0 /\ unhealthyResponses' = 0
        /\ pc' = "decide" \/ (pc' = "ask" /\ UNCHANGED response)
        /\ response' # "UnHealthyBecausePeersResponse"
        /\ response' # "HealthyBecauseCRNotFound"
    BY <1>4 DEF CheckFails, Respond, NoBatch, HistoryInv
  <2>2. response = "none"
    BY <1>4 DEF CheckFails, HistoryInv
  <2>3. QED
    BY <2>1, <2>2 DEF HistoryInv, inReach, inRound
<1>5. CASE SendBatch
  BY <1>5 DEF HistoryInv, inReach, inRound, SendBatch
<1>6. ASSUME NEW p \in Peers, ReceiveResponse(p)
      PROVE  HistoryInv'
  <2>1. PICK r \in getHealthStatusFromPeer(p) :
          /\ healthyResponses'
               = healthyResponses + (IF r = "Healthy" THEN 1 ELSE 0)
          /\ unhealthyResponses'
               = unhealthyResponses + (IF r = "Unhealthy" THEN 1 ELSE 0)
    BY <1>6 DEF ReceiveResponse
  <2>2. /\ pc = "wait"
        /\ UNCHANGED <<snr, link, pod, pc, response, snrSeen, snrMissing,
                       steady>>
    BY <1>6 DEF ReceiveResponse
  <2>3. /\ r = "Unhealthy" => snr
        /\ r = "Healthy" /\ "matchError" \notin Changes => ~snr
    BY <2>1 DEF getHealthStatusFromPeer, IsHealthy
  <2>4. unhealthyResponses' > 0 => snrSeen
    BY <2>1, <2>2, <2>3 DEF HistoryInv, inRound, TypeOK
  <2>5. healthyResponses' > 0 /\ "matchError" \notin Changes => snrMissing
    BY <2>1, <2>2, <2>3 DEF HistoryInv, inRound, TypeOK
  <2>6. QED
    BY <2>2, <2>4, <2>5 DEF HistoryInv, inReach, inRound
<1>7. CASE EvaluateBatch
  <2>1. /\ pc = "wait"
        /\ UNCHANGED <<snr, link, pod, snrSeen, snrMissing, steady>>
    BY <1>7 DEF EvaluateBatch
  <2>2. \/ /\ pc' = "decide" /\ unhealthyResponses' = 0
           /\ healthyResponses' = 0
           /\ response' = "UnHealthyBecausePeersResponse"
                => unhealthyResponses > 0
           /\ response' = "HealthyBecauseCRNotFound" => healthyResponses > 0
        \/ /\ pc' = "ask" /\ unhealthyResponses' = 0
           /\ healthyResponses' = 0 /\ response' = response
    BY <1>7 DEF EvaluateBatch, Respond, NoBatch, TypeOK
  <2>3. response = "none"
    BY <2>1 DEF HistoryInv
  <2>4. QED
    BY <2>1, <2>2, <2>3 DEF HistoryInv, inReach, inRound
<1>8. CASE AllPeersAsked
  <2>1. /\ pc = "ask"
        /\ UNCHANGED <<snr, link, pod, snrSeen, snrMissing, steady>>
        /\ pc' = "decide" /\ unhealthyResponses' = 0 /\ healthyResponses' = 0
        /\ response' # "UnHealthyBecausePeersResponse"
        /\ response' # "HealthyBecauseCRNotFound"
    BY <1>8 DEF AllPeersAsked, Respond, NoBatch
  <2>2. QED
    BY <2>1 DEF HistoryInv, inReach, inRound
<1>9. CASE DecideWorker
  BY <1>9 DEF HistoryInv, inReach, inRound, DecideWorker, Idle, NoJudgement
<1>10. CASE DecideControlPlane
  BY <1>10 DEF HistoryInv, inReach, inRound, DecideControlPlane, Idle,
               NoJudgement
<1>11. CASE StopAgent
  BY <1>11 DEF HistoryInv, inReach, inRound, StopAgent, NoBatch, NoJudgement
<1>23. CASE StartAgent
  BY <1>23 DEF HistoryInv, inReach, inRound, running, StartAgent
<1>24. ASSUME NEW p \in Peers, DeliverPod(p)
       PROVE  HistoryInv'
  BY <1>24 DEF HistoryInv, inReach, inRound, DeliverPod
<1>25. CASE AskControlPlanes
  BY <1>25 DEF HistoryInv, inReach, inRound, AskControlPlanes
<1>26. CASE DiagnoseEndpoint
  BY <1>26 DEF HistoryInv, inReach, inRound, DiagnoseEndpoint
<1>12. CASE Tick
  BY <1>12 DEF HistoryInv, inReach, inRound, Tick, later
<1>13. ASSUME NEW p \in Peers, NEW l \in Links, ChangeLink(p, l)
      PROVE  HistoryInv'
  <2>1. /\ steady' = {q \in steady : inReach(q)'}
        /\ UNCHANGED <<snr, pc, healthyResponses, unhealthyResponses, response,
                       snrSeen, snrMissing>>
    BY <1>13 DEF ChangeLink, Change, Remember
  <2>2. QED
    BY <2>1 DEF HistoryInv, inRound
<1>14. ASSUME NEW p \in Peers, NEW s \in Pods, ChangePod(p, s)
      PROVE  HistoryInv'
  <2>1. /\ steady' = {q \in steady : inReach(q)'}
        /\ UNCHANGED <<snr, pc, healthyResponses, unhealthyResponses, response,
                       snrSeen, snrMissing>>
    BY <1>14 DEF ChangePod, Remember
  <2>2. QED
    BY <2>1 DEF HistoryInv, inRound
<1>15. CASE ChangeApi
  BY <1>15 DEF HistoryInv, inReach, inRound, ChangeApi, Change
<1>16. CASE ChangeSNR
  BY <1>16 DEF HistoryInv, inReach, inRound, ChangeSNR, Change
<1>17. CASE ChangeControlPlanes
  BY <1>17 DEF HistoryInv, inReach, inRound, ChangeControlPlanes, Change,
               RememberSound
<1>18. ASSUME NEW e \in Endpoints, ChangeEndpoint(e)
      PROVE  HistoryInv'
  BY <1>18 DEF HistoryInv, inReach, inRound, ChangeEndpoint, Change,
               RememberSound
<1>19. CASE ChangeKubelet
  BY <1>19 DEF HistoryInv, inReach, inRound, ChangeKubelet, Change,
               RememberSound
<1>20. CASE UNCHANGED vars
  BY <1>20 DEF HistoryInv, inReach, inRound, vars
<1>21. QED
  BY <1>1, <1>2, <1>3, <1>4, <1>5, <1>6, <1>7, <1>8, <1>9, <1>10, <1>11, <1>12, <1>13,
      <1>14, <1>15, <1>16, <1>17, <1>18, <1>19, <1>20, <1>23, <1>24, <1>25,
      <1>26 DEF Next, Check, World, ReadPods

\* The history is right in every reachable state.
LEMMA HistoryHolds == Spec => []HistoryInv
<1>1. Init => HistoryInv
  BY DEF Init, HistoryInv, inRound
<1>2. TypeOK /\ HistoryInv /\ [Next]_vars => HistoryInv'
  BY HistoryKept
<1>3. QED
  BY <1>1, <1>2, TypeCorrect, PTL DEF Spec

\* The peers report a node unhealthy only if a remediation of it existed at
\* some time of the round.
THEOREM ReportNeedsSNR == Spec => []UnhealthyNeedsSNR
<1>1. HistoryInv => UnhealthyNeedsSNR
  BY DEF HistoryInv, UnhealthyNeedsSNR
<1>2. QED
  BY <1>1, HistoryHolds, PTL

\* The peers report a node healthy only if there was a time in the round at which
\* no remediation of it existed, provided that peers can match the SNRs that they
\* list with their nodes.
THEOREM AbsenceNeedsNoSNR ==
    ASSUME "matchError" \notin Changes
    PROVE  Spec => []HealthyNeedsNoSNR
<1>1. HistoryInv => HealthyNeedsNoSNR
  BY DEF HistoryInv, HealthyNeedsNoSNR
<1>2. QED
  BY <1>1, HistoryHolds, PTL

----------------------------------------------------------------------------
\* The role of the node.

\* A step keeps what is known of the role.
LEMMA RoleKept ==
    ASSUME TypeOK, HistoryInv, RoleInv, [Next]_vars
    PROVE  RoleInv'
<1> USE DEF world, manager, peers, counters, batch, round, judgement, history
<1>1. CASE UpdatePeers
  BY <1>1 DEF RoleInv, UpdatePeers
<1>2. CASE InitializeManager
  <2>1. /\ role' = IF ControlPlaneNode THEN "ControlPlane" ELSE "Worker"
        /\ response' = response
    BY <1>2 DEF InitializeManager
  <2>2. QED
    BY <2>1 DEF RoleInv
<1>3. CASE CheckSucceeds
  BY <1>3 DEF RoleInv, CheckSucceeds
<1>4. CASE CheckFails
  BY <1>4 DEF RoleInv, CheckFails, Respond, NoBatch, AtMost
<1>5. CASE SendBatch
  BY <1>5 DEF RoleInv, SendBatch
<1>6. ASSUME NEW p \in Peers, ReceiveResponse(p)
      PROVE  RoleInv'
  BY <1>6 DEF RoleInv, ReceiveResponse
<1>7. CASE EvaluateBatch
  <2>1. role' = role /\ (silence' = 0 \/ silence' = silence)
    BY <1>7 DEF EvaluateBatch
  <2>2. \/ response' = response
        \/ response' # "UnHealthyBecauseNodeIsIsolated"
    BY <1>7 DEF EvaluateBatch, Respond
  <2>3. QED
    BY <2>1, <2>2 DEF RoleInv
<1>8. CASE AllPeersAsked
  <2>1. role' = role /\ silence' = silence
    BY <1>8 DEF AllPeersAsked
  <2>2. response' = "UnHealthyBecauseNodeIsIsolated" => silence > MaxSilence
    BY <1>8 DEF AllPeersAsked, Respond, isSilent
  <2>3. role = "unset" => ~(silence > MaxSilence)
    BY SizesAssumption DEF RoleInv
  <2>4. QED
    BY <2>1, <2>2, <2>3 DEF RoleInv
<1>9. CASE DecideWorker
  BY <1>9 DEF RoleInv, DecideWorker, Idle, NoJudgement
<1>10. CASE DecideControlPlane
  BY <1>10 DEF RoleInv, DecideControlPlane, Idle, NoJudgement
<1>11. CASE StopAgent
  BY <1>11 DEF RoleInv, StopAgent, NoBatch, NoJudgement
<1>23. CASE StartAgent
  BY <1>23 DEF RoleInv, StartAgent
<1>24. ASSUME NEW p \in Peers, DeliverPod(p)
       PROVE  RoleInv'
  BY <1>24 DEF RoleInv, DeliverPod
<1>25. CASE AskControlPlanes
  BY <1>25 DEF RoleInv, AskControlPlanes
<1>26. CASE DiagnoseEndpoint
  BY <1>26 DEF RoleInv, DiagnoseEndpoint
<1>12. CASE Tick
  BY <1>12 DEF RoleInv, Tick, later
<1>13. ASSUME NEW p \in Peers, NEW l \in Links, ChangeLink(p, l)
      PROVE  RoleInv'
  BY <1>13 DEF RoleInv, ChangeLink, Change, Remember
<1>14. ASSUME NEW p \in Peers, NEW s \in Pods, ChangePod(p, s)
      PROVE  RoleInv'
  BY <1>14 DEF RoleInv, ChangePod, withoutAddress, Remember
<1>15. CASE ChangeApi
  BY <1>15 DEF RoleInv, ChangeApi, Change
<1>16. CASE ChangeSNR
  BY <1>16 DEF RoleInv, ChangeSNR, Change
<1>17. CASE ChangeControlPlanes
  BY <1>17 DEF RoleInv, ChangeControlPlanes, Change
<1>18. ASSUME NEW e \in Endpoints, ChangeEndpoint(e)
      PROVE  RoleInv'
  BY <1>18 DEF RoleInv, ChangeEndpoint, Change
<1>19. CASE ChangeKubelet
  BY <1>19 DEF RoleInv, ChangeKubelet, Change
<1>20. CASE UNCHANGED vars
  BY <1>20 DEF RoleInv, vars
<1>21. QED
  BY <1>1, <1>2, <1>3, <1>4, <1>5, <1>6, <1>7, <1>8, <1>9, <1>10, <1>11, <1>12, <1>13,
      <1>14, <1>15, <1>16, <1>17, <1>18, <1>19, <1>20, <1>23, <1>24, <1>25,
      <1>26 DEF Next, Check, World, ReadPods

\* What is known of the role holds in every reachable state.
LEMMA RoleHolds == Spec => []RoleInv
<1>1. Init => RoleInv
  BY DEF Init, RoleInv
<1>2. TypeOK /\ HistoryInv /\ RoleInv /\ [Next]_vars => RoleInv'
  BY RoleKept
<1>3. QED
  BY <1>1, <1>2, TypeCorrect, HistoryHolds, PTL DEF Spec

\* A step keeps what a sound node has found out: what is asked again is answered
\* the same way as long as nothing has changed for the worse.
LEMMA SoundKept ==
    ASSUME TypeOK, SoundInv, [Next]_vars
    PROVE  SoundInv'
<1> USE DEF world, manager, peers, counters, batch, round, judgement, history
<1>30. ASSUME UNCHANGED <<otherControlPlanes, kubelet, endpoint,
                          accessibleAtStart, judgement, pc, sound>>
       PROVE  SoundInv'
  BY <1>30 DEF SoundInv, inRound, isSound, isEndpointAccessLost,
               isEndpointAccessible
<1>31. ASSUME UNCHANGED <<otherControlPlanes, kubelet, endpoint,
                          accessibleAtStart, sound>>,
              inRound, pc' \notin {"judge", "kubelet"}
       PROVE  SoundInv'
  BY <1>31 DEF SoundInv, isSound, isEndpointAccessLost, isEndpointAccessible
<1>32. ASSUME ~sound' PROVE SoundInv'
  BY <1>32 DEF SoundInv
<1>33. ASSUME UNCHANGED <<judgement, pc>>, RememberSound
       PROVE  SoundInv'
  BY <1>33 DEF SoundInv, RememberSound, inRound
<1>1. CASE UpdatePeers
  BY <1>1, <1>30 DEF UpdatePeers
<1>2. CASE InitializeManager
  <2>1. /\ ~isEndpointAccessLost'
        /\ UNCHANGED <<otherControlPlanes, kubelet, judgement, pc, sound>>
    BY <1>2 DEF InitializeManager, isEndpointAccessLost, isEndpointAccessible
  <2>2. QED
    BY <2>1 DEF SoundInv, inRound, isSound
<1>3. CASE CheckSucceeds
  BY <1>3, <1>30 DEF CheckSucceeds
<1>4. CASE CheckFails
  <2>1. /\ pc' \notin {"judge", "kubelet"} /\ sound' = isSound
        /\ UNCHANGED <<otherControlPlanes, kubelet, endpoint,
                       accessibleAtStart>>
    BY <1>4 DEF CheckFails, Respond
  <2>2. QED
    BY <2>1 DEF SoundInv, isSound, isEndpointAccessLost, isEndpointAccessible
<1>5. CASE SendBatch
  BY <1>5, <1>31 DEF SendBatch, inRound
<1>6. ASSUME NEW p \in Peers, ReceiveResponse(p)
      PROVE  SoundInv'
  BY <1>6, <1>30 DEF ReceiveResponse
<1>7. CASE EvaluateBatch
  BY <1>7, <1>31 DEF EvaluateBatch, Respond, inRound
<1>8. CASE AllPeersAsked
  BY <1>8, <1>31 DEF AllPeersAsked, Respond, inRound
<1>9. CASE DecideWorker
  BY <1>9, <1>32 DEF DecideWorker, Idle, NoJudgement
<1>10. CASE DecideControlPlane
  BY <1>10, <1>32 DEF DecideControlPlane, Idle, NoJudgement
<1>11. CASE StopAgent
  BY <1>11, <1>32 DEF StopAgent, NoJudgement
<1>12. CASE Tick
  BY <1>12, <1>30 DEF Tick
<1>13. ASSUME NEW p \in Peers, NEW l \in Links, ChangeLink(p, l)
      PROVE  SoundInv'
  BY <1>13, <1>30 DEF ChangeLink, Change, Remember
<1>14. ASSUME NEW p \in Peers, NEW s \in Pods, ChangePod(p, s)
      PROVE  SoundInv'
  BY <1>14, <1>30 DEF ChangePod, Remember
<1>15. CASE ChangeApi
  BY <1>15, <1>30 DEF ChangeApi, Change
<1>16. CASE ChangeSNR
  BY <1>16, <1>30 DEF ChangeSNR, Change
<1>17. CASE ChangeControlPlanes
  BY <1>17, <1>33 DEF ChangeControlPlanes, Change
<1>18. ASSUME NEW e \in Endpoints, ChangeEndpoint(e)
      PROVE  SoundInv'
  BY <1>18, <1>33 DEF ChangeEndpoint, Change
<1>19. CASE ChangeKubelet
  BY <1>19, <1>33 DEF ChangeKubelet, Change
<1>23. CASE StartAgent
  <2>1. pc' = "idle"
    BY <1>23 DEF StartAgent
  <2>2. QED
    BY <2>1 DEF SoundInv, inRound
<1>24. ASSUME NEW p \in Peers, DeliverPod(p)
       PROVE  SoundInv'
  BY <1>24, <1>30 DEF DeliverPod
<1>25. CASE AskControlPlanes
  <2>1. /\ pc = "decide" /\ pc' = "judge" /\ reached' = otherControlPlanes
        /\ UNCHANGED <<otherControlPlanes, kubelet, endpoint,
                       accessibleAtStart, sound>>
    BY <1>25 DEF AskControlPlanes
  <2>2. QED
    BY <2>1 DEF SoundInv, inRound, isSound, isEndpointAccessLost,
                isEndpointAccessible
<1>26. CASE DiagnoseEndpoint
  <2>1. /\ pc = "judge" /\ pc' = "kubelet" /\ reached' = reached
        /\ endpointLost' = isEndpointAccessLost
        /\ UNCHANGED <<otherControlPlanes, kubelet, endpoint,
                       accessibleAtStart, sound>>
    BY <1>26 DEF DiagnoseEndpoint
  <2>2. QED
    BY <2>1 DEF SoundInv, inRound, isSound, isEndpointAccessLost,
                isEndpointAccessible
<1>20. CASE UNCHANGED vars
  BY <1>20, <1>30 DEF vars
<1>21. QED
  BY <1>1, <1>2, <1>3, <1>4, <1>5, <1>6, <1>7, <1>8, <1>9, <1>10, <1>11, <1>12, <1>13,
      <1>14, <1>15, <1>16, <1>17, <1>18, <1>19, <1>20, <1>23, <1>24, <1>25,
      <1>26 DEF Next, Check, World, ReadPods

\* A sound node has found so in every reachable state.
LEMMA SoundHolds == Spec => []SoundInv
<1>1. Init => SoundInv
  BY DEF Init, SoundInv
<1>2. TypeOK /\ SoundInv /\ [Next]_vars => SoundInv'
  BY SoundKept
<1>3. QED
  BY <1>1, <1>2, TypeCorrect, PTL DEF Spec

\* A control plane node whose kubelet, endpoint and control plane peers are
\* accessible all the round is not rebooted without a remediation: not either in
\* the time after a start in which it takes itself for a worker.
THEOREM ControlPlaneKeepsRunning == Spec => ControlPlaneStays
<1> DEFINE Step == ControlPlaneNode /\ rebooting' /\ ~rebooting
                     => snrSeen \/ ~sound
<1>1. TypeOK /\ HistoryInv /\ RoleInv /\ SoundInv /\ [Next]_vars => [Step]_vars
  <2> SUFFICES ASSUME TypeOK, HistoryInv, RoleInv, SoundInv, Next,
                      ControlPlaneNode, rebooting', ~rebooting
               PROVE  snrSeen \/ ~sound
    OBVIOUS
  <2>1. \/ rebooting' = rebooting \/ rebooting' = FALSE
        \/ DecideWorker \/ DecideControlPlane
    BY DEF Next, Check, World, ReadPods, DeliverPod, UpdatePeers,
           InitializeManager, CheckSucceeds, CheckFails, SendBatch,
           ReceiveResponse, EvaluateBatch, AllPeersAsked, AskControlPlanes,
           DiagnoseEndpoint, StopAgent, StartAgent, Tick, ChangeLink,
           ChangePod, ChangeApi, ChangeSNR, ChangeControlPlanes,
           ChangeEndpoint, ChangeKubelet, Change
  <2>2. CASE DecideWorker
    <3>1. role = "unset"
      BY <2>2 DEF DecideWorker, IsControlPlane, TypeOK, RoleInv
    <3>2. response \in {"UnHealthyBecausePeersResponse",
                        "UnHealthyBecauseNodeIsIsolated"}
      BY <2>2 DEF DecideWorker, Idle
    <3>3. QED
      BY <3>1, <3>2 DEF RoleInv, HistoryInv
  <2>3. CASE DecideControlPlane
    <3>1. /\ ~IsControlPlaneHealthy
          /\ pc = "kubelet" \/ (pc = "judge" /\ ~needsDiagnostics)
      BY <2>3 DEF DecideControlPlane, Idle
    <3>2. ASSUME sound PROVE snrSeen
      <4>1. /\ reached /\ kubelet
            /\ pc = "kubelet" => ~endpointLost
        BY <3>1, <3>2 DEF SoundInv, inRound, isSound
      <4>2. needsDiagnostics => isDiagnosticsPassed
        BY <3>1, <4>1 DEF isDiagnosticsPassed
      <4>3. QED
        BY <3>1, <4>1, <4>2
           DEF IsControlPlaneHealthy, needsDiagnostics, HistoryInv
    <3>3. QED
      BY <3>2
  <2>4. QED
    BY <2>1, <2>2, <2>3
<1>2. QED
  BY <1>1, TypeCorrect, HistoryHolds, RoleHolds, SoundHolds, PTL
     DEF Spec, ControlPlaneStays

----------------------------------------------------------------------------
\* The silence, and how long a round takes.

\* The time of the batches adds up.
LEMMA BatchesTimeFacts ==
    /\ batchesTime(0) = 0
    /\ batchesTime(NrPeers) = GetNrOfBatches(NrPeers) * BatchTime
    /\ GetNrOfBatches(NrPeers) \in Nat
    /\ \A n \in 0 .. NrPeers - 1 :
         LET size == GetNextBatchSize(NrPeers, NrPeers - n)
         IN  batchesTime(n + size) = batchesTime(n) + BatchTime
<1> DEFINE f == NrOfBatches(NrPeers)
<1>0. NrPeers \in Nat /\ BatchTime \in Nat
  BY SizesAssumption
<1>1. /\ GetNrOfBatches(NrPeers) = f[NrPeers]
      /\ f[0] = 0
      /\ \A r \in 1 .. NrPeers :
           f[r] = 1 + f[r - GetNextBatchSize(NrPeers, r)]
      /\ \A r \in 0 .. NrPeers : f[r] \in Nat
  BY <1>0, NrOfBatchesFacts
<1>2. \A n : batchesTime(n) = (f[NrPeers] - f[NrPeers - n]) * BatchTime
  BY DEF batchesTime
<1> HIDE DEF f
<1>3. f[NrPeers] \in Nat /\ NrPeers - 0 = NrPeers /\ NrPeers - NrPeers = 0
  BY <1>0, <1>1
<1>4. batchesTime(0) = 0
  BY <1>0, <1>2, <1>3
<1>5. batchesTime(NrPeers) = GetNrOfBatches(NrPeers) * BatchTime
  BY <1>0, <1>1, <1>2, <1>3
<1>6. ASSUME NEW n \in 0 .. NrPeers - 1
      PROVE  LET size == GetNextBatchSize(NrPeers, NrPeers - n)
             IN  batchesTime(n + size) = batchesTime(n) + BatchTime
  <2> DEFINE size == GetNextBatchSize(NrPeers, NrPeers - n)
             a == f[NrPeers - n]
             b == f[NrPeers - (n + size)]
  <2>1. NrPeers - n \in 1 .. NrPeers
    BY <1>0
  <2>2. size \in 1 .. (NrPeers - n)
    BY <1>0, <2>1, NextBatchSizeFacts
  <2>3. f[NrPeers - n] = 1 + f[(NrPeers - n) - size]
    BY <1>1, <2>1
  <2> HIDE DEF size
  <2>4. (NrPeers - n) - size = NrPeers - (n + size)
    BY <1>0, <2>2
  <2>5. a \in Nat /\ b \in Nat /\ a = 1 + b
    BY <1>0, <1>1, <2>2, <2>3, <2>4
  <2>6. /\ batchesTime(n) = (f[NrPeers] - a) * BatchTime
        /\ batchesTime(n + size) = (f[NrPeers] - b) * BatchTime
    BY <1>2
  <2> HIDE DEF a, b
  <2>7. (f[NrPeers] - b) * BatchTime = (f[NrPeers] - a) * BatchTime + BatchTime
    <3>1. \A x, y \in Int : (x + 1) * y = x * y + y
      OBVIOUS
    <3>2. f[NrPeers] - b = (f[NrPeers] - a) + 1 /\ f[NrPeers] - a \in Int
      BY <1>3, <2>5
    <3>3. QED
      BY <1>0, <3>1, <3>2
  <2>8. QED
    BY <2>6, <2>7 DEF size
<1>7. QED
  BY <1>1, <1>3, <1>4, <1>5, <1>6

\* Whom the node may expect an answer from after a change of the world was one
\* before: an address is not found again in the middle of a round.
LEMMA AnswersKept ==
    ASSUME TypeOK, NEW p \in Peers, peersToAsk \in [Peers -> Addresses],
           steady' \subseteq steady, answers(p)',
           \/ peersToAsk' = peersToAsk
           \/ \E q : peersToAsk' = withoutAddress(peersToAsk, q)
    PROVE  answers(p)
BY DEF answers, withoutAddress

\* A step keeps the bound on the silence.
LEMMA SilenceKept ==
    ASSUME TypeOK, CountInv, HistoryInv, SilenceInv, [Next]_vars
    PROVE  SilenceInv'
<1> USE DEF world, manager, peers, counters, batch, round, judgement, history
<1>0. /\ NrPeers \in Nat /\ BatchTime \in Nat /\ MaxSilence \in Nat
      /\ asked \in Nat /\ silence \in Nat /\ batchAge \in Nat
      /\ batchAge <= BatchTime /\ Long \in Nat
  BY SizesAssumption DEF TypeOK, Long
<1>30. ASSUME UNCHANGED <<pc, silence, asked, pending, batchAge,
                          healthyResponses, unhealthyResponses,
                          apiErrorsResponses>>,
              steady' \subseteq steady,
              \/ peersToAsk' = peersToAsk
              \/ \E q : peersToAsk' = withoutAddress(peersToAsk, q)
       PROVE  SilenceInv'
  <2>1. /\ batchesTime(asked)' = batchesTime(asked) /\ responses' = responses
        /\ pc' = pc /\ silence' = silence /\ asked' = asked
        /\ pending' = pending /\ batchAge' = batchAge
    BY <1>30 DEF batchesTime, responses
  <2>2. ASSUME NEW q \in 1 .. asked, answers(q)', pc \in {"ask", "wait"}
        PROVE  answers(q)
    <3>1. q \in Peers
      BY <1>0 DEF TypeOK, Peers
    <3>2. peersToAsk \in [Peers -> Addresses]
      BY <2>2 DEF CountInv
    <3>3. QED
      BY <1>30, <2>2, <3>1, <3>2, AnswersKept
  <2>3. QED
    BY <2>1, <2>2 DEF SilenceInv
<1>1. CASE UpdatePeers
  <2>1. /\ UNCHANGED <<pc, silence, asked, pending, batchAge,
                       healthyResponses, unhealthyResponses,
                       apiErrorsResponses>>
        /\ steady' \subseteq steady
        /\ peersToAsk' = peersToAsk
    BY <1>1 DEF UpdatePeers
  <2>2. QED
    BY <1>30, <2>1
<1>2. CASE InitializeManager
  <2>1. /\ UNCHANGED <<pc, silence, asked, pending, batchAge,
                       healthyResponses, unhealthyResponses,
                       apiErrorsResponses>>
        /\ steady' \subseteq steady
        /\ peersToAsk' = peersToAsk
    BY <1>2 DEF InitializeManager
  <2>2. QED
    BY <1>30, <2>1
<1>3. CASE CheckSucceeds
  <2>1. pc' = "idle"
    BY <1>3 DEF CheckSucceeds
  <2>2. QED
    BY <2>1 DEF SilenceInv
<1>4. CASE CheckFails
  <2>1. pc' = "decide" \/ (pc' = "ask" /\ asked' = 0)
    BY <1>4 DEF CheckFails, Respond, NoBatch
  <2>2. CASE pc' = "ask"
    <3>1. asked' = 0
      BY <2>1, <2>2
    <3>2. batchesTime(asked)' = 0
      BY <3>1, BatchesTimeFacts DEF batchesTime
    <3>3. QED
      BY <2>2, <3>1, <3>2 DEF SilenceInv
  <2>3. QED
    BY <2>1, <2>2 DEF SilenceInv
<1>5. CASE SendBatch
  <2> DEFINE size == GetNextBatchSize(NrPeers, NrPeers - asked)
  <2>1. /\ pc = "ask" /\ asked < NrPeers /\ pc' = "wait"
        /\ pending' = (asked + 1) .. (asked + size) /\ asked' = asked + size
        /\ batchAge' = 0
        /\ peersToAsk' = peersToAsk /\ steady' = steady /\ silence' = silence
    BY <1>5, AllPeers DEF SendBatch
  <2>2. asked \in 0 .. NrPeers - 1 /\ NrPeers - asked \in 1 .. NrPeers
    BY <1>0, <2>1
  <2>3. size \in 1 .. (NrPeers - asked)
    BY <1>0, <2>2, NextBatchSizeFacts
  <2>4. batchesTime(asked)' = batchesTime(asked) + BatchTime
    <3>1. batchesTime(asked + size) = batchesTime(asked) + BatchTime
      BY <2>2, BatchesTimeFacts
    <3>2. batchesTime(asked)' = batchesTime(asked + size)
      BY <2>1 DEF batchesTime
    <3>3. QED
      BY <3>1, <3>2
  <2> HIDE DEF size
  <2>5. batchesTime(asked) \in Nat
    BY <2>1 DEF SilenceInv
  <2>6. ASSUME NEW q \in (1 .. asked') \ pending', answers(q)'
        PROVE  silence' + 2 * BatchTime <= batchesTime(asked)' + batchAge'
    <3>1. q \in 1 .. asked
      BY <1>0, <2>1, <2>3, <2>6
    <3>2. answers(q)
      BY <2>1, <2>6 DEF answers
    <3>3. silence + BatchTime <= batchesTime(asked)
      BY <2>1, <3>1, <3>2 DEF SilenceInv
    <3>4. silence + 2 * BatchTime <= batchesTime(asked) + BatchTime + 0
      BY <1>0, <2>5, <3>3
    <3>5. QED
      BY <2>1, <2>4, <3>4
  <2>7. batchesTime(asked)' \in Nat /\ batchesTime(asked)' >= BatchTime
    BY <1>0, <2>4, <2>5
  <2>8. QED
    BY <2>1, <2>6, <2>7 DEF SilenceInv
<1>6. ASSUME NEW p \in Peers, ReceiveResponse(p)
      PROVE  SilenceInv'
  <2>1. PICK r \in getHealthStatusFromPeer(p) :
          /\ healthyResponses'
               = healthyResponses + (IF r = "Healthy" THEN 1 ELSE 0)
          /\ unhealthyResponses'
               = unhealthyResponses + (IF r = "Unhealthy" THEN 1 ELSE 0)
          /\ apiErrorsResponses'
               = apiErrorsResponses + (IF r = "ApiError" THEN 1 ELSE 0)
    BY <1>6 DEF ReceiveResponse
  <2>2. /\ healthyResponses \in Nat /\ unhealthyResponses \in Nat
        /\ apiErrorsResponses \in Nat
    BY DEF TypeOK
  <2>3. /\ pc = "wait" /\ pc' = pc /\ pending' = pending \ {p}
        /\ peersToAsk' = peersToAsk /\ steady' = steady
        /\ silence' = silence /\ batchAge' = batchAge /\ asked' = asked
    BY <1>6 DEF ReceiveResponse
  <2>4. responses > 0 => responses' > 0
    BY <2>1, <2>2 DEF responses
  <2>5. ASSUME answers(p) PROVE responses' > 0
    <3>1. peersToAsk[p] = "none" \/ (peersToAsk[p] = "pod" /\ inReach(p))
      BY <2>5 DEF answers, HistoryInv
    <3>2. r \in {"Healthy", "Unhealthy", "ApiError"}
      BY <2>1, <3>1 DEF getHealthStatusFromPeer, IsHealthy
    <3>3. QED
      BY <2>1, <2>2, <3>2 DEF responses
  <2>6. batchesTime(asked)' = batchesTime(asked)
    BY <2>3 DEF batchesTime
  <2>7. ASSUME NEW q \in (1 .. asked') \ pending', answers(q)'
        PROVE  \/ responses' > 0
               \/ silence' + 2 * BatchTime <= batchesTime(asked)' + batchAge'
    <3>1. answers(q) /\ (q = p \/ q \in (1 .. asked) \ pending)
      BY <2>3, <2>7 DEF answers
    <3>2. CASE q = p
      BY <2>5, <3>1, <3>2
    <3>3. CASE q \in (1 .. asked) \ pending
      BY <2>3, <2>4, <2>6, <3>1, <3>3 DEF SilenceInv
    <3>4. QED
      BY <3>1, <3>2, <3>3
  <2>8. QED
    BY <2>3, <2>6, <2>7 DEF SilenceInv
<1>7. CASE EvaluateBatch
  <2>1. /\ pc = "wait" /\ pending = {}
        /\ peersToAsk' = peersToAsk /\ steady' = steady
        /\ silence' = IF responses > 0 THEN 0 ELSE silence
    BY <1>7 DEF EvaluateBatch, anyResponse, responses
  <2>2. pc' = "decide" \/ (pc' = "ask" /\ asked' = asked)
    BY <1>7 DEF EvaluateBatch, Respond
  <2>3. CASE pc' = "ask"
    <3>1. asked' = asked /\ batchesTime(asked)' = batchesTime(asked)
      BY <2>2, <2>3 DEF batchesTime
    <3>2. batchesTime(asked) \in Nat /\ batchesTime(asked) >= BatchTime
      BY <2>1 DEF SilenceInv
    <3>3. ASSUME NEW q \in 1 .. asked, answers(q)'
          PROVE  silence' + BatchTime <= batchesTime(asked)
      <4>1. answers(q) /\ q \in (1 .. asked) \ pending
        BY <2>1, <3>3 DEF answers
      <4>2. \/ responses > 0
            \/ silence + 2 * BatchTime <= batchesTime(asked) + batchAge
        BY <2>1, <4>1 DEF SilenceInv
      <4>3. CASE responses > 0
        BY <1>0, <2>1, <3>2, <4>3
      <4>4. CASE ~(responses > 0)
        BY <1>0, <2>1, <3>2, <4>2, <4>4
      <4>5. QED
        BY <4>3, <4>4
    <3>4. QED
      BY <2>3, <3>1, <3>2, <3>3 DEF SilenceInv
  <2>4. QED
    BY <2>2, <2>3 DEF SilenceInv
<1>8. CASE AllPeersAsked
  <2>1. pc' = "decide"
    BY <1>8 DEF AllPeersAsked, Respond
  <2>2. QED
    BY <2>1 DEF SilenceInv
<1>9. CASE DecideWorker
  <2>1. pc' = "idle"
    BY <1>9 DEF DecideWorker, Idle
  <2>2. QED
    BY <2>1 DEF SilenceInv
<1>10. CASE DecideControlPlane
  <2>1. pc' = "idle"
    BY <1>10 DEF DecideControlPlane, Idle
  <2>2. QED
    BY <2>1 DEF SilenceInv
<1>11. CASE StopAgent
  <2>1. pc' = "down"
    BY <1>11 DEF StopAgent
  <2>2. QED
    BY <2>1 DEF SilenceInv
<1>23. CASE StartAgent
  <2>1. pc' = "idle"
    BY <1>23 DEF StartAgent
  <2>2. QED
    BY <2>1 DEF SilenceInv
<1>24. ASSUME NEW p \in Peers, DeliverPod(p)
       PROVE  SilenceInv'
  <2>1. /\ UNCHANGED <<pc, silence, asked, pending, batchAge,
                       healthyResponses, unhealthyResponses,
                       apiErrorsResponses>>
        /\ steady' \subseteq steady
        /\ peersToAsk' = peersToAsk
    BY <1>24 DEF DeliverPod
  <2>2. QED
    BY <1>30, <2>1
<1>25. CASE AskControlPlanes
  <2>1. pc' = "judge"
    BY <1>25 DEF AskControlPlanes
  <2>2. QED
    BY <2>1 DEF SilenceInv
<1>26. CASE DiagnoseEndpoint
  <2>1. pc' = "kubelet"
    BY <1>26 DEF DiagnoseEndpoint
  <2>2. QED
    BY <2>1 DEF SilenceInv
<1>12. CASE Tick
  <2>1. /\ pc' = pc /\ asked' = asked /\ pending' = pending
        /\ peersToAsk' = peersToAsk /\ steady' = steady
        /\ responses' = responses /\ batchesTime(asked)' = batchesTime(asked)
    BY <1>12 DEF Tick, responses, batchesTime
  <2>2. /\ pc # "ask"
        /\ pc = "wait" => batchAge' = batchAge + 1
    BY <1>12 DEF Tick
  <2>3. silence' \in Nat /\ silence' <= silence + 1
    BY <1>0, <1>12 DEF Tick, later
  <2>4. CASE pc = "wait"
    <3>1. ASSUME NEW q \in (1 .. asked) \ pending, answers(q)'
          PROVE  \/ responses > 0
                 \/ silence' + 2 * BatchTime <= batchesTime(asked) + batchAge'
      <4>1. answers(q)
        BY <2>1, <3>1 DEF answers
      <4>2. \/ responses > 0
            \/ silence + 2 * BatchTime <= batchesTime(asked) + batchAge
        BY <2>4, <4>1 DEF SilenceInv
      <4>3. batchesTime(asked) \in Nat /\ batchAge' = batchAge + 1
        BY <2>2, <2>4 DEF SilenceInv
      <4>4. QED
        BY <1>0, <2>3, <4>2, <4>3
    <3>2. QED
      BY <2>1, <2>4, <3>1 DEF SilenceInv
  <2>5. QED
    BY <2>1, <2>2, <2>4 DEF SilenceInv
<1>13. ASSUME NEW p \in Peers, NEW l \in Links, ChangeLink(p, l)
      PROVE  SilenceInv'
  <2>1. /\ UNCHANGED <<pc, silence, asked, pending, batchAge,
                       healthyResponses, unhealthyResponses,
                       apiErrorsResponses>>
        /\ steady' \subseteq steady
        /\ peersToAsk' = peersToAsk
    BY <1>13 DEF ChangeLink, Change, Remember
  <2>2. QED
    BY <1>30, <2>1
<1>14. ASSUME NEW p \in Peers, NEW s \in Pods, ChangePod(p, s)
      PROVE  SilenceInv'
  <2>1. /\ UNCHANGED <<pc, silence, asked, pending, batchAge,
                       healthyResponses, unhealthyResponses,
                       apiErrorsResponses>>
        /\ steady' \subseteq steady
        /\ peersToAsk' = withoutAddress(peersToAsk, p)
    BY <1>14 DEF ChangePod, Remember
  <2>2. QED
    BY <1>30, <2>1
<1>15. CASE ChangeApi
  <2>1. /\ UNCHANGED <<pc, silence, asked, pending, batchAge,
                       healthyResponses, unhealthyResponses,
                       apiErrorsResponses>>
        /\ steady' \subseteq steady
        /\ peersToAsk' = peersToAsk
    BY <1>15 DEF ChangeApi, Change
  <2>2. QED
    BY <1>30, <2>1
<1>16. CASE ChangeSNR
  <2>1. /\ UNCHANGED <<pc, silence, asked, pending, batchAge,
                       healthyResponses, unhealthyResponses,
                       apiErrorsResponses>>
        /\ steady' \subseteq steady
        /\ peersToAsk' = peersToAsk
    BY <1>16 DEF ChangeSNR, Change
  <2>2. QED
    BY <1>30, <2>1
<1>17. CASE ChangeControlPlanes
  <2>1. /\ UNCHANGED <<pc, silence, asked, pending, batchAge,
                       healthyResponses, unhealthyResponses,
                       apiErrorsResponses>>
        /\ steady' \subseteq steady
        /\ peersToAsk' = peersToAsk
    BY <1>17 DEF ChangeControlPlanes, Change, RememberSound
  <2>2. QED
    BY <1>30, <2>1
<1>18. ASSUME NEW e \in Endpoints, ChangeEndpoint(e)
      PROVE  SilenceInv'
  <2>1. /\ UNCHANGED <<pc, silence, asked, pending, batchAge,
                       healthyResponses, unhealthyResponses,
                       apiErrorsResponses>>
        /\ steady' \subseteq steady
        /\ peersToAsk' = peersToAsk
    BY <1>18 DEF ChangeEndpoint, Change, RememberSound
  <2>2. QED
    BY <1>30, <2>1
<1>19. CASE ChangeKubelet
  <2>1. /\ UNCHANGED <<pc, silence, asked, pending, batchAge,
                       healthyResponses, unhealthyResponses,
                       apiErrorsResponses>>
        /\ steady' \subseteq steady
        /\ peersToAsk' = peersToAsk
    BY <1>19 DEF ChangeKubelet, Change, RememberSound
  <2>2. QED
    BY <1>30, <2>1
<1>20. CASE UNCHANGED vars
  BY <1>20, <1>30 DEF vars
<1>21. QED
  BY <1>1, <1>2, <1>3, <1>4, <1>5, <1>6, <1>7, <1>8, <1>9, <1>10, <1>11, <1>12, <1>13,
      <1>14, <1>15, <1>16, <1>17, <1>18, <1>19, <1>20, <1>23, <1>24, <1>25,
      <1>26 DEF Next, Check, World, ReadPods

\* The bound on the silence holds in every reachable state.
LEMMA SilenceHolds == Spec => []SilenceInv
<1>1. Init => SilenceInv
  BY DEF Init, SilenceInv
<1>2. TypeOK /\ CountInv /\ HistoryInv /\ SilenceInv /\ [Next]_vars
        => SilenceInv'
  BY SilenceKept
<1>3. QED
  BY <1>1, <1>2, Counted, HistoryHolds, PTL DEF Spec

\* A step keeps CutOffInv: the response is given once all peers were asked.
LEMMA CutOffKept ==
    ASSUME TypeOK, CountInv, HistoryInv, SilenceInv, CutOffInv, [Next]_vars
    PROVE  CutOffInv'
<1> USE DEF world, manager, peers, counters, batch, round, judgement, history
<1> DEFINE isolated == response = "UnHealthyBecauseNodeIsIsolated"
<1>30. ASSUME isolated' => isolated, steady' \subseteq steady,
              \/ peersToAsk' = peersToAsk
              \/ \E q : peersToAsk' = withoutAddress(peersToAsk, q)
       PROVE  CutOffInv'
  <2> SUFFICES ASSUME isolated' PROVE CutOffInv'
    BY DEF CutOffInv, IsolatedNodeIsCutOff
  <2>1. isolated /\ peersToAsk \in [Peers -> Addresses]
    BY <1>30 DEF CutOffInv
  <2>2. peersToAsk' \in [Peers -> Addresses]
    BY <1>30, <2>1, WithoutAddressType
  <2>3. ASSUME NEW q \in Peers, answers(q)'
        PROVE  answers(q)
    BY <1>30, <2>1, <2>3, AnswersKept
  <2>4. QED
    BY <2>1, <2>2, <2>3 DEF CutOffInv, IsolatedNodeIsCutOff
<1>31. ASSUME ~isolated' PROVE CutOffInv'
  BY <1>31 DEF CutOffInv, IsolatedNodeIsCutOff
<1>32. pc \notin {"decide", "judge", "kubelet"} => ~isolated
  BY DEF HistoryInv
<1>1. CASE UpdatePeers
  <2>1. /\ response' = response /\ steady' \subseteq steady
        /\ peersToAsk' = peersToAsk
    BY <1>1 DEF UpdatePeers
  <2>2. QED
    BY <1>30, <2>1
<1>2. CASE InitializeManager
  <2>1. /\ response' = response /\ steady' \subseteq steady
        /\ peersToAsk' = peersToAsk
    BY <1>2 DEF InitializeManager
  <2>2. QED
    BY <1>30, <2>1
<1>3. CASE CheckSucceeds
  <2>1. /\ response' = response /\ steady' \subseteq steady
        /\ peersToAsk' = peersToAsk
    BY <1>3 DEF CheckSucceeds
  <2>2. QED
    BY <1>30, <2>1
<1>4. CASE CheckFails
  <2>1. ~isolated'
    BY <1>4, <1>32 DEF CheckFails, Respond
  <2>2. QED
    BY <1>31, <2>1
<1>5. CASE SendBatch
  <2>1. /\ response' = response /\ steady' \subseteq steady
        /\ peersToAsk' = peersToAsk
    BY <1>5 DEF SendBatch
  <2>2. QED
    BY <1>30, <2>1
<1>6. ASSUME NEW p \in Peers, ReceiveResponse(p)
      PROVE  CutOffInv'
  <2>1. /\ response' = response /\ steady' \subseteq steady
        /\ peersToAsk' = peersToAsk
    BY <1>6 DEF ReceiveResponse
  <2>2. QED
    BY <1>30, <2>1
<1>7. CASE EvaluateBatch
  <2>1. ~isolated'
    BY <1>7, <1>32 DEF EvaluateBatch, Respond
  <2>2. QED
    BY <1>31, <2>1
<1>8. CASE AllPeersAsked
  <2> SUFFICES ASSUME isolated' PROVE CutOffInv'
    BY <1>31
  <2>1. /\ pc = "ask" /\ asked = nrAllPeers /\ peersToAsk' = peersToAsk
        /\ steady' = steady /\ silence > MaxSilence
    BY <1>8 DEF AllPeersAsked, Respond, isSilent
  <2>2. asked = NrPeers
    BY <2>1, AllPeers
  <2>3. peersToAsk \in [Peers -> Addresses]
    BY <2>1 DEF CountInv
  <2> DEFINE n == GetNrOfBatches(NrPeers)
  <2>4. ASSUME (n - 1) * BatchTime <= MaxSilence,
               NEW q \in Peers, answers(q)'
        PROVE  FALSE
    <3>1. q \in 1 .. asked /\ answers(q)
      BY <2>1, <2>2, <2>4 DEF answers, Peers
    <3>2. silence + BatchTime <= batchesTime(asked)
      BY <2>1, <3>1 DEF SilenceInv
    <3>3. batchesTime(asked) = n * BatchTime /\ n \in Nat
      BY <2>2, BatchesTimeFacts
    <3>4. /\ BatchTime \in Nat /\ MaxSilence \in Nat /\ silence \in Nat
      BY SizesAssumption DEF TypeOK, Long
    <3> HIDE DEF n
    <3>5. \A x \in Nat, y \in Nat : (x - 1) * y = x * y - y
      OBVIOUS
    <3>6. (n - 1) * BatchTime = n * BatchTime - BatchTime
      BY <3>3, <3>4, <3>5
    <3> DEFINE t == n * BatchTime
    <3>7. t \in Int
      BY <3>3, <3>4
    <3>8. silence + BatchTime <= t /\ t - BatchTime <= MaxSilence
      BY <2>4, <3>2, <3>3, <3>6
    <3> HIDE DEF t
    <3>9. QED
      BY <2>1, <3>4, <3>7, <3>8
  <2>5. QED
    BY <2>1, <2>3, <2>4 DEF CutOffInv, IsolatedNodeIsCutOff
<1>9. CASE DecideWorker
  <2>1. ~isolated'
    BY <1>9, <1>32 DEF DecideWorker, Idle, NoJudgement
  <2>2. QED
    BY <1>31, <2>1
<1>10. CASE DecideControlPlane
  <2>1. ~isolated'
    BY <1>10, <1>32 DEF DecideControlPlane, Idle, NoJudgement
  <2>2. QED
    BY <1>31, <2>1
<1>11. CASE StopAgent
  <2>1. ~isolated'
    BY <1>11 DEF StopAgent, NoJudgement
  <2>2. QED
    BY <1>31, <2>1
<1>23. CASE StartAgent
  <2>1. /\ response' = response /\ steady' \subseteq steady
        /\ peersToAsk' = peersToAsk
    BY <1>23 DEF StartAgent
  <2>2. QED
    BY <1>30, <2>1
<1>24. ASSUME NEW p \in Peers, DeliverPod(p)
       PROVE  CutOffInv'
  <2>1. /\ response' = response /\ steady' \subseteq steady
        /\ peersToAsk' = peersToAsk
    BY <1>24 DEF DeliverPod
  <2>2. QED
    BY <1>30, <2>1
<1>25. CASE AskControlPlanes
  <2>1. /\ response' = response /\ steady' \subseteq steady
        /\ peersToAsk' = peersToAsk
    BY <1>25 DEF AskControlPlanes
  <2>2. QED
    BY <1>30, <2>1
<1>26. CASE DiagnoseEndpoint
  <2>1. /\ response' = response /\ steady' \subseteq steady
        /\ peersToAsk' = peersToAsk
    BY <1>26 DEF DiagnoseEndpoint
  <2>2. QED
    BY <1>30, <2>1
<1>12. CASE Tick
  <2>1. /\ response' = response /\ steady' \subseteq steady
        /\ peersToAsk' = peersToAsk
    BY <1>12 DEF Tick
  <2>2. QED
    BY <1>30, <2>1
<1>13. ASSUME NEW p \in Peers, NEW l \in Links, ChangeLink(p, l)
      PROVE  CutOffInv'
  <2>1. /\ response' = response /\ steady' \subseteq steady
        /\ peersToAsk' = peersToAsk
    BY <1>13 DEF ChangeLink, Change, Remember
  <2>2. QED
    BY <1>30, <2>1
<1>14. ASSUME NEW p \in Peers, NEW s \in Pods, ChangePod(p, s)
      PROVE  CutOffInv'
  <2>1. /\ response' = response /\ steady' \subseteq steady
        /\ peersToAsk' = withoutAddress(peersToAsk, p)
    BY <1>14 DEF ChangePod, Remember
  <2>2. QED
    BY <1>30, <2>1
<1>15. CASE ChangeApi
  <2>1. /\ response' = response /\ steady' \subseteq steady
        /\ peersToAsk' = peersToAsk
    BY <1>15 DEF ChangeApi, Change
  <2>2. QED
    BY <1>30, <2>1
<1>16. CASE ChangeSNR
  <2>1. /\ response' = response /\ steady' \subseteq steady
        /\ peersToAsk' = peersToAsk
    BY <1>16 DEF ChangeSNR, Change
  <2>2. QED
    BY <1>30, <2>1
<1>17. CASE ChangeControlPlanes
  <2>1. /\ response' = response /\ steady' \subseteq steady
        /\ peersToAsk' = peersToAsk
    BY <1>17 DEF ChangeControlPlanes, Change, RememberSound
  <2>2. QED
    BY <1>30, <2>1
<1>18. ASSUME NEW e \in Endpoints, ChangeEndpoint(e)
      PROVE  CutOffInv'
  <2>1. /\ response' = response /\ steady' \subseteq steady
        /\ peersToAsk' = peersToAsk
    BY <1>18 DEF ChangeEndpoint, Change, RememberSound
  <2>2. QED
    BY <1>30, <2>1
<1>19. CASE ChangeKubelet
  <2>1. /\ response' = response /\ steady' \subseteq steady
        /\ peersToAsk' = peersToAsk
    BY <1>19 DEF ChangeKubelet, Change, RememberSound
  <2>2. QED
    BY <1>30, <2>1
<1>20. CASE UNCHANGED vars
  BY <1>20, <1>30 DEF vars
<1>21. QED
  BY <1>1, <1>2, <1>3, <1>4, <1>5, <1>6, <1>7, <1>8, <1>9, <1>10, <1>11, <1>12, <1>13,
      <1>14, <1>15, <1>16, <1>17, <1>18, <1>19, <1>20, <1>23, <1>24, <1>25,
      <1>26 DEF Next, Check, World, ReadPods

\* A node does not take itself for isolated while a peer whose address it has
\* is in reach all the time that it asks, nor while one is listed without address,
\* provided that a round without its first batch is no longer than the silence
\* which is tolerated.
THEOREM IsolationIsReal == Spec => []IsolatedNodeIsCutOff
<1>1. Init => CutOffInv
  BY DEF Init, CutOffInv, IsolatedNodeIsCutOff
<1>2. TypeOK /\ CountInv /\ HistoryInv /\ SilenceInv /\ CutOffInv
        /\ [Next]_vars => CutOffInv'
  BY CutOffKept
<1>3. CutOffInv => IsolatedNodeIsCutOff
  BY DEF CutOffInv
<1>4. QED
  BY <1>1, <1>2, <1>3, Counted, HistoryHolds, SilenceHolds, PTL DEF Spec

============================================================================
