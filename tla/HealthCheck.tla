---------------------------- MODULE HealthCheck ----------------------------
(***************************************************************************)
(* How a node finds out that it is unhealthy: the agent's check of its     *)
(* connection to the API server (pkg/apicheck/check.go), the list of peers *)
(* it asks (pkg/peers/peers.go), the answer of a peer                      *)
(* (pkg/peerhealth/server.go), and what a control plane node makes of the  *)
(* answers (pkg/controlplane/manager.go).                                  *)
(*                                                                         *)
(* The node checks the API server again and again.  After Threshold        *)
(* failures it asks its worker peers, batch after batch; the requests of a *)
(* batch run concurrently and each is answered, or fails, at its own time, *)
(* while the network, the API server, the remediation (SNR) of the node    *)
(* and the pods of the peers change.  Time is counted in ticks.            *)
(***************************************************************************)
EXTENDS Batches, FiniteSets

CONSTANTS
    NrPeers,           \* worker nodes other than this one
    Threshold,         \* MaxErrorsThreshold
    Interval,          \* CheckInterval, in ticks
    BatchTime,         \* the most ticks a batch takes: dial and request timeout
    MaxSilence,        \* MaxTimeForNoPeersResponse, in ticks
    ControlPlaneNode,  \* this node has the control plane role
    Links,             \* states that the connection to a peer may be in
    Pods,              \* states that the agent pod of a peer may be in
    Changes            \* what changes in the world, see ChangeKinds

AllLinks == {"up", "noApi", "down"}
AllPods == {"ready", "noIP", "absent"}
ChangeKinds == {"api", "snr", "link", "pod", "matchError", "controlPlane",
                "endpoint", "kubelet", "restart"}

ASSUME SizesAssumption ==
    /\ NrPeers \in Nat /\ Threshold \in Nat \ {0} /\ Interval \in Nat
    /\ BatchTime \in Nat /\ MaxSilence \in Nat \ {0}
ASSUME SettingsAssumption ==
    /\ ControlPlaneNode \in BOOLEAN
    /\ Links \subseteq AllLinks /\ Links # {}
    /\ "ready" \in Pods /\ Pods \subseteq AllPods
    /\ Changes \subseteq ChangeKinds

Peers == 1 .. NrPeers

Reasons == {"HealthyBecauseCRNotFound",
            "HealthyBecauseErrorsThresholdNotReached",
            "HealthyBecauseNoPeersResponseNotReachedTimeout",
            "HealthyBecauseNoPeersWereFound",
            "HealthyBecauseMostPeersCantAccessAPIServer",
            "UnHealthyBecausePeersResponse",
            "UnHealthyBecauseNodeIsIsolated"}

\* A ping to the endpoint can be sent, answered or not, or cannot be sent.
Endpoints == {"reachable", "unreachable"}

\* What a list of peers has of each: the address of its agent's pod, the one
\* of a pod that is gone since, or none.
Addresses == {"pod", "old", "none"}

VARIABLES
    api, snr,           \* the node reaches the API server / its SNR exists
    link, pod,          \* connection to, and agent pod of, each peer
    otherControlPlanes, \* somebody on the list of control plane peers answers
    endpoint, kubelet,  \* what the diagnostics look at
    role,               \* manager.nodeRole
    accessibleAtStart,  \* manager.wasEndpointAccessibleAtStart
    cachedPods,         \* the agents' pods in the cache that peers are read from
    addresses,          \* workerPeersAddresses: empty, or one of each peer
    updating,           \* the loop of Peers.Start runs
    pc,                 \* where the check is
    untilCheck,         \* ticks until the next check
    errorCount,         \* at Threshold and above: Threshold
    silence,            \* ticks since timeOfLastPeerResponse, up to Long
    peersToAsk,         \* the copy of the addresses that a round works on
    asked,              \* peers 1 .. asked were taken off it
    pending,            \* peers of the batch that have not answered
    batchAge,           \* ticks since the batch was sent
    healthyResponses, unhealthyResponses, apiErrorsResponses,
    apiErrorsResponsesSum,
    response,           \* reason of the workers' response
    reached,            \* what canOtherControlPlanesBeReached returned
    endpointLost,       \* what isEndpointAccessLost returned
    rebooting,          \* Reboot was called
    snrSeen, snrMissing, \* history: in this round the SNR existed / did not
    steady, sound       \* history: peers in reach, and whether the node was
                        \* sound, all the round

world == <<api, snr, link, pod, otherControlPlanes, endpoint, kubelet>>
manager == <<role, accessibleAtStart>>
peers == <<cachedPods, addresses, updating>>
counters == <<untilCheck, errorCount, silence>>
batch == <<asked, pending, batchAge, healthyResponses, unhealthyResponses,
           apiErrorsResponses>>
judgement == <<reached, endpointLost>>
round == <<peersToAsk, batch, apiErrorsResponsesSum, response, judgement>>
history == <<snrSeen, snrMissing, steady, sound>>
vars == <<world, manager, peers, pc, counters, round, rebooting, history>>

\* Times beyond MaxSilence are not told apart.
Long == MaxSilence + 1
later(t) == IF t < Long THEN t + 1 ELSE t

NoAddresses == [p \in {} |-> "none"]

running == pc # "down"
inRound == pc \notin {"down", "idle"}

----------------------------------------------------------------------------
\* Peers: the list, and the answer of a peer.

\* A pod as the API server has it; a node may have none.
podSeen(p) == CASE pod[p] = "ready" -> "pod"
                [] pod[p] = "noIP" -> "noIP"
                [] pod[p] = "absent" -> "none"

\* The informer's cache follows while the node reaches the API server.
DeliverPod(p) ==
    /\ running /\ api /\ cachedPods[p] # podSeen(p)
    /\ cachedPods' = [cachedPods EXCEPT ![p] = podSeen(p)]
    /\ UNCHANGED <<world, manager, addresses, updating, pc, counters, round,
                   rebooting, history>>

\* updatePeers for the workers fails on a pod that has no IP yet.
updatePeersFails == \E p \in Peers : cachedPods[p] = "noIP"

\* The loop of Start: the error of the workers' update stops the loop but is
\* overwritten by the result of the control planes' update, which is nil.  A
\* node whose pod is missing is listed without address.
UpdatePeers ==
    /\ running /\ updating
    /\ IF updatePeersFails
       THEN updating' = FALSE /\ UNCHANGED addresses
       ELSE addresses' = cachedPods /\ UNCHANGED updating
    /\ UNCHANGED <<world, manager, cachedPods, pc, counters, round, rebooting,
                   history>>

\* Mutant: a peer that cannot list the SNRs assumes that there is one.
IsHealthyAssumed(apiLost) ==
    IF snr \/ apiLost THEN {"Unhealthy"} ELSE {"Healthy"}

\* Mutant: a peer that cannot list the SNRs finds none.
IsHealthyUnseen(apiLost) ==
    IF snr /\ ~apiLost THEN {"Unhealthy"} ELSE {"Healthy"}

\* The answers of a server that is reached: the SNRs are listed from the API
\* server, and an SNR that cannot be matched with a node is passed over.
IsHealthy(apiLost) ==
    IF apiLost THEN {"ApiError"}
    ELSE IF ~snr THEN {"Healthy"}
    ELSE IF "matchError" \in Changes THEN {"Unhealthy", "Healthy"}
    ELSE {"Unhealthy"}

inReach(p) == pod[p] = "ready" /\ link[p] # "down"

\* What getHealthStatusFromPeer reports.  popPeerIPs leaves an empty address in
\* the batch for a peer that has none, and ":port" is dialled, which is the
\* node's own server: it listens there, and the certificate is the same on all
\* nodes.  A peer that is out of reach, or moved, gives no answer.
getHealthStatusFromPeer(p) ==
    IF peersToAsk[p] = "none" THEN IsHealthy(~api)
    ELSE IF peersToAsk[p] = "pod" /\ inReach(p) THEN IsHealthy(link[p] = "noApi")
    ELSE {"RequestFailed"}

----------------------------------------------------------------------------
\* The control plane manager.

\* The ping fails only when it cannot be sent: an endpoint that does not
\* reply is taken for accessible.
isEndpointAccessible == endpoint # "unreachable"

isEndpointAccessLost == accessibleAtStart /\ ~isEndpointAccessible

\* The ping has ended when the kubelet is asked.
isDiagnosticsPassed == ~endpointLost /\ kubelet

\* Until it has run the node counts as a worker.
InitializeManager ==
    /\ running /\ role = "unset"
    /\ role' = IF ControlPlaneNode THEN "ControlPlane" ELSE "Worker"
    /\ accessibleAtStart' = isEndpointAccessible
    /\ UNCHANGED <<world, peers, pc, counters, round, rebooting, history>>

IsControlPlane == role = "ControlPlane"

\* Mutant: the other control planes do not count.
IsControlPlaneHealthyAlone ==
    /\ response \notin {"UnHealthyBecausePeersResponse",
                        "UnHealthyBecauseNodeIsIsolated"}
    /\ response \in {"HealthyBecauseMostPeersCantAccessAPIServer",
                     "HealthyBecauseNoPeersWereFound"}
         => isDiagnosticsPassed

IsControlPlaneHealthy ==
    /\ response # "UnHealthyBecausePeersResponse"
    /\ response \in {"UnHealthyBecauseNodeIsIsolated",
                     "HealthyBecauseNoPeersWereFound"} => reached
    /\ response \in {"HealthyBecauseMostPeersCantAccessAPIServer",
                     "HealthyBecauseNoPeersWereFound"}
         => isDiagnosticsPassed

----------------------------------------------------------------------------
\* The check.

NoBatch ==
    /\ asked' = 0 /\ pending' = {} /\ batchAge' = 0
    /\ healthyResponses' = 0 /\ unhealthyResponses' = 0
    /\ apiErrorsResponses' = 0

\* The workers' response is known.
Respond(reason) ==
    /\ NoBatch
    /\ response' = reason
    /\ pc' = "decide"

NoJudgement ==
    /\ peersToAsk' = NoAddresses /\ apiErrorsResponsesSum' = 0
    /\ response' = "none" /\ reached' = FALSE /\ endpointLost' = FALSE
    /\ snrSeen' = FALSE /\ snrMissing' = FALSE
    /\ steady' = {} /\ sound' = FALSE

Idle(healthy) ==
    /\ pc' = "idle" /\ untilCheck' = Interval
    /\ NoJudgement
    /\ rebooting' = (rebooting \/ ~healthy)

\* Nothing is wrong with a control plane node but its workers and the API server.
isSound == otherControlPlanes /\ kubelet /\ ~isEndpointAccessLost

\* The API server answers the readyz request.
CheckSucceeds ==
    /\ pc = "idle" /\ untilCheck = 0 /\ api
    /\ errorCount' = 0 /\ untilCheck' = Interval
    /\ UNCHANGED <<world, manager, peers, pc, silence, round, rebooting,
                   history>>

reachesThreshold == errorCount + 1 >= Threshold

\* It does not: getWorkerPeersResponse up to the loop.
CheckFails ==
    /\ pc = "idle" /\ untilCheck = 0 /\ ~api
    /\ errorCount' = AtMost(Threshold, errorCount + 1)
    /\ snrSeen' = snr /\ snrMissing' = ~snr
    /\ steady' = {p \in Peers : inReach(p)} /\ sound' = isSound
    /\ \/ /\ ~reachesThreshold
          /\ Respond("HealthyBecauseErrorsThresholdNotReached")
          /\ UNCHANGED peersToAsk
       \/ /\ reachesThreshold /\ addresses = NoAddresses
          /\ Respond("HealthyBecauseNoPeersWereFound")
          /\ UNCHANGED peersToAsk
       \/ /\ reachesThreshold /\ addresses # NoAddresses
          /\ pc' = "ask"
          /\ peersToAsk' = addresses
          /\ NoBatch /\ UNCHANGED response
    /\ UNCHANGED <<world, manager, peers, untilCheck, silence,
                   apiErrorsResponsesSum, judgement, rebooting>>

nrAllPeers == Cardinality(DOMAIN peersToAsk)

\* The top of the loop: the next batch is sent.
SendBatch ==
    /\ pc = "ask" /\ asked < nrAllPeers
    /\ LET size == GetNextBatchSize(nrAllPeers, nrAllPeers - asked)
       IN  /\ pending' = (asked + 1) .. (asked + size)
           /\ asked' = asked + size
    /\ batchAge' = 0
    /\ healthyResponses' = 0 /\ unhealthyResponses' = 0
    /\ apiErrorsResponses' = 0
    /\ pc' = "wait"
    /\ UNCHANGED <<world, manager, peers, counters, apiErrorsResponsesSum,
                   peersToAsk, response, judgement, rebooting, history>>

\* sumPeersResponses takes one response from the channel.
ReceiveResponse(p) ==
    /\ pc = "wait" /\ p \in pending
    /\ pending' = pending \ {p}
    /\ \E r \in getHealthStatusFromPeer(p) :
         /\ healthyResponses' = healthyResponses + (IF r = "Healthy" THEN 1 ELSE 0)
         /\ unhealthyResponses' = unhealthyResponses + (IF r = "Unhealthy" THEN 1 ELSE 0)
         /\ apiErrorsResponses' = apiErrorsResponses + (IF r = "ApiError" THEN 1 ELSE 0)
    /\ UNCHANGED <<world, manager, peers, pc, counters, asked, batchAge,
                   peersToAsk, apiErrorsResponsesSum, response, judgement,
                   rebooting, history>>

\* Mutant: an answer that reports an API error is not taken for an answer.
anyResponseDecisive == healthyResponses + unhealthyResponses > 0

\* Mutant: the time is renewed by every batch.
anyResponseAlways == TRUE

anyResponse == healthyResponses + unhealthyResponses + apiErrorsResponses > 0

\* Mutant: the majority is one of the peers that have an address.
mostPeersCantAccessAddressed(sum) ==
    sum > Cardinality({p \in Peers : peersToAsk[p] # "none"}) \div 2

mostPeersCantAccess(sum) == sum > nrAllPeers \div 2

\* The rest of the loop, once the batch is complete.
EvaluateBatch ==
    /\ pc = "wait" /\ pending = {}
    /\ silence' = IF anyResponse THEN 0 ELSE silence
    /\ LET sum == apiErrorsResponsesSum + apiErrorsResponses
       IN  \/ /\ healthyResponses > 0
              /\ errorCount' = 0
              /\ Respond("HealthyBecauseCRNotFound")
              /\ UNCHANGED apiErrorsResponsesSum
           \/ /\ healthyResponses = 0 /\ unhealthyResponses > 0
              /\ Respond("UnHealthyBecausePeersResponse")
              /\ UNCHANGED <<errorCount, apiErrorsResponsesSum>>
           \/ /\ healthyResponses = 0 /\ unhealthyResponses = 0
              /\ apiErrorsResponses > 0 /\ mostPeersCantAccess(sum)
              /\ Respond("HealthyBecauseMostPeersCantAccessAPIServer")
              /\ apiErrorsResponsesSum' = sum
              /\ UNCHANGED errorCount
           \/ /\ healthyResponses = 0 /\ unhealthyResponses = 0
              /\ ~(apiErrorsResponses > 0 /\ mostPeersCantAccess(sum))
              /\ pc' = "ask"
              /\ apiErrorsResponsesSum' = sum
              /\ UNCHANGED <<errorCount, batch, response>>
    /\ UNCHANGED <<world, manager, peers, untilCheck, peersToAsk, judgement,
                   rebooting, history>>

isSilent == silence > MaxSilence

\* After the loop: all peers were asked.
AllPeersAsked ==
    /\ pc = "ask" /\ asked = nrAllPeers
    /\ Respond(IF isSilent THEN "UnHealthyBecauseNodeIsIsolated"
               ELSE "HealthyBecauseNoPeersResponseNotReachedTimeout")
    /\ UNCHANGED <<world, manager, peers, counters, peersToAsk,
                   apiErrorsResponsesSum, judgement, rebooting, history>>

\* isConsideredHealthy of a worker, and Reboot.
DecideWorker ==
    /\ pc = "decide" /\ ~IsControlPlane
    /\ Idle(response \notin {"UnHealthyBecausePeersResponse",
                             "UnHealthyBecauseNodeIsIsolated"})
    /\ UNCHANGED <<world, manager, peers, errorCount, silence, batch>>

\* isConsideredHealthy of a control plane: canOtherControlPlanesBeReached
\* comes first, whatever the workers said, and takes its time.
AskControlPlanes ==
    /\ pc = "decide" /\ IsControlPlane
    /\ reached' = otherControlPlanes
    /\ pc' = "judge"
    /\ UNCHANGED <<world, manager, peers, counters, peersToAsk, batch,
                   apiErrorsResponsesSum, response, endpointLost, rebooting,
                   history>>

needsDiagnostics == response \in {"HealthyBecauseMostPeersCantAccessAPIServer",
                                  "HealthyBecauseNoPeersWereFound"}

\* The first half of the diagnostics.
DiagnoseEndpoint ==
    /\ pc = "judge" /\ needsDiagnostics
    /\ endpointLost' = isEndpointAccessLost
    /\ pc' = "kubelet"
    /\ UNCHANGED <<world, manager, peers, counters, peersToAsk, batch,
                   apiErrorsResponsesSum, response, reached, rebooting,
                   history>>

\* The second half, if any, the verdict and Reboot.
DecideControlPlane ==
    /\ pc = "kubelet" \/ (pc = "judge" /\ ~needsDiagnostics)
    /\ Idle(IsControlPlaneHealthy)
    /\ UNCHANGED <<world, manager, peers, errorCount, silence, batch>>

Check ==
    \/ CheckSucceeds \/ CheckFails \/ SendBatch
    \/ \E p \in Peers : ReceiveResponse(p)
    \/ EvaluateBatch \/ AllPeersAsked \/ DecideWorker
    \/ AskControlPlanes \/ DiagnoseEndpoint \/ DecideControlPlane

----------------------------------------------------------------------------
\* The agent's process, time and the world.

\* The agent's process ends: a crash, a stop or the reboot.
StopAgent ==
    /\ running
    /\ rebooting \/ "restart" \in Changes
    /\ pc' = "down"
    /\ role' = "unset" /\ accessibleAtStart' = FALSE
    /\ cachedPods' = [p \in Peers |-> "none"]
    /\ addresses' = NoAddresses /\ updating' = FALSE
    /\ untilCheck' = 0 /\ errorCount' = 0 /\ silence' = 0
    /\ NoBatch /\ NoJudgement
    /\ rebooting' = FALSE
    /\ UNCHANGED world

\* A new process fills its caches first, for which it needs the API server.
StartAgent ==
    /\ ~running /\ api
    /\ pc' = "idle"
    /\ cachedPods' = [p \in Peers |-> podSeen(p)]
    /\ updating' = TRUE
    /\ UNCHANGED <<world, manager, addresses, counters, round, rebooting,
                   history>>

\* Requests to workers end in time; what takes no time does not wait for a
\* tick, and so the role is known before time passes: what it is read from is
\* the cache without which there are no addresses either.
Tick ==
    /\ role # "unset"
    /\ \/ pc = "idle" /\ untilCheck > 0
       \/ pc = "wait" /\ pending # {} /\ batchAge < BatchTime
       \/ pc \in {"decide", "judge", "kubelet"} /\ IsControlPlane
    /\ untilCheck' = IF untilCheck > 0 THEN untilCheck - 1 ELSE 0
    /\ batchAge' = IF pc = "wait" THEN batchAge + 1 ELSE batchAge
    /\ silence' = later(silence)
    /\ UNCHANGED <<world, manager, peers, pc, errorCount, peersToAsk, asked,
                   pending,
                   healthyResponses, unhealthyResponses, apiErrorsResponses,
                   apiErrorsResponsesSum, response, judgement, rebooting,
                   history>>

\* What a change of the connections, and one of what the control plane manager
\* looks at, means to the history.
Remember ==
    /\ steady' = {p \in steady : inReach(p)'}
    /\ UNCHANGED <<snrSeen, snrMissing, sound>>
RememberSound ==
    /\ sound' = (sound /\ isSound')
    /\ UNCHANGED <<snrSeen, snrMissing, steady>>

Change(kind) ==
    /\ kind \in Changes
    /\ UNCHANGED <<manager, peers, pc, counters, round, rebooting>>

ChangeLink(p, l) ==
    /\ Change("link") /\ l # link[p]
    /\ link' = [link EXCEPT ![p] = l]
    /\ UNCHANGED <<api, snr, pod, otherControlPlanes, endpoint, kubelet>>
    /\ Remember

\* The address of a pod leads nowhere once the pod is gone: the pod that
\* follows has another one.
withoutAddress(list, p) ==
    [q \in DOMAIN list |-> IF q = p /\ list[q] = "pod" THEN "old" ELSE list[q]]

ChangePod(p, s) ==
    /\ "pod" \in Changes /\ s # pod[p]
    /\ pod' = [pod EXCEPT ![p] = s]
    /\ cachedPods' = withoutAddress(cachedPods, p)
    /\ addresses' = withoutAddress(addresses, p)
    /\ peersToAsk' = withoutAddress(peersToAsk, p)
    /\ UNCHANGED <<api, snr, link, otherControlPlanes, endpoint, kubelet,
                   manager, updating, pc, counters, batch,
                   apiErrorsResponsesSum, response, judgement, rebooting>>
    /\ Remember

ChangeApi ==
    /\ Change("api")
    /\ api' = ~api
    /\ UNCHANGED <<snr, link, pod, otherControlPlanes, endpoint, kubelet,
                   history>>

ChangeSNR ==
    /\ Change("snr")
    /\ snr' = ~snr
    /\ snrSeen' = (snrSeen \/ inRound) /\ snrMissing' = (snrMissing \/ inRound)
    /\ UNCHANGED <<api, link, pod, otherControlPlanes, endpoint, kubelet,
                   steady, sound>>

ChangeControlPlanes ==
    /\ Change("controlPlane")
    /\ otherControlPlanes' = ~otherControlPlanes
    /\ UNCHANGED <<api, snr, link, pod, endpoint, kubelet>>
    /\ RememberSound

ChangeEndpoint(e) ==
    /\ Change("endpoint") /\ e # endpoint
    /\ endpoint' = e
    /\ UNCHANGED <<api, snr, link, pod, otherControlPlanes, kubelet>>
    /\ RememberSound

ChangeKubelet ==
    /\ Change("kubelet")
    /\ kubelet' = ~kubelet
    /\ UNCHANGED <<api, snr, link, pod, otherControlPlanes, endpoint>>
    /\ RememberSound

World ==
    \/ \E p \in Peers, l \in Links : ChangeLink(p, l)
    \/ \E p \in Peers, s \in Pods : ChangePod(p, s)
    \/ ChangeApi \/ ChangeSNR \/ ChangeControlPlanes
    \/ \E e \in Endpoints : ChangeEndpoint(e)
    \/ ChangeKubelet

Init ==
    /\ api = TRUE /\ snr = FALSE
    /\ link \in [Peers -> Links] /\ pod \in [Peers -> Pods]
    /\ otherControlPlanes = TRUE /\ endpoint = "reachable" /\ kubelet = TRUE
    /\ role = "unset" /\ accessibleAtStart = FALSE
    /\ cachedPods = [p \in Peers |-> podSeen(p)]
    /\ addresses = NoAddresses /\ updating = TRUE
    /\ pc = "idle" /\ untilCheck = 0 /\ errorCount = 0 /\ silence = 0
    /\ peersToAsk = NoAddresses
    /\ asked = 0 /\ pending = {} /\ batchAge = 0
    /\ healthyResponses = 0 /\ unhealthyResponses = 0
    /\ apiErrorsResponses = 0 /\ apiErrorsResponsesSum = 0
    /\ response = "none" /\ reached = FALSE /\ endpointLost = FALSE
    /\ rebooting = FALSE
    /\ snrSeen = FALSE /\ snrMissing = FALSE /\ steady = {} /\ sound = FALSE

ReadPods == \E p \in Peers : DeliverPod(p)

Next ==
    \/ ReadPods \/ UpdatePeers \/ InitializeManager \/ Check
    \/ StopAgent \/ StartAgent \/ Tick \/ World

Spec == Init /\ [][Next]_vars

\* Goroutines are scheduled, requests end by their timeouts, time passes,
\* watches deliver, and the kubelet starts the agent again.
Fairness ==
    /\ WF_vars(ReadPods) /\ WF_vars(UpdatePeers) /\ WF_vars(InitializeManager)
    /\ WF_vars(Check) /\ WF_vars(StartAgent) /\ WF_vars(Tick)

FairSpec == Spec /\ Fairness

----------------------------------------------------------------------------
\* Properties.

\* Every variable has its type.
TypeOK ==
    /\ api \in BOOLEAN /\ snr \in BOOLEAN
    /\ link \in [Peers -> Links] /\ pod \in [Peers -> Pods]
    /\ otherControlPlanes \in BOOLEAN
    /\ endpoint \in Endpoints /\ kubelet \in BOOLEAN
    /\ role \in {"unset", "Worker", "ControlPlane"}
    /\ accessibleAtStart \in BOOLEAN
    /\ cachedPods \in [Peers -> Addresses \union {"noIP"}]
    /\ addresses = NoAddresses \/ addresses \in [Peers -> Addresses]
    /\ updating \in BOOLEAN
    /\ pc \in {"down", "idle", "ask", "wait", "decide", "judge", "kubelet"}
    /\ untilCheck \in 0 .. Interval /\ errorCount \in 0 .. Threshold
    /\ silence \in 0 .. Long
    /\ peersToAsk = NoAddresses \/ peersToAsk \in [Peers -> Addresses]
    /\ asked \in 0 .. NrPeers /\ pending \subseteq Peers
    /\ batchAge \in 0 .. BatchTime
    /\ healthyResponses \in 0 .. NrPeers /\ unhealthyResponses \in 0 .. NrPeers
    /\ apiErrorsResponses \in 0 .. NrPeers
    /\ apiErrorsResponsesSum \in 0 .. NrPeers
    /\ response \in Reasons \union {"none"}
    /\ reached \in BOOLEAN /\ endpointLost \in BOOLEAN
    /\ rebooting \in BOOLEAN
    /\ snrSeen \in BOOLEAN /\ snrMissing \in BOOLEAN
    /\ steady \subseteq Peers /\ sound \in BOOLEAN

\* The peers report a node unhealthy only if a remediation of it existed at
\* some time of the round, whatever answers of other batches say and however
\* late an answer is read.
UnhealthyNeedsSNR == response = "UnHealthyBecausePeersResponse" => snrSeen

\* A peer tells a node that it is healthy, which ends the round and lets the
\* node forget its failed checks, only if there was a time in the round at which
\* no remediation of it existed.
HealthyNeedsNoSNR == response = "HealthyBecauseCRNotFound" => snrMissing

\* Who has to answer: a peer whose address is right and that is in reach all the
\* time, and the node itself in the place of a peer without address.
answers(p) ==
    \/ peersToAsk[p] = "none"
    \/ peersToAsk[p] = "pod" /\ p \in steady

\* A node does not take itself for isolated while a peer whose address it has
\* is in reach all the time that it asks, even if that peer has lost the API
\* server too, nor while a peer is listed without address.
\* It needs a round that is no longer than the silence which is tolerated.
IsolatedNodeIsCutOff ==
    /\ response = "UnHealthyBecauseNodeIsIsolated"
    /\ (GetNrOfBatches(NrPeers) - 1) * BatchTime <= MaxSilence
    => \A p \in Peers : ~answers(p)

\* A control plane node is not rebooted without a remediation if, from the failed
\* check to the verdict, its kubelet and endpoint were accessible and somebody on
\* its list of control plane peers answered: whatever the workers say, and
\* whenever in between the questions are asked.
ControlPlaneStays ==
    [][ControlPlaneNode /\ rebooting' /\ ~rebooting => snrSeen \/ ~sound]_vars

\* A worker that has lost the API server, and whose list of peers has nothing but
\* addresses at which nobody is in reach, asks for a reboot, unless one of them
\* comes back.
Isolated ==
    /\ ~api /\ role = "Worker" /\ addresses # NoAddresses
    /\ \A p \in Peers : addresses[p] = "old" \/ (addresses[p] = "pod" /\ ~inReach(p))
IsolatedNodeReboots == Isolated ~> rebooting \/ ~Isolated

\* A worker under remediation that has lost the API server, while not more
\* than half of its peers have lost it too or are listed without address, learns
\* of its remediation from a peer in reach that can see it, and asks for a
\* reboot.
CanLearn ==
    /\ ~api /\ snr /\ role = "Worker" /\ addresses # NoAddresses
    /\ 2 * Cardinality({p \in Peers : addresses[p] = "none" \/ link[p] = "noApi"})
         <= NrPeers
    /\ \E p \in Peers : addresses[p] = "pod" /\ link[p] = "up"
RemediatedNodeReboots == CanLearn ~> rebooting \/ ~CanLearn

============================================================================
