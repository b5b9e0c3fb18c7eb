# Self Node Remediation in TLA+

Self Node Remediation (SNR) reboots an unhealthy Kubernetes node from the inside
and moves its workload away. No management interface is needed: a *manager*
in the control plane prepares the node, waits for a time after which the node
must have rebooted itself, and only then removes its pods. The *agent* on the
node has to reach the conclusion to reboot in that time, with or without access to
the API server. Safety rests on two things that are hard to test: that the
manager never removes resources of a node that is not fenced, whatever its
caches, conflicts and restarts do, and that an unhealthy node really goes down.

This directory models both sides, checks them with TLC and proves theorems about
them with TLAPS.

## 1. The system

### Parts, their state and operations

| part | code | state | operations |
|---|---|---|---|
| Manager reconciler | `controllers/selfnoderemediation_controller.go` | none in memory; SNR status (phase, TimeAssumedRebooted, LastError, conditions), finalizer, taints and cordon of the Node | `ReconcileManager` and its phase handlers |
| Agent reconciler | same file | none | `ReconcileAgent`, `rebootIfNeeded` |
| Watchdog | `pkg/watchdog` | status, stop function, last food time, the device | `Start`, feeder goroutine, `Stop`, `Status`, disarm at the end of `Start` |
| Rebooter | `pkg/reboot/rebooter.go` | none | `Reboot` |
| API check | `pkg/apicheck/check.go` | error count, time of the last peer response | the check loop, batches of peer requests, the verdict |
| Peers | `pkg/peers` | lists of worker and control plane peers | `Start` (loop of updates), `GetPeersAddresses` |
| Peer health server | `pkg/peerhealth` | none | `IsHealthy` |
| Control plane manager | `pkg/controlplane/manager.go` | node role, endpoint accessible at start | `Start`, `IsControlPlaneHealthy`, diagnostics |
| Peer batches | `pkg/utils/peers.go` | none | `GetNextBatchSize`, `GetNrOfBatches` |
| Reboot duration calculator | `pkg/reboot/calculator.go` | the configuration | `GetRebootDuration` |
| Configuration reconciler | `controllers/selfnoderemediationconfig_controller.go`, `pkg/apply` | none in memory; the DaemonSet of agents and the Secret with their certificates | `Reconcile`: `SetConfig`, `syncCerts`, `removeOldDsOnOperatorUpdate`, `ApplyObject`, `setCRsEnabledStatus` |
| Configuration webhook | `api/v1alpha1/selfnoderemediationconfig_webhook.go` | none | admission of one configuration with tolerable times |
| Default configuration | `pkg/snrconfighelper` | none | created at each start of the manager unless there is one |
| Certificates | `pkg/certificates` | the Secret; an agent keeps what it has read | `StoreCerts`, `GetCerts` |
| SNR matching | `controllers/owner_and_name.go` | none | which node an SNR is for |
| Node annotations | `pkg/utils/annotations.go` | annotations of the Node | written once when the agent starts |
| Process setup | `main.go` | none | order in which an agent or a manager is put together |
| Others | `pkg/render`, `pkg/template`, webhooks of remediations and templates | | rendering, templates, validation |

### How they interact

- The NodeHealthCheck operator (NHC) creates an SNR object for a node, may mark
  it as timed out, and deletes it when the node is healthy again.
- The manager reads the SNR and the Node from informer caches, writes them
  through the API server (updates with a resource version, merge patches
  without), and is called again by watch events, errors and `RequeueAfter`.
- The agent on the node sees the SNR through the API server, or, when it has
  lost the API server, asks its peers, batch after batch; each peer looks for an
  SNR of the asking node. The verdict "unhealthy" calls `Reboot`, which stops
  feeding the watchdog.
- The manager takes the time to wait from the calculator, which predicts the
  longest time the agent may need. It never asks the node: that the node is
  down when the time is over is a matter of two sums of durations.
- The configuration's reconciler gives the configuration to the calculator, and
  to the agents by way of their DaemonSet; the two of them may have different
  ones for a while.

### What is hard

Stale caches of two objects that are not equally old; conflicts in the middle of
a handler; status writes from old copies; patches that replace whole lists;
restarts between any two API calls; deletion and time-out of the SNR at any
moment; a mutex that is released before initialisation is complete; a status
that is read twice; answers of peers that arrive in any order while the world
changes; counters and batches at their limits; a time-out that is compared with a
time nobody renewed; two parts that compute the same duration from different
numbers; an agent that stops, crashes or is rolled out in the middle of a
remediation; a DaemonSet that is deleted, edited, collected and upgraded while it
is applied. `PROJECT.json` lists them under `hazards`, each at its line.

### What correct means

- *Manager*: resources are removed only from a node that is cordoned, tainted
  and whose reboot time has passed; the node carries the manager's marks only while a
  finalizer guards them; a remediation never goes back; success is reported only
  when the workload is gone; every remediation and every deletion ends.
- *Watchdog*: a triggered watchdog is never fed again; an armed one really
  counts; a healthy node is not reset; an unhealthy one is.
- *Health check*: a node reports itself unhealthy only for a cause, and a node
  that is cut off, or can learn of its remediation, reboots.
- *Batches*: every round ends, asks every peer, and is as long as predicted.
- *Node and manager together*: resources are removed only after the node was
  reset; the agent reboots its node once per remediation, and no other node.
- *Configuration*: what is configured is what runs in the end; agents share their
  certificates and find them; the calculator is never behind the agents.

## 2. Modules

| module | models |
|---|---|
| `Fence` | abstract specification: what a remediation promises to the workload |
| `Schedule` | abstract specification: what the status of an SNR promises to its readers |
| `Fencing`, `MCFencing` | manager, agent, check and machine in one clock; implements `Fence` |
| `FencingProofs` | proofs about `Fencing`, the refinement of `Fence` included |
| `Configuration`, `MCConfiguration` | the configuration, its reconciler, webhook, DaemonSet, certificates and the agents' pods |
| `ConfigurationProofs` | proofs about `Configuration` |
| `Remediation` | the manager's reconciler with API server, caches, queue, NHC and the controllers that react to taints; implements `Schedule` |
| `RemediationInv` | the inductive invariant `SafetyInv` behind its safety properties |
| `RemediationProofs` | lemmas on windows, type correctness, and that a remediation only goes forward |
| `RemediationSafety` | proofs that `SafetyInv` is inductive, and of what follows from it |
| `MCRemediation` | instance for TLC |
| `Watchdog`, `MCWatchdog` | the synchronized watchdog, its device and the rebooter in the agent's process |
| `WatchdogProofs` | proofs about `Watchdog` |
| `Batches` | the operators of `pkg/utils/peers.go` |
| `BatchesProofs` | sizes of batches, and what the recursion of `GetNrOfBatches` counts |
| `PeerRounds` | the loop over the batches for every size of a cluster |
| `PeerRoundsProofs` | proofs about `PeerRounds` |
| `HealthCheck`, `MCHealthCheck` | check loop, peers, peer server and control plane manager |
| `HealthCheckProofs` | proofs about `HealthCheck` |

### Remediation

One SNR and one Node. Each object is a *window* of versions: the first version is
what the manager's cache holds, the last what the API server holds
(`Cached`, `Server`); `DeliverSNR` and `DeliverNode` drop the first. `snr` and `node`
are the reconciler's local copies, `snrFresh` and `nodeFresh` say whether a copy
still has the server's resource version: a full update (`updateFinalizer`,
`updateUnschedulable`, `UpdateSnrStatus`) is accepted only then, a merge patch
(`patchTaints`, `UpdateSnrStatusLastError`) always.

A reconcile reads its objects in one of the actions `SNRAlreadyDeleted` ...
`Remediate`, then takes one action per API call of the phase handler (`pc` is
`remediate`, `cordon`, `drain`, `untaint`, `unfinalize`), then
`UpdateSnrStatusLastError` and `UpdateSnrStatus`, the deferred write, after which
controller-runtime requeues it (`EndReconcile`). Actions keep the names of the functions:
`AddFinalizer`, `AddNoExecuteTaint`, `MarkNodeAsUnschedulable`,
`WaitForNodeRebooted`, `DeletePods`, `AddOutOfServiceTaint` and so on.
`DeletePods` fails after some namespaces as well as before; the answer of a
successful write replaces the local copy, which is how the local changes of
status are lost in `updateFinalizer` and `UpdateSnrStatusLastError`. A panic is
not modelled: `TimeAssumedRebootedIsSet` says that the only dereference of an
optional field is safe. Two reads are taken when a reconcile starts although the
code reads the Node a little later than the SNR: both come from caches that
only advance, and a later read of the Node is the same as a delivery
before the start.

`isResourceDeletionCompleted` lists pods and volume attachments from caches. What is gone may still be listed, and a list may
fail: `WaitForResourceDeletion` may go on in both cases. A pod that was just marked for deletion may be listed without
the mark (`seesDeletionCompleted`); an attached volume keeps its entry for as long as it is there. Pods and volumes are on the node since before
it was cordoned, so the caches are assumed to have them when the reboot time is over.

The environment: NHC creates, times out and deletes the SNR (`CreateSNR`,
`TimeOutSNR`, `DeleteSNR`), the node lifecycle controller keeps the unschedulable
taint in step (`SyncUnschedulableTaint`), pods are evicted, collected and scheduled.
`Env` switches on API failures, manager restarts, a foreign taint, the exclude
label, deletion of the Node, a missing agent, a missing configuration and a foreign finalizer.
`SetCRsEnabledStatus` is the configuration reconciler's part in the SNR's status.
No administrator cordons the node: the code does not tell a foreign cordon from its own.

`ScheduleKept` is a refinement: with `uid`, `phase` and `deadline` read from the server's
version of the SNR, every step is a step of `Schedule` or changes none of them.
`Schedule` allows nothing but one phase after the other, a deadline that is set once,
and no phase beyond the second before the deadline.

### Fencing

One remediation and one node, with one clock. The parts that have modules of their
own are reduced to what they decide and how long it may take at most:

| actions | code |
|---|---|
| `AddFinalizer`, `CompletePreReboot`, `AssumeRebooted`, `RemoveResources`, `RecoverNode` | the manager's phases (`Remediation` has their details) |
| `SetConfig`, `RestartManager`, operators up to `GetRebootDuration` | `calculator.go`, in its own terms |
| `getNodeName`, `IsSNRMatching` | `owner_and_name.go`; the manager uses the first, the agent the second without, the peers with the name of the Machine |
| `StartAgent` with `UpdateNodeAnnotations` and `GetTimeout` | `main.go`, `annotations.go`: the annotation is written before the device is open, so it says 0 |
| `ReconcileAgent` with `rebootIfNeeded` and `didIRebootMyself` | `ReconcileAgent` |
| `StartCheck`, `CheckSucceeds`, `CheckFails`, `PeerAnswers`, `PeersAreSilent` | `check.go`; a round of questions takes the longest time it can (`HealthCheck` has the batches) |
| `CrashAgent`, `StopPod`, `ResetMachine`, `FailMachine`, `Boot` | process, pod and machine; a stop disarms the watchdog, a crash leaves it counting, a new process feeds it again |

`left`, `resetIn`, `seeIn` and `snr.timeLeft` count down; `Tick` may not pass a moment at
which something is due, so that each duration is a longest one and anything may come earlier.
`agent`, `settings` and `stored` keep apart what the configuration is, what the calculator knows
and what a pod was started with. `cause`, `resets`, `stopped`, `interrupted` and `removed` are history
for the properties.

Assumptions of the model: an outage of the API server that hits a remediation between its preparation
and the reset of the node lasts until the reset (a connection that comes and goes restarts
the count of failed checks, and may keep a node up beyond any safe time); the agent's pod exists even
if its process does not, so `isNodeRebootCapable` is its annotation; peers
that answer reach the API server, and every listed peer has an address (`HealthCheck` has the other cases, and section 6 what they mean).

### Configuration

The API server has the configuration, the DaemonSet and the Secret. The manager reads the
configuration and the Secret from caches, and so `removeOldDsOnOperatorUpdate` reads the DaemonSet; `ApplyObject`
works on an unstructured object, which controller-runtime reads from the API server. A reconcile
is one action per call: `BeginReconcile` (with `SetConfig` and the look for certificates), `StoreCerts`,
`RemoveOldDs`, `GetDs`, `ApplyDs`, `SetCRsEnabledStatus`; `CallFails` and `StopManager` may come between any two.
`isWatched` is the predicate of `SetupWithManager`: creation, deletion and a change of generation bring the
configuration back into the queue, a change of status does not. `StartManager` fills the caches, may be
an upgrade (`revision`), and runs `InitializeConfig`. Users create, update and delete the configuration
through the webhook, which refuses everything while the manager is down, and delete or edit the DaemonSet.
`StartPod`, `StopPod` and `CollectDS` are the DaemonSet controller and the garbage collector; `LoadCerts` is the start
of an agent's peer health server, which reads the Secret once.

A spec is known by the generation it was stored with, and a DaemonSet by the generation it was
rendered from; 0 is a template that somebody edited. Users edit the template only, not the owner or the revision.
Identities of DaemonSets are used again when nobody knows them any more, which keeps the
model finite although the manager may delete and create DaemonSets for ever.

### Watchdog

What a method does under the mutex is one step. `Start` is the critical section of
`Start`; `AssignStop` is what follows after the mutex is released; `Feed` is one run
of the feeder; `Disarm` is the end of `Start`. Each caller of `Reboot` looks at the
status (`Reboot`), looks again (`SwitchStatus`) and calls `Stop`. The device
(`left`) counts down once it is open and resets the node at zero; it survives
the process (`NewProcess`). `Mishaps` lists what may go wrong, each once: open,
feed, disarm or the reboot command fails (`startDeviceFails`: the device cannot be opened,
or is opened and disarmed again because its timeout cannot be read), `Stop` meets a nil function, the process
crashes, the pod is stopped.

### Batches and PeerRounds

`Batches` translates `GetNextBatchSize` and `GetNrOfBatches`. `PeerRounds` runs the
loop of `getWorkerPeersResponse` when no answer ends it early, for every number of
workers up to `MaxWorkers`, and compares it with the prediction.

### HealthCheck

The check of the API server fails `Threshold` times (`CheckFails`); then batches are
sent (`SendBatch`), each request is answered at its own time (`ReceiveResponse`)
while links, pods, SNR and API server change, and a complete batch is evaluated
(`EvaluateBatch`). `AllPeersAsked` is the end of the loop; a worker then decides at once (`DecideWorker`).
A control plane node goes on asking, in the order of the code and with time and changes in between: the other
control planes (`AskControlPlanes`), for some reasons the endpoint (`DiagnoseEndpoint`) and the kubelet, with which it
decides (`DecideControlPlane`).

*Addresses.* The agents' pods are read from a cache (`cachedPods`), which follows only while the node
reaches the API server (`DeliverPod`). `UpdatePeers` is a run of the update loop on that cache, with its silent end
(`updating`). A round works on the copy of the list that it took at its beginning (`peersToAsk`). A listed peer has the address of its pod, the
`old` address of a pod that is gone since (`withoutAddress`), or none, if its node has no agent's pod.
In the last case `popPeerIPs` leaves an empty address in the batch, and `getHealthStatusFromPeer` dials `:port`, where the node's own peer
health server listens with a certificate that is good for every node: the answer is the
node's own (`IsHealthy(~api)`), `ApiError` as long as the node has lost the API server.

*Time.* Durations are ticks: a batch takes at most `BatchTime`, and `silence`
counts from `timeOfLastPeerResponse` up to one more than `MaxSilence`. The questions of a control plane node to
others have no bound. `StopAgent` is the end of the process, by a crash or the
reboot that was asked for; `StartAgent` fills the caches again, which needs the API server. `snrSeen`,
`snrMissing`, `steady` and `sound` are history for the properties only.

Assumptions: no time passes before `InitializeManager` has run. It reads the own Node from the cache that
`Peers.Start` reads first, too; without it there are no addresses to ask, and `Peers.Start` gives up after `apiServerTimeout` and so
ends the agent. Nothing but the scheduler can delay the one behind the other, by less than the silence that is tolerated.
The list of control plane peers is abstracted to whether some entry of it answers (`otherControlPlanes`); that may be the node itself, in the place
of a control plane without an agent.

## 3. Runs

| run | result | shows |
|---|---|---|
| `remediation_faults` | pass | two SNRs for the same node, both strategies, caches a version behind, a timeout by NHC, and one API failure, restart, foreign taint, exclude label or deletion of the Node anywhere: all safety properties, `SafetyInv`, and that the status implements `Schedule` |
| `remediation_liveness` | pass | every remediation is completed unless timed out or deleted; every deleted SNR goes away |
| `remediation_outOfServiceTaint` | violation | see section 6 |
| `watchdog` | pass | safety and `RebootHappens` with two callers and every mishap once |
| `peer_rounds` | pass | all clusters of up to 500 workers |
| `health_worker` | pass | a worker with four peers, two batches, API server, links and SNR changing: no verdict without its cause |
| `health_controlPlane` | pass | a control plane node with API server, SNR, pods and what its manager looks at changing between any two of its questions: a sound one is not rebooted |
| `health_liveness` | pass | peers out of reach, without API server or without an agent, and a pod that moves: no isolation while somebody answers; a worker that is cut off, or can learn of its remediation, asks for a reboot |
| `fencing` | pass | any number of crashes, rollouts, outages, machine failures, manager restarts, deletions and changes between two configurations: the composition implements `Fence`, reboots once per SNR, and no other node |
| `fencing_safeTime` | violation | see section 6 |
| `fencing_deletedSNR` | violation | see section 6 |
| `configuration` | pass | any two upsets by users, failures, stops and upgrades: certificates agree and precede agents, the calculator is ahead of them, and everything converges |

Every property of a passing run has a mutant in `PROJECT.json`: a plausible bug in
one definition, under which TLC finds the property violated.

### Bounds, and why they are enough

- `MaxLag` 2: a cache may be one version behind for each object, and not the same for both, which is what
  makes a copy stale; the proofs of `RemediationProofs` and `RemediationSafety` are for any number of versions.
- `MaxNow`: the clock matters only up to `TimeAssumedRebooted + DeletionWait`; `Tick`
  is disabled when no deadline depends on it. Durations of one tick suffice
  as only the order of deadlines matters.
- `MaxFaults` 1: one fault at any point of the remediation. The reconciler keeps nothing in
  memory between two reconciles, so what a second fault meets is again a stored
  state and a stale cache; the proofs do not bound the number of faults.
- `MaxSNRs` 2: an SNR can meet what its predecessor left.
- `fencing`: a tick is 15 s. The two configurations differ in their detection (three failed checks or one) and in
  their safe time, three workers are two peers in one batch, and the silence tolerated is two ticks. The constants
  satisfy `SafeTimeCovers`, the condition under which `FenceKept` is claimed: the duration that the manager waits
  is longer than the delay of the SNR, the longest detection and the watchdog together, whatever configurations
  the two sides have. It is strict, as the manager could be the first to act at a common end; and the longest
  detection is not only the failed checks and a round but, if that is more, the silence that is tolerated, one more check and
  a round. `FencingProofs` proves `FenceKept` for all constants that satisfy it. SNRs are named by an annotation with both
  owners, or by the Machine of another node. Nothing but the two configurations is bounded: the model is finite
  as every countdown is.
- `fencing_safeTime`: a tick is 5 s, with the defaults of the configuration and a watchdog of 60 s; 43 is the smallest
  number of workers at which one worker more means three batches less.
- `MaxDisturbances` 2: one upset in the middle of the repair of another. One agent is enough: agents meet only
  in `CertsAgree`, which compares each with the Secret. Two valid specs, one with a time below its
  minimum and one with a contradictory toleration.
- `Timeout` 6, `RebootStarted` 3: a third of the timeout is 2 ticks, so that a
  failed feed and the next one are told apart from the expiry.
- `health_worker`: `NrPeers` 4, the first batch has 3 peers and the second is cut to 1; the majority
  of an even number is a boundary.
- `health_liveness` (`MCHealthCheck`): the first batch is three peers that have no agent, have lost the API server or
  are out of reach, in every combination in which no more than half of the peers make the node read `ApiError` (with
  more it stays up whatever else happens); the second is a peer whose pod comes, moves and goes. Peers of a batch
  are interchangeable, so one order of each pattern is a start. A batch takes no tick here, though answers
  interleave with all changes; batches that take time are in `health_worker`.
- `health_controlPlane`: one peer is enough, as what the workers say is one of the reasons, each of which one
  peer, or an empty list, can bring about; a peer without agent gives the `ApiError`s, one that moved gives no answer, so
  connections need not change. `HealthCheckProofs` has any number.
- `MaxWorkers` 500: up to 42 peers every batch has the minimum size, beyond that it grows by
  one with every ten peers; `PeerRoundsProofs` removes the bound.

### Fairness

Weak fairness of the reconciler, of cache deliveries, timers and the clock: one worker
goroutine takes items from a queue, informers and timers run on. Weak fairness of the
node lifecycle controller and of the pod garbage collector, which Kubernetes runs, of the removal
of foreign finalizers, and of the return of a missing agent pod or configuration; no
fairness for NHC, for failures or for the kubelet of the broken node. In `Watchdog`,
goroutines are scheduled and a caller asks again, since the check runs at every
interval and the reconciler is requeued. In `HealthCheck`, requests end by their
context timeouts, watches deliver pods while there is a connection, the update loop and the check have goroutines of their own, and the kubelet restarts the agent. No fairness for
the network, the API server, the pods of peers or the SNR. In `Configuration`, the reconciler takes its items from a queue that retries what failed, caches
are delivered, a stopped manager is restarted by its Deployment, and the DaemonSet controller and the garbage
collector do their work; nothing is assumed of users and failures but that they end, which the bound says.
`Fencing` has no fairness and needs none: its clock may stop, its promise is about order. Liveness is checked without the exclude label and without deletion
of the Node: in both cases the code skips the node on purpose.

## 4. Proofs

All proofs are checked by TLAPS from the named assumptions of the modules only:

- `Remediation`: `StrategiesAssumption`, `DurationAssumption` (a reboot takes at least one tick), `EnvAssumption`,
  `BoundsAssumption`;
- `Watchdog`: `TimeoutAssumption` (the timeout is at least six ticks), `RebootStartedAssumption`, `SettingsAssumption`;
- `PeerRounds`: `MaxWorkersAssumption`;
- `HealthCheck`: `SizesAssumption`, `SettingsAssumption`;
- `Fencing`: `ConfigsAssumption`, `TimesAssumption`, `IdentitiesAssumption`, `EnvAssumption`;
- `Configuration`: `AgentsAssumption` (there are finitely many agents), `DefaultAssumption` (the default
  configuration passes the webhook), `SpecsAssumption`, `RevisionsAssumption`, `BoundAssumption`.

They are types and ranges of the constants. The bounds of TLC are constants there, so every theorem holds for any
number of faults, SNRs, versions a cache may be behind, callers, peers, workers and agents, and for all durations.
Three theorems have a hypothesis besides, stated where it is used: `NodeIsFenced` assumes `SafeTimeCovers`,
without which the run `fencing_safeTime` shows the opposite, `AbsenceNeedsNoSNR` assumes that peers can match
every SNR (`"matchError" \notin Changes`), without which a server answers as section 6 says, and `BystanderIsLeftAlone` assumes that the Machine
and the node name of an SNR do not contradict each other (`IdentitiesAgree`). The instances of the runs `fencing` and `health_worker`
satisfy them.

| theorem | states | module |
|---|---|---|
| `TypeCorrect` | `TypeOK`, the bounds of the windows included | `RemediationProofs` |
| `TimeIsSet` | `TimeAssumedRebootedIsSet`: the pointer that is dereferenced is never nil | `RemediationProofs` |
| `StatusGoesForward` | `PhasesNeverGoBack` | `RemediationProofs` |
| `StatusIsSchedule` | `ScheduleKept`: `Remediation` implements `Schedule` | `RemediationProofs` |
| `SafetyInvHolds` | `SafetyInv` | `RemediationSafety` |
| `MarksNeedFinalizer` | `FinalizerGuardsNode` | `RemediationSafety` |
| `FencedBeforeRemoval` | `RemovalOnlyWhenFenced` | `RemediationSafety` |
| `SuccessIsReal` | `SuccessMeansWorkloadGone` | `RemediationSafety` |
| `WatchdogTypes` | `TypeOK`, the ranges of the countdowns included | `WatchdogProofs` |
| `StatusTellsDevice` | `ArmedDeviceCounts` | `WatchdogProofs` |
| `TriggeredStays` | `TriggeredIsFinal` | `WatchdogProofs` |
| `HealthyNodeStaysUp` | `NoSpuriousReboot` | `WatchdogProofs` |
| `RoundIsShort` | `TypeOK`: at most 14 batches, never more peers than are left | `PeerRoundsProofs` |
| `TurnsAdvance` | `EveryTurnAdvances` | `PeerRoundsProofs` |
| `PredictionIsRight` | `PredictionAgrees`: calculator and loop count the same batches | `PeerRoundsProofs` |
| `TypeCorrect` | `TypeOK` | `HealthCheckProofs` |
| `ReportNeedsSNR` | `UnhealthyNeedsSNR` | `HealthCheckProofs` |
| `AbsenceNeedsNoSNR` | `HealthyNeedsNoSNR`, where peers can match every SNR | `HealthCheckProofs` |
| `ControlPlaneKeepsRunning` | `ControlPlaneStays` | `HealthCheckProofs` |
| `IsolationIsReal` | `IsolatedNodeIsCutOff` | `HealthCheckProofs` |
| `TypeCorrect` | `TypeOK` | `FencingProofs` |
| `NodeRebootsOnce` | `NoRebootLoop` | `FencingProofs` |
| `BystanderIsLeftAlone` | `BystanderStays` | `FencingProofs` |
| `NodeIsFenced` | `FenceKept`: `Fencing` implements `Fence` | `FencingProofs` |
| `ConfigurationTypes` | `TypeOK`; a new DaemonSet finds an identity that nothing refers to | `ConfigurationProofs` |
| `AgentsTrustEachOther` | `CertsAgree` | `ConfigurationProofs` |
| `AgentsFindCerts` | `CertsBeforeAgents` | `ConfigurationProofs` |
| `CalculatorIsAhead` | `CalculatorAhead` | `ConfigurationProofs` |

The arguments, `Remediation` first:

- *Types of a remediation.* `Typed` regroups `TypeOK` by windows; lemmas say what `Append`,
  `Tail` and `Store` do to a window, and there is one step per action.
- *Progress.* `PhasesNeverGoBack` is not inductive: a status is written from the
  reconciler's copy, and nothing in the property says how old it is. `ProgressInv` adds that every
  version, stored, cached or local, has its time when its phase needs it; that a copy which still
  has the server's resource version has the server's status or is exactly one phase further; and that the
  program point fits the copy's phase. Each action keeps `ProgressInv` and replaces the
  server's version only by one that `Advances` it, which is a step of `Schedule`.
- *Safety.* The properties speak of the server's objects, the reconciler acts on copies. `SafetyInv` says
  what a copy of any age tells about the server, in three layers.
  `SNRInv` is inductive by itself: in a window each version `Follows` the earlier ones (the same
  phase, the next one, or a new SNR after a completed one), and a version with the finalizer means that the server's SNR
  has it, unless it is the version from which `RemoveFinalizer` removes it.
  `NodeInv` is inductive given `SNRInv` and `History` (where the phases in a window after a step come from): as long as
  Pre-Reboot-Completed or Reboot-Completed is in sight, in a window or a copy, every version of the Node is marked
  (`Fenced`); in Fencing-Completed marks only fade (`Recovering`); no version that is left over from an earlier
  remediation looks prepared to `prepareReboot` (`Preparation`); and the out-of-service taint
  comes and goes only in versions that are marked (`OutOfService`), so that no patch with an old list of taints brings it back on a node
  that is not fenced. `Success` needs both: the condition is stored from a copy that finished while the
  pods were gone, they come back only on a clean node, and a node is cordoned only when no SNR in sight has finished.
  `FencedBeforeRemoval` then follows as `DeletePods` and `AddOutOfServiceTaint` are the only
  steps that remove (`ServerNodeStep`, `WorkloadStep`), their copy is in Reboot-Completed, and the
  server's SNR has the same time and the server's Node is marked.

The other modules:

- *Status and device.* `DeviceInv` adds that a process begins with a Disarmed watchdog, without which
  `NewProcess` followed by a failed `Start` would break it.
- *Healthy node.* `CalmInv` describes a node that nobody found unhealthy while nothing
  crashed and no disarm failed: nobody is in `Reboot`, the device is open exactly between `Start`
  and `Disarm`, and what is left of it exceeds the time to the next feed by two thirds
  of the timeout, or one third after a failed feed. This is where `Timeout \div 3` matters.
- *Rounds.* `RoundInv` says how many peers remain after so many batches:
  `n - 3 - (batches - 1) * LaterSize` as long as the list is not empty. As `LaterSize` is at least
  a tenth of the peers rounded down and at least 3, thirteen later batches cover them all.
- *Prediction.* `GetNrOfBatches` is a recursive function, and the prover has no induction over its argument.
  `BatchesProofs` takes the least number of peers for which no such function exists and derives a contradiction,
  after which the function's equation can be used: the batches asked and those that it still counts for the remaining peers are
  together constant.
- *Health check.* `CountInv`: answers that were counted and requests that are still out are together no more than the peers
  that were asked, so the majority is one of different peers. `HistoryInv` follows a report "unhealthy" back to the SNR, and a report "healthy" to its absence.
  `SoundInv`: for a node that was sound all the round, what it has heard so far from control planes and endpoint is good,
  and the kubelet still answers; it carries the verdict over the questions asked one after the other.
  `RoleInv`: time passes only for a node that knows its role, so a control plane node that does not know it yet
  finds no silence to conclude isolation from. `SilenceInv` bounds the silence by the time of the batches since a peer that `answers`, in reach all
  the time or the node itself in its place, was asked; when the round is over, the silence is no longer than the round.
- *One reboot.* `LoopInv`: after the agent's reconciler has reset the machine, the boot is younger than the SNR for as
  long as the SNR is there, whatever else resets the machine.
- *Fence.* `TimeInv` says in each situation of the node (the device expires, the API server is there, it is not)
  that the time left to the manager is longer than what the node still needs: other failed checks, the silence that is
  still tolerated, one check, one round, the watchdog. `SafeTimeCovers` starts it, every tick takes the same from both sides.
- *Identities.* A recreated DaemonSet takes an identity that neither a pod, the cache nor the reconciler's
  copy still has. They have at most one for each agent and two more, and there are three more than agents: a
  cardinality argument shows that one is free.
- *Certificates.* `CertsInv` adds that the cache has the Secret or none at all, and that the reconciler is past
  `syncCerts` only when there is a Secret. A creation from an empty cache then fails on the server's
  Secret instead of replacing it.
- *Order of a new configuration.* `OrderInv` follows its generation from the server through the cache and
  the calculator to the DaemonSet and the agents: each has at most the generation of the one before it, and
  a reconcile works with the version that it gave the calculator at its beginning.

Every safety property of a passing run is stated by a theorem. Only model-checked: the liveness properties (`RemediationCompletes`,
`DeletionCompletes`, `RebootHappens`, `IsolatedNodeReboots`, `RemediatedNodeReboots`, `Converges`), as fairness
and `ENABLED` are out of the prover's reach, and the violations of section 6.

## 5. Plan

1. done: manager (`Remediation`), agent's reboot (`Watchdog`), batches, health check.
2. done: `Fencing` with `Fence`, `Configuration`, `Schedule` as the manager's abstraction.
3. done: theorems for all safety properties, and for both refinements.
4. next: `getRuntimeStrategy` with flags that a restart may change.

## 6. Where the code and its documents disagree

Shown by a run:

- `remediation_outOfServiceTaint`: a reconcile that reads the old phase
  Reboot-Completed adds the out-of-service taint again after it was removed. If the
  status conflict is followed by a restart or a failure, nothing removes it any more;
  the tests expect that a finished remediation leaves no such taint.
- `fencing_safeTime`: with defaults, a watchdog of 60 s and 43 workers, the node needs up to 260 s from the
  loss of the API server to its reset (three checks of 20 s, 14 batches of 10 s, the watchdog), and the manager
  waits 200 s: it allows for 11 batches, as it counts workers instead of peers and fewer batches are needed
  for 43 than for 42; and for no watchdog, as `main.go` reads the timeout before `Start` has opened the device.
  The pods of a running node are deleted. The comment of the calculator promises the worst case.
- `fencing_deletedSNR`: an SNR that is deleted after its preparation, while the node has the API server, is over
  for the agent and goes on for the manager: it waits, and deletes the pods of a node that nobody rebooted.

Observed while modelling, not turned into runs:

- `Reboot` never looks at `IsSoftwareRebootEnabled`. With software reboot disabled it still reboots by software
  when no watchdog was found, and when the device cannot be opened, as `Start` then wraps a nil error,
  returns nil and leaves the status Disarmed; the API promises "watchdog only".
- The time of the last peer response is renewed only while peers are asked, so the tolerance for short
  outages (`check.go`, line 176) is used up before the first question.
- A remediation that NHC timed out and deletes goes on: `isStoppedByNHC` is false for
  a deleted SNR, so lines 245-249 of the controller cannot be reached.
- The Disabled condition may be stored after `setCRsEnabledStatus` has run
  and then stays.
- `Stop` between the release of the mutex and the assignment of `swd.stop` in `Start` calls
  a nil function; the restarted process has to trigger again (`RebootHappens` holds).
- After the first batch 11 to 13 batches may follow although the constant says 10.
- A node in a minority partition whose peers all report an API error never
  concludes anything: their answers renew the time of the last response.
- A worker that lost the API server asks itself in the place of every listed node without an agent, although `check.go`, line 218, says that it ignores
  them. Its own `ApiError` renews the time of the last response in every round: one such node in the list is enough to keep a node up that is cut
  off from everybody, while the manager removes its resources. The answer also counts to the majority: with more than half of
  the listed nodes without an agent a node under remediation takes itself for healthy before it asks the peer that knows better.
  `Isolated` and `CanLearn` exclude just these two cases.
- An error of `updateWorkerPeers`, for which one agent's pod without IP is enough, ends the updates of the list: the result
  of `updateControlPlanePeers` overwrites it, `Start` returns nil, and the agent goes on with the list it had, or none.
- A peer passes over an SNR that it cannot match, because the asking node did not name the Machine that owns it and the Machine cannot be
  read, and answers that the node is healthy; the comment (`server.go`, line 123) says "only if no snr matches".
- The client that asks the kubelet has no timeout (`manager.go`, line 159): a kubelet that accepts and never answers blocks the check for good.
- `pinger.Run` returns nil on a timeout, so a silent endpoint counts as accessible.
- A graceful stop of the agent disarms the watchdog, also while the manager counts on the agent:
  `isNodeRebootCapable` looked at pod and annotation once. `FenceKept` lists it (`interrupted`).
- A default configuration is created at every start of the manager, also after an administrator has
  deleted it to disable the operator.
- `removeOldDsOnOperatorUpdate` decides from the cache and deletes by name: it may delete the DaemonSet it
  has just created, and fails once if there is none. `Converges` shows that it recovers.
- Certificates are read once: nothing repairs agents that run while somebody replaces the Secret.

## 7. Not modelled

Rendering, the cryptography of certificates, the default templates and the webhooks of remediations and
templates: data transformation, or validation of a single object, without state or protocol. Of
`pkg/apply` the merging of Deployments, Services and ServiceAccounts is left out: the operator applies one
DaemonSet. `getRuntimeStrategy` is a constant of an SNR: the choice for `Automatic`
is made anew after a restart in the code. Lists of control plane peers are abstracted to whether one
of them answers. Clocks of nodes and API server agree. Leader election: one manager runs at a time. Events, logs and metrics.
