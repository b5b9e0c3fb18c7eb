------------------------------ MODULE Fencing ------------------------------
(***************************************************************************)
(* One remediation seen from both ends, in one clock.  The manager creates *)
(* facts: it asks the calculator how long the node may need to reboot      *)
(* (pkg/reboot/calculator.go), stores the end of that time in the SNR, and *)
(* removes the node's resources when the time is over, without ever asking *)
(* the node.  The node's agent has two ways to keep up with it: its        *)
(* reconciler sees the SNR (ReconcileAgent), or, without the API server,   *)
(* its connectivity check counts failures and asks the peers               *)
(* (pkg/apicheck/check.go).  Either way the rebooter stops feeding the     *)
(* watchdog device, which resets the machine some time later.              *)
(*                                                                         *)
(* What happens inside the parts is left to Remediation, HealthCheck and   *)
(* Watchdog; here they are their promises and their longest durations.     *)
(* A duration that is running is a number of ticks that are left of it;    *)
(* Tick takes one off all of them and has to wait for what is due.         *)
(*                                                                         *)
(* The peers that answer do reach the API server, and every listed peer    *)
(* has an address.  That most of them have lost it too, which a node takes *)
(* for a failure of the control plane, or that a node answers itself in    *)
(* the place of a peer without address, are cases of HealthCheck.          *)
(***************************************************************************)
EXTENDS Batches, FiniteSets

CONSTANTS
    Configs,          \* specs of SelfNodeRemediationConfig, see ConfigSpecs
    Workers,          \* worker nodes of the cluster, this one included
    HalfMinute,       \* 30 s in ticks
    WatchdogTimeout,  \* of this node's device; 0: it has none
    SoftwareReboot,   \* IsSoftwareRebootEnabled
    AgentLag,         \* longest delay of a stored SNR on its way to an agent
    Identities,       \* names and owners of the SNRs, see SNRIdentities
    Env               \* optional behaviours of the environment, see EnvKinds

MyNodeName == "n1"
NodeNames == {"n1", "n2"}
MyMachineName == "m1"
None == "none"

EnvKinds == {"crash", "podStop", "deletion", "apiLoss", "peerLoss",
             "machineFailure", "managerRestart", "configChange"}

\* The durations are in ticks; safeTime is SafeTimeToAssumeNodeRebootedSeconds,
\* 0 if it is not specified.
ConfigSpecs ==
    [MaxApiErrorThreshold : Nat \ {0}, ApiCheckInterval : Nat \ {0},
     ApiServerTimeout : Nat, PeerDialTimeout : Nat, PeerRequestTimeout : Nat,
     safeTime : Nat]

\* What tells for which node an SNR is: its name, its node name annotation,
\* its owners and, if a Machine owns it, the name and the nodeRef of that.
SNRIdentities ==
    [name : NodeNames \cup {"snr"}, annotation : NodeNames \cup {None},
     owners : SUBSET {"NodeHealthCheck", "Machine"},
     machine : {"m1", "m2"}, nodeRef : NodeNames \cup {None}]

ASSUME ConfigsAssumption == Configs \subseteq ConfigSpecs
ASSUME TimesAssumption == /\ HalfMinute \in Nat \ {0}
                          /\ WatchdogTimeout \in Nat
                          /\ AgentLag \in Nat
                          /\ Workers \in Nat \ {0}
ASSUME IdentitiesAssumption == Identities \subseteq SNRIdentities
ASSUME EnvAssumption == Env \subseteq EnvKinds /\ SoftwareReboot \in BOOLEAN

FencingStarted == 0
PreRebootCompleted == 1
RebootCompleted == 2
FencingCompleted == 3

----------------------------------------------------------------------------
VARIABLES
    \* the API server
    snr,           \* the SNR
    stored,        \* the spec of the stored configuration
    annotation,    \* the agent's annotations of the Node
    \* the manager
    configured, config,  \* the calculator has a spec, and which
    \* the node
    machine,       \* "up", "expiring" (its device is not fed), "down"
    resetIn,       \* ticks until an expiring machine is reset at the latest
    rebooted,      \* the machine came up after the SNR was created
    api, peers,    \* it reaches the API server / a peer that does
    \* the agent
    agent,         \* "off", or what its check does: "wait", "check", "ask"
    settings,      \* the spec its pod was created from
    left,          \* ticks left of what its check does
    errorCount,
    silence,       \* ticks since timeOfLastPeerResponse
    seeIn,         \* ticks until its reconciler has handled the SNR
    \* history, since the SNR was created
    cause,         \* of an expiring machine: "reconcile", "check", "crash"
    resets,        \* resets triggered by the agent's reconciler
    stopped,       \* the machine was reset
    interrupted,   \* the agent was not there all the time, and no device for it
    removed        \* the manager removed the node's resources

manager == <<configured, config>>
node == <<machine, resetIn, rebooted>>
network == <<api, peers>>
check == <<left, errorCount, silence>>
process == <<agent, settings, check, seeIn>>
history == <<cause, resets, stopped, interrupted, removed>>
vars == <<snr, stored, annotation, manager, node, network, process, history>>

\* An SNR is "fresh" in the tick it was created in; timeLeft is the time until
\* its TimeAssumedRebooted.  A deleted SNR stays while it has its finalizer.
SNRs == [exists : BOOLEAN, identity : SNRIdentities, fresh : BOOLEAN,
         phase : FencingStarted .. FencingCompleted, timeLeft : Nat,
         finalizer : BOOLEAN, deleted : BOOLEAN]

NoSNR == [exists |-> FALSE,
          identity |-> [name |-> "snr", annotation |-> None, owners |-> {},
                        machine |-> "m2", nodeRef |-> None],
          fresh |-> FALSE, phase |-> FencingStarted, timeLeft |-> 0,
          finalizer |-> FALSE, deleted |-> FALSE]

\* Mutant: the errors a process has counted outlive it.
ProcessGoneButErrors ==
    /\ agent' = "off"
    /\ left' = 0
    /\ silence' = 0
    /\ seeIn' = 0
    /\ UNCHANGED errorCount

\* What a process that is gone leaves of its state.
ProcessGone ==
    /\ agent' = "off"
    /\ left' = 0
    /\ errorCount' = 0
    /\ silence' = 0
    /\ seeIn' = 0

----------------------------------------------------------------------------
\* Which node an SNR is for (controllers/owner_and_name.go).

getNodeNameDirect(id) ==
    IF id.annotation # None THEN id.annotation ELSE id.name

\* None stands for the error of a Machine without a nodeRef.
getNodeName(id) ==
    IF "Machine" \in id.owners /\ "NodeHealthCheck" \notin id.owners
    THEN id.nodeRef ELSE getNodeNameDirect(id)

\* Mutant: the agent acts on the SNR of any node.
IsSNRMatchingAny(id, nodeName, machineName) == TRUE

IsSNRMatching(id, nodeName, machineName) ==
    \/ "Machine" \in id.owners /\ machineName = id.machine
    \/ getNodeName(id) = nodeName

----------------------------------------------------------------------------
\* The calculator (pkg/reboot/calculator.go, pkg/utils/annotations.go).

MaxTimeForNoPeersResponse == HalfMinute
defaultWatchdogTimeout == 2 * HalfMinute
rebootBuffer == HalfMinute

\* The watchdog's timeout by the Node's annotations, or the default.
watchdogTimeout(a) ==
    IF a.hasTimeout THEN a.timeout ELSE defaultWatchdogTimeout

apiCheckDuration(c) == c.ApiCheckInterval + c.ApiServerTimeout
peerRequestDuration(c) == c.PeerDialTimeout + c.PeerRequestTimeout

calcNumOfBatches == GetNrOfBatches(Workers)

\* Mutant: the peers are not waited for.
calculateMinimumRebootDurationNoPeers(c, a) ==
    c.MaxApiErrorThreshold * apiCheckDuration(c)
      + watchdogTimeout(a) + rebootBuffer

calculateMinimumRebootDuration(c, a) ==
    c.MaxApiErrorThreshold * apiCheckDuration(c)
      + AtLeast(MaxTimeForNoPeersResponse,
                calcNumOfBatches * peerRequestDuration(c))
      + watchdogTimeout(a) + rebootBuffer

GetRebootDuration(c, a) ==
    AtLeast(calculateMinimumRebootDuration(c, a), c.safeTime)

----------------------------------------------------------------------------
\* The manager.

\* NHC creates an SNR.
CreateSNR ==
    /\ ~snr.exists
    /\ \E id \in Identities :
         snr' = [NoSNR EXCEPT !.exists = TRUE, !.identity = id, !.fresh = TRUE]
    /\ rebooted' = FALSE
    /\ resets' = 0
    /\ stopped' = (machine = "down")
    /\ interrupted' = (machine = "up" /\ agent = "off")
    /\ removed' = FALSE
    /\ UNCHANGED <<stored, annotation, manager, machine, resetIn, network,
                   process, cause>>

\* NHC deletes it, for instance because the node is ready again.
DeleteSNR ==
    /\ "deletion" \in Env
    /\ snr.exists
    /\ ~snr.deleted
    /\ snr' = IF snr.finalizer THEN [snr EXCEPT !.deleted = TRUE] ELSE NoSNR
    /\ UNCHANGED <<stored, annotation, manager, node, network, process, history>>

\* A reconcile starts by getting the Node, here MyNodeName's.  That the agent's
\* pod exists is no guard below: it does, whatever became of its process.
getNodeFromSnr == snr.exists /\ getNodeName(snr.identity) = MyNodeName

\* The finalizer is not added to an SNR that is being deleted; afterwards the
\* remediation goes on even then.
AddFinalizer ==
    /\ getNodeFromSnr
    /\ snr.phase = FencingStarted
    /\ annotation.capable
    /\ ~snr.finalizer
    /\ ~snr.deleted
    /\ snr' = [snr EXCEPT !.finalizer = TRUE]
    /\ UNCHANGED <<stored, annotation, manager, node, network, process, history>>

\* GetRebootDuration fails as long as the calculator has no configuration.
hasConfig == configured

\* The reboot is prepared: prepareReboot's last turn.  An agent that is
\* connected gets to see it.
CompletePreReboot ==
    /\ getNodeFromSnr
    /\ snr.phase = FencingStarted
    /\ annotation.capable
    /\ snr.finalizer
    /\ hasConfig
    /\ snr' = [snr EXCEPT !.phase = PreRebootCompleted,
                          !.timeLeft = GetRebootDuration(config, annotation)]
    /\ seeIn' = IF agent = "off" THEN 0 ELSE AgentLag
    /\ UNCHANGED <<stored, annotation, manager, node, network, agent, settings,
                   check, history>>

wasNodeRebooted == snr.timeLeft = 0

AssumeRebooted ==
    /\ getNodeFromSnr
    /\ snr.phase = PreRebootCompleted
    /\ wasNodeRebooted
    /\ snr' = [snr EXCEPT !.phase = RebootCompleted]
    /\ UNCHANGED <<stored, annotation, manager, node, network, process, history>>

\* Pods and volume attachments are deleted, or the out-of-service taint has
\* them deleted.
RemoveResources ==
    /\ getNodeFromSnr
    /\ snr.phase = RebootCompleted
    /\ removed' = TRUE
    /\ snr' = [snr EXCEPT !.phase = FencingCompleted]
    /\ UNCHANGED <<stored, annotation, manager, node, network, process, cause,
                   resets, stopped, interrupted>>

\* The node is recovered and the finalizer removed once the SNR is deleted.
RecoverNode ==
    /\ getNodeFromSnr
    /\ snr.phase = FencingCompleted
    /\ snr.deleted
    /\ snr' = NoSNR
    /\ removed' = FALSE
    /\ UNCHANGED <<stored, annotation, manager, node, network, process, cause,
                   resets, stopped, interrupted>>

\* The administrator edits the configuration.
ChangeConfig ==
    /\ "configChange" \in Env
    /\ stored' \in Configs \ {stored}
    /\ UNCHANGED <<snr, annotation, manager, node, network, process, history>>

\* The configuration's reconciler hands the spec to the calculator.
SetConfig ==
    /\ ~configured \/ config # stored
    /\ configured' = TRUE
    /\ config' = stored
    /\ UNCHANGED <<snr, stored, annotation, node, network, process, history>>

\* A new manager starts with a calculator that has no configuration.
RestartManager ==
    /\ "managerRestart" \in Env
    /\ configured
    /\ configured' = FALSE
    /\ UNCHANGED <<snr, stored, annotation, config, node, network, process,
                   history>>

----------------------------------------------------------------------------
\* The agent.

\* Mutant: the node's uptime is not looked at.
didIRebootMyselfNot == FALSE

\* The uptime is less than the age of the SNR: the machine came up later.
didIRebootMyself == rebooted

\* The watchdog is not fed any more: its device resets the machine in time.
\* Without a device the software reboot takes effect at once.
Reboot(by) ==
    /\ machine' = "expiring"
    /\ resetIn' = IF machine = "expiring" THEN resetIn ELSE WatchdogTimeout
    /\ cause' = IF machine = "expiring" THEN cause ELSE by

\* The agent's reconciler sees an SNR to act upon.  It knows no machine name.
rebootIfNeeded ==
    /\ agent # "off"
    /\ api
    /\ snr.exists
    /\ ~snr.deleted
    /\ IsSNRMatching(snr.identity, MyNodeName, None)
    /\ snr.phase = PreRebootCompleted
    /\ ~didIRebootMyself

ReconcileAgent ==
    /\ rebootIfNeeded
    /\ machine = "up"
    /\ Reboot("reconcile")
    /\ UNCHANGED <<snr, stored, annotation, manager, rebooted, network, process,
                   resets, stopped, interrupted, removed>>

\* The timeout is read before Start has opened the device.
GetTimeout == 0

UpdateNodeAnnotations ==
    annotation' = [capable |-> WatchdogTimeout > 0 \/ SoftwareReboot,
                   hasTimeout |-> TRUE, timeout |-> GetTimeout]

\* A process of the agent starts: it writes the annotations, checks the API
\* server at once and opens the device, which a process before it may have
\* left to expire.  Without the API server it exits before any of that.
StartAgent ==
    /\ agent = "off"
    /\ machine # "down"
    /\ api
    /\ UpdateNodeAnnotations
    /\ agent' = "check"
    /\ left' = settings.ApiServerTimeout
    /\ errorCount' = 0
    /\ silence' = 0
    /\ seeIn' = IF snr.phase = PreRebootCompleted THEN AgentLag ELSE 0
    /\ IF WatchdogTimeout > 0
       THEN machine' = "up" /\ resetIn' = 0 /\ cause' = None
       ELSE UNCHANGED <<machine, resetIn, cause>>
    /\ interrupted' = (interrupted \/ machine = "expiring")
    /\ UNCHANGED <<snr, stored, manager, rebooted, network, settings,
                   resets, stopped, removed>>

\* The process dies.  Its device goes on counting.
CrashAgent ==
    /\ "crash" \in Env
    /\ agent # "off"
    /\ ProcessGone
    /\ IF WatchdogTimeout > 0
       THEN Reboot("crash") /\ UNCHANGED interrupted
       ELSE /\ interrupted' = TRUE
            /\ UNCHANGED <<machine, resetIn, cause>>
    /\ UNCHANGED <<snr, stored, annotation, manager, rebooted, network,
                   settings, resets, stopped, removed>>

\* The pod is stopped, for instance by a rollout of the DaemonSet: the
\* watchdog is disarmed unless it is triggered.  The pod that follows has the
\* settings of the DaemonSet's template, and feeds the device anew.
StopPod ==
    /\ "podStop" \in Env
    /\ agent # "off"
    /\ ProcessGone
    /\ settings' \in {settings, stored}
    /\ interrupted' = (interrupted \/ machine = "up")
    /\ UNCHANGED <<snr, stored, annotation, manager, node, network, cause,
                   resets, stopped, removed>>

----------------------------------------------------------------------------
\* The connectivity check of the agent.

WaitForInterval == agent' = "wait" /\ left' = settings.ApiCheckInterval

StartCheck ==
    /\ agent = "wait"
    /\ left = 0
    /\ agent' = "check"
    /\ left' = settings.ApiServerTimeout
    /\ UNCHANGED <<snr, stored, annotation, manager, node, network, settings,
                   errorCount, silence, seeIn, history>>

CheckSucceeds ==
    /\ agent = "check"
    /\ api
    /\ errorCount' = 0
    /\ WaitForInterval
    /\ UNCHANGED <<snr, stored, annotation, manager, node, network, settings,
                   silence, seeIn, history>>

\* What a round takes in which all peers are asked.
roundDuration(c) == GetNrOfBatches(Workers - 1) * peerRequestDuration(c)

asks == errorCount + 1 >= settings.MaxApiErrorThreshold /\ Workers > 1

\* The number of errors matters up to the threshold.
CheckFails ==
    /\ agent = "check"
    /\ ~api
    /\ errorCount' = AtMost(settings.MaxApiErrorThreshold, errorCount + 1)
    /\ IF asks
       THEN agent' = "ask" /\ left' = roundDuration(settings)
       ELSE WaitForInterval
    /\ UNCHANGED <<snr, stored, annotation, manager, node, network, settings,
                   silence, seeIn, history>>

\* A peer answers: unhealthy if there is an SNR for the node.
PeerAnswers ==
    /\ agent = "ask"
    /\ peers
    /\ silence' = 0
    /\ WaitForInterval
    /\ IF snr.exists /\ IsSNRMatching(snr.identity, MyNodeName, MyMachineName)
       THEN Reboot("check") /\ UNCHANGED errorCount
       ELSE errorCount' = 0 /\ UNCHANGED <<machine, resetIn, cause>>
    /\ UNCHANGED <<snr, stored, annotation, manager, rebooted, network,
                   settings, seeIn, resets, stopped, interrupted,
                   removed>>

\* No peer answers: unhealthy if none did for too long.
PeersAreSilent ==
    /\ agent = "ask"
    /\ ~peers
    /\ WaitForInterval
    /\ IF silence > MaxTimeForNoPeersResponse
       THEN Reboot("check")
       ELSE UNCHANGED <<machine, resetIn, cause>>
    /\ UNCHANGED <<snr, stored, annotation, manager, rebooted, network,
                   settings, errorCount, silence, seeIn, resets,
                   stopped, interrupted, removed>>

----------------------------------------------------------------------------
\* The machine, the network and the clock.

\* A machine is down for at least a tick.
GoDown ==
    /\ machine' = "down"
    /\ resetIn' = 1
    /\ cause' = None
    /\ ProcessGone
    /\ stopped' = TRUE

ResetMachine ==
    /\ machine = "expiring"
    /\ GoDown
    /\ resets' = IF cause = "reconcile" THEN resets + 1 ELSE resets
    /\ UNCHANGED <<snr, stored, annotation, manager, rebooted, network,
                   settings, interrupted, removed>>

FailMachine ==
    /\ "machineFailure" \in Env
    /\ machine # "down"
    /\ GoDown
    /\ UNCHANGED <<snr, stored, annotation, manager, rebooted, network,
                   settings, resets, interrupted, removed>>

Boot ==
    /\ machine = "down"
    /\ resetIn = 0
    /\ machine' = "up"
    /\ rebooted' = (snr.exists /\ ~snr.fresh)
    /\ UNCHANGED <<snr, stored, annotation, manager, resetIn, network, process,
                   history>>

\* The node loses the API server.  An outage that hits a remediation between
\* its preparation and the reset of the node lasts until then.
ChangeApi ==
    /\ "apiLoss" \in Env
    /\ api \/ snr.phase # PreRebootCompleted \/ stopped
    /\ api' = ~api
    /\ UNCHANGED <<snr, stored, annotation, manager, node, peers, process,
                   history>>

ChangePeers ==
    /\ "peerLoss" \in Env
    /\ peers' = ~peers
    /\ UNCHANGED <<snr, stored, annotation, manager, node, api, process,
                   history>>

Less(n) == IF n = 0 THEN 0 ELSE n - 1

\* silence matters up to MaxTimeForNoPeersResponse.
Tick ==
    /\ agent # "off" => left > 0
    /\ machine = "expiring" => resetIn > 0
    /\ rebootIfNeeded /\ machine = "up" => seeIn > 0
    /\ snr' = [snr EXCEPT !.timeLeft = Less(@), !.fresh = FALSE]
    /\ resetIn' = Less(resetIn)
    /\ left' = Less(left)
    /\ seeIn' = Less(seeIn)
    /\ silence' = IF agent = "off" THEN 0
                  ELSE AtMost(MaxTimeForNoPeersResponse + 1, silence + 1)
    /\ UNCHANGED <<stored, annotation, manager, machine, rebooted, network,
                   agent, settings, errorCount, history>>

----------------------------------------------------------------------------
Init ==
    /\ snr = NoSNR
    /\ stored \in Configs
    /\ annotation \in [capable : BOOLEAN, hasTimeout : {FALSE},
                       timeout : {0}]
    /\ configured = FALSE
    /\ config = stored
    /\ machine = "up"
    /\ resetIn = 0
    /\ rebooted = FALSE
    /\ api = TRUE
    /\ peers = TRUE
    /\ agent = "off"
    /\ settings = stored
    /\ left = 0
    /\ errorCount = 0
    /\ silence = 0
    /\ seeIn = 0
    /\ cause = None
    /\ resets = 0
    /\ stopped = FALSE
    /\ interrupted = FALSE
    /\ removed = FALSE

Manager == AddFinalizer \/ CompletePreReboot \/ AssumeRebooted
             \/ RemoveResources \/ RecoverNode \/ SetConfig
Agent == ReconcileAgent \/ StartAgent \/ StartCheck \/ CheckSucceeds
           \/ CheckFails \/ PeerAnswers \/ PeersAreSilent
Machine == ResetMachine \/ Boot
Environment == CreateSNR \/ DeleteSNR \/ ChangeConfig \/ RestartManager
                 \/ CrashAgent \/ StopPod \/ FailMachine \/ ChangeApi
                 \/ ChangePeers

Next == Manager \/ Agent \/ Machine \/ Environment \/ Tick

Spec == Init /\ [][Next]_vars

----------------------------------------------------------------------------
\* Properties.

TypeOK ==
    /\ snr \in SNRs
    /\ stored \in Configs
    /\ annotation \in [capable : BOOLEAN, hasTimeout : BOOLEAN, timeout : {0}]
    /\ configured \in BOOLEAN
    /\ config \in Configs
    /\ machine \in {"up", "expiring", "down"}
    /\ resetIn \in Nat
    /\ rebooted \in BOOLEAN
    /\ api \in BOOLEAN
    /\ peers \in BOOLEAN
    /\ agent \in {"off", "wait", "check", "ask"}
    /\ settings \in Configs
    /\ left \in 0 .. CASE agent = "off" -> 0
                        [] agent = "wait" -> settings.ApiCheckInterval
                        [] agent = "check" -> settings.ApiServerTimeout
                        [] agent = "ask" -> roundDuration(settings)
    /\ errorCount \in 0 .. settings.MaxApiErrorThreshold
    /\ silence \in 0 .. MaxTimeForNoPeersResponse + 1
    /\ seeIn \in 0 .. AgentLag
    /\ cause \in {None, "reconcile", "check", "crash"}
    /\ resets \in Nat
    /\ stopped \in BOOLEAN
    /\ interrupted \in BOOLEAN
    /\ removed \in BOOLEAN

\* The longest time from the moment a node without the API server could find
\* out about its SNR until it asks for a reboot: all failed checks, or the
\* silence of the peers that is tolerated and a last check, and one round of
\* questions.
detectDuration(c) ==
    AtLeast(MaxTimeForNoPeersResponse + apiCheckDuration(c),
            c.MaxApiErrorThreshold * apiCheckDuration(c))
      + roundDuration(c)

\* The longest time from there until the machine is reset, the delay of the
\* SNR on its way to the agent included.
stopDuration(c) == AgentLag + detectDuration(c) + WatchdogTimeout

\* The duration the manager waits for is longer than what the node needs,
\* whatever configurations the two of them happen to have.  Were it as long,
\* the manager could be the first to act at its end.
SafeTimeCovers ==
    /\ Workers > 1
    /\ \A c \in Configs, s \in Configs,
          a \in [capable : BOOLEAN, hasTimeout : BOOLEAN, timeout : {0}] :
         GetRebootDuration(c, a) > stopDuration(s)

\* The documented promise, of a node whose agent was there all the time: the
\* manager removes its resources only after it was reset.
RebootedBeforeRemoval == removed => stopped \/ interrupted

\* The promise as the code keeps it if SafeTimeCovers.  The resources are
\* removed from a running node only if its agent was interrupted: stopped, dead
\* without a watchdog to stand in, or restarted in time to feed one that was
\* about to reset the node; or the SNR was deleted, which the agent takes for
\* the end of the remediation and the manager does not.
PromisedFence ==
    INSTANCE Fence WITH ongoing <- snr.exists,
                        stopped <- stopped \/ interrupted \/ snr.deleted
FenceKept == PromisedFence!Spec

\* The agent's reconciler resets its machine once per SNR: the uptime tells
\* it apart from a machine that is still to be reset, also when the machine
\* failed or was reset by the check meanwhile.
NoRebootLoop == resets <= 1

\* A node with an agent is rebooted only for an SNR that the manager takes to
\* be for the same node, unless none of its peers answers: agent and peers
\* look at the SNR's machine where the manager looks at its node.
BystanderStays ==
    [][machine = "up" /\ machine' = "expiring" /\ cause' # "crash"
         => getNodeFromSnr \/ ~peers]_vars

============================================================================
