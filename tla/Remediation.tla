---------------------------- MODULE Remediation ----------------------------
(***************************************************************************)
(* The remediation of one unhealthy node by the self-node-remediation      *)
(* manager: the SelfNodeRemediationReconciler in its manager role          *)
(* (controllers/selfnoderemediation_controller.go), together with what it  *)
(* runs against: the API server, the informer caches the reconciler reads  *)
(* from, the work queue that triggers it, the NodeHealthCheck operator     *)
(* (NHC) that creates, times out and deletes the SelfNodeRemediation (SNR) *)
(* object, and the Kubernetes controllers that react to the taints.        *)
(*                                                                         *)
(* The API server keeps one SNR and one Node object.  An object is a       *)
(* window of versions: the first version is the one the manager's cache    *)
(* holds, the last is the server's; a cache delivery drops the first.  A   *)
(* full update is accepted only from a writer that holds the server's      *)
(* version, a merge patch always.  Each API call of the reconciler is a    *)
(* step of its own; the reads, which come from the caches, are taken when  *)
(* Reconcile starts.                                                       *)
(***************************************************************************)
EXTENDS Naturals, Sequences

CONSTANTS
    Strategies,      \* runtime strategies of the SNRs that NHC creates
    RebootDuration,  \* what RebootDurationCalculator.GetRebootDuration returns
    DeletionWait,    \* how long resource deletion may take (300 s in the code)
    Stateful,        \* the pods of the node have volumes attached
    Env,             \* optional behaviours of the environment, see EnvKinds
    MaxNow,          \* bound on the clock
    MaxLag,          \* bound on the versions of an object in its window
    MaxFaults,       \* bound on API failures, restarts and foreign writes
    MaxSNRs          \* bound on the SNRs created one after the other

AllStrategies == {"ResourceDeletion", "OutOfServiceTaint"}

\* What the environment does beyond creating and deleting SNRs.
EnvKinds == {"apiFailure", "restart", "foreignTaint", "nhcTimeout",
             "incapable", "config", "exclude", "nodeDeletion",
             "otherFinalizer"}

ASSUME StrategiesAssumption == Strategies \subseteq AllStrategies
ASSUME DurationAssumption == /\ RebootDuration \in Nat \ {0}
                             /\ DeletionWait \in Nat
ASSUME EnvAssumption == Env \subseteq EnvKinds /\ Stateful \in BOOLEAN
ASSUME BoundsAssumption == /\ MaxNow \in Nat
                           /\ MaxLag \in Nat \ {0, 1}
                           /\ MaxFaults \in Nat
                           /\ MaxSNRs \in Nat

----------------------------------------------------------------------------
\* The objects.

\* remediationPhase, in the order a remediation goes through.
FencingStarted == 0
PreRebootCompleted == 1
RebootCompleted == 2
FencingCompleted == 3
Phases == FencingStarted .. FencingCompleted

NodeUnschedulableTaint == "unschedulable"
NodeNoExecuteTaint == "remediation"
OutOfServiceTaint == "out-of-service"
ForeignTaint == "foreign"
Taints == {NodeUnschedulableTaint, NodeNoExecuteTaint, OutOfServiceTaint,
           ForeignTaint}

NoTime == 0

\* "none": no Processing condition; then the pair (Processing, Succeeded):
\* started (True, Unknown), finished (False, True), failed (False, False).
Conditions == {"none", "started", "finished", "failed"}

SNRs == [uid : Nat, strategy : AllStrategies, deleted : BOOLEAN,
         finalizer : BOOLEAN, held : BOOLEAN, timedOut : BOOLEAN,
         phase : Phases, timeAssumedRebooted : Nat, lastError : BOOLEAN,
         condition : Conditions, disabled : BOOLEAN]

\* The absent SNR has uid 0.  "finalizer" is the reconciler's own finalizer;
\* "held" says that a finalizer of somebody else keeps the object.
NoSNR == [uid |-> 0, strategy |-> "ResourceDeletion", deleted |-> FALSE,
          finalizer |-> FALSE, held |-> FALSE, timedOut |-> FALSE,
          phase |-> FencingStarted, timeAssumedRebooted |-> NoTime,
          lastError |-> FALSE, condition |-> "none", disabled |-> FALSE]

Exists(s) == s.uid # 0

\* An object that is being deleted is gone when no finalizer keeps it.
reap(s) == IF s.deleted /\ ~s.finalizer /\ ~s.held THEN NoSNR ELSE s

Nodes == [exists : BOOLEAN, unschedulable : BOOLEAN, taints : SUBSET Taints,
          excluded : BOOLEAN]

NoNode == [exists |-> FALSE, unschedulable |-> FALSE, taints |-> {},
           excluded |-> FALSE]

CleanNode == [exists |-> TRUE, unschedulable |-> FALSE, taints |-> {},
              excluded |-> FALSE]

Workloads == {"running", "terminating", "gone"}

ProgramPoints == {"idle", "remediate", "cordon", "drain", "untaint",
                  "unfinalize", "lastError", "status"}

----------------------------------------------------------------------------
VARIABLES
    snrs, nodes,        \* windows of versions of the SNR and of the Node
    pc,                 \* where the manager's reconcile is
    snr, snrFresh,      \* its SNR, and whether it holds the server's version
    node, nodeFresh,    \* its Node, likewise
    failed, requeue,    \* the error and the RequeueAfter it will return
    queued, timer,      \* SNR is in the work queue / in the delaying queue
    now,                \* the clock
    workload,           \* the pods of the node and their volume attachments
    capable,            \* agent pod and is-reboot-capable annotation present
    config, enabling,   \* the configuration exists / its reconcile is due
    born, faults        \* SNRs created and faults injected so far

objects == <<snrs, nodes>>
local == <<snr, snrFresh, node, nodeFresh, failed, requeue>>
queue == <<queued, timer>>
world == <<now, workload, capable, config, enabling, born, faults>>
vars == <<objects, pc, local, queue, world>>

\* What a step of the reconciler between its start and its end leaves alone.
around == <<queue, now, capable, config, enabling, born>>

Cached(w) == w[1]
Server(w) == w[Len(w)]

\* The window after version v is stored; a write that changes nothing makes
\* no version.
Store(w, v) == IF v = Server(w) THEN w ELSE Append(w, v)

\* The bound on the window: a write waits for a delivery.
Room(w) == Len(w) < MaxLag


----------------------------------------------------------------------------
\* Helpers of the reconciler.

\* The timed-out annotation stops a remediation, unless it is being deleted.
isStoppedByNHC(s) == s.timedOut /\ ~s.deleted

\* Mutant: the comparison is off by one.
wasNodeRebootedEarly(s) == ~(s.timeAssumedRebooted > now + 1)

\* wasNodeRebooted: TimeAssumedRebooted is not in the future any more.
wasNodeRebooted(s) == ~(s.timeAssumedRebooted > now)

isResourceDeletionExpired(s) == ~(s.timeAssumedRebooted + DeletionWait > now)

\* Mutant: volume attachments are not looked at.
isResourceDeletionCompletedPodsOnly == workload # "terminating"

\* isResourceDeletionCompleted: no terminating pod, no volume attachment.
\* The volumes stay attached while a pod that uses them has an object.
isResourceDeletionCompleted ==
    /\ workload # "terminating"
    /\ ~(Stateful /\ workload # "gone")

\* What the manager's caches let it conclude.  The pods and the attachments
\* are on the node since before the remediation, so none is missing from the
\* caches; but a pod that was just marked for deletion may still be listed
\* without the mark.
seesDeletionCompleted ==
    \/ isResourceDeletionCompleted
    \/ ~Stateful /\ workload = "terminating"

\* The agent pod is there, and the is-reboot-capable annotation is true.
isNodeRebootCapable == capable

DeleteTaint(taints, taintToDelete) == taints \ {taintToDelete}

\* prepareReboot's last check before the reboot time is computed.
isUnschedulable(n) == /\ n.unschedulable
                      /\ NodeUnschedulableTaint \in n.taints

\* Mutant: the reboot duration is subtracted.
setTimeAssumedRebootedInThePast(s) ==
    [s EXCEPT !.timeAssumedRebooted = now - RebootDuration]

\* Mutant: the time is not kept.
setTimeAssumedRebootedNot(s) == s

\* The time is set once.
setTimeAssumedRebooted(s) ==
    [s EXCEPT !.timeAssumedRebooted =
        IF @ # NoTime THEN @ ELSE now + RebootDuration]

\* updateConditions(remediationStarted) unless fencing is completed.
startCondition(s) ==
    IF s.phase = FencingCompleted THEN s
    ELSE [s EXCEPT !.condition = "started"]

\* The server's SNR after a status update from s: metadata is left alone.
withStatusOf(s, old) ==
    [old EXCEPT !.phase = s.phase,
                !.timeAssumedRebooted = s.timeAssumedRebooted,
                !.lastError = s.lastError,
                !.condition = s.condition,
                !.disabled = s.disabled]

----------------------------------------------------------------------------
\* API calls of the reconciler.  A successful call replaces the local object
\* by the server's answer.

\* Client.Update on the SNR with its finalizer set to f.  The status part of
\* the local SNR is not written, and is lost with the answer.
updateFinalizer(f) ==
    LET answer == [Server(snrs) EXCEPT !.finalizer = f]
    IN  /\ snrFresh /\ Room(snrs)
        /\ snrs' = Store(snrs, reap(answer))
        /\ snr' = answer
        /\ snrFresh' = Exists(reap(answer))

\* An update that is refused because the SNR changed or is gone.
snrConflict == ~snrFresh /\ UNCHANGED <<snrs, snr, snrFresh>>

\* Client.Update on the Node with Spec.Unschedulable set to u.
updateUnschedulable(u) ==
    /\ nodeFresh /\ Room(nodes)
    /\ nodes' = Store(nodes, [node EXCEPT !.unschedulable = u])

nodeConflict == ~nodeFresh /\ Server(nodes).exists /\ UNCHANGED nodes

nodeNotFound == ~nodeFresh /\ ~Server(nodes).exists /\ UNCHANGED nodes

\* Client.Patch on the Node: a merge patch that replaces the list of taints
\* whatever the server's version is.
patchTaints(taints) ==
    /\ Server(nodes).exists /\ Room(nodes)
    /\ nodes' = Store(nodes, [Server(nodes) EXCEPT !.taints = taints])

\* Leave the phase handlers; updateSnrStatusLastError is next.
Return(err, again) ==
    /\ pc' = "lastError"
    /\ failed' = err /\ requeue' = again
    /\ node' = NoNode /\ nodeFresh' = FALSE

\* Go on inside the phase handlers with the server's answer as Node.
GoOn(next) ==
    /\ pc' = next
    /\ node' = Server(nodes') /\ nodeFresh' = TRUE
    /\ UNCHANGED <<failed, requeue>>

Skip(next) == pc' = next /\ UNCHANGED <<nodes, node, nodeFresh, failed, requeue>>

\* An API call fails for a reason other than a conflict and changes nothing.
apiError ==
    /\ "apiFailure" \in Env /\ faults < MaxFaults
    /\ faults' = faults + 1
    /\ Return(TRUE, FALSE)
    /\ UNCHANGED <<objects, snr, snrFresh>>

noFault == UNCHANGED faults

----------------------------------------------------------------------------
\* ReconcileManager, from the start up to the phase switch: the reads.

\* Reconcile starts on the cached SNR and ends, or goes on, at "next".
Begin(s, next, err) ==
    /\ pc = "idle" /\ queued
    /\ pc' = next
    /\ queued' = FALSE
    /\ snr' = s /\ snrFresh' = (Len(snrs) = 1)
    /\ failed' = err /\ requeue' = FALSE
    /\ UNCHANGED <<objects, timer, world>>

SNRAlreadyDeleted ==
    /\ pc = "idle" /\ queued
    /\ ~Exists(Cached(snrs))
    /\ queued' = FALSE
    /\ UNCHANGED <<objects, pc, local, timer, world>>

ConfigurationNotFound ==
    /\ Exists(Cached(snrs)) /\ ~config
    /\ Begin([Cached(snrs) EXCEPT !.disabled = TRUE], "status", FALSE)
    /\ UNCHANGED <<node, nodeFresh>>

StoppedByNHC ==
    /\ Exists(Cached(snrs)) /\ config
    /\ isStoppedByNHC(Cached(snrs))
    /\ Begin([Cached(snrs) EXCEPT !.condition = "failed"], "status", FALSE)
    /\ UNCHANGED <<node, nodeFresh>>

isRunning(s) == Exists(s) /\ config /\ ~isStoppedByNHC(s)

TargetNodeNotFound ==
    /\ isRunning(Cached(snrs)) /\ ~Cached(nodes).exists
    /\ Begin([Cached(snrs) EXCEPT !.condition = "failed"], "lastError", TRUE)
    /\ UNCHANGED <<node, nodeFresh>>

SkipExcludedNode ==
    /\ isRunning(Cached(snrs)) /\ Cached(nodes).exists
    /\ Cached(nodes).excluded
    /\ Begin(startCondition(Cached(snrs)), "status", FALSE)
    /\ UNCHANGED <<node, nodeFresh>>

Remediate ==
    /\ isRunning(Cached(snrs)) /\ Cached(nodes).exists
    /\ ~Cached(nodes).excluded
    /\ Begin(startCondition(Cached(snrs)), "remediate", FALSE)
    /\ node' = Cached(nodes) /\ nodeFresh' = (Len(nodes) = 1)

----------------------------------------------------------------------------
\* Phase Fencing-Started: prepareReboot.

preparing == pc = "remediate" /\ snr.phase = FencingStarted

NodeNotRebootCapable ==
    /\ preparing /\ ~isNodeRebootCapable
    /\ Return(TRUE, FALSE)
    /\ UNCHANGED <<objects, snr, snrFresh, workload, faults, around>>

AddFinalizer ==
    /\ preparing /\ isNodeRebootCapable /\ ~snr.finalizer
    /\ UNCHANGED <<nodes, workload, around>>
    /\ IF snr.deleted
       THEN Return(FALSE, FALSE) /\ noFault /\ UNCHANGED <<snrs, snr, snrFresh>>
       ELSE \/ updateFinalizer(TRUE) /\ Return(FALSE, TRUE) /\ noFault
            \/ snrConflict /\ Return(FALSE, TRUE) /\ noFault
            \/ apiError

AddNoExecuteTaint ==
    /\ preparing /\ isNodeRebootCapable /\ snr.finalizer
    /\ UNCHANGED <<snrs, snr, snrFresh, workload, around>>
    /\ IF NodeNoExecuteTaint \in node.taints
       THEN Skip("cordon") /\ noFault
       ELSE \/ /\ patchTaints(node.taints \union {NodeNoExecuteTaint})
               /\ GoOn("cordon") /\ noFault
            \/ nodeNotFound /\ Return(TRUE, FALSE) /\ noFault
            \/ apiError

MarkNodeAsUnschedulable ==
    /\ pc = "cordon" /\ ~isUnschedulable(node)
    /\ UNCHANGED <<snrs, snr, snrFresh, workload, around>>
    /\ IF node.unschedulable
       THEN Return(FALSE, TRUE) /\ noFault /\ UNCHANGED nodes
       ELSE \/ updateUnschedulable(TRUE) /\ Return(FALSE, TRUE) /\ noFault
            \/ nodeConflict /\ Return(FALSE, TRUE) /\ noFault
            \/ nodeNotFound /\ Return(TRUE, FALSE) /\ noFault
            \/ apiError

\* The phase and the time are set on the local SNR only; an error of the
\* calculator leaves them alone.
CompletePreReboot ==
    /\ pc = "cordon" /\ isUnschedulable(node)
    /\ UNCHANGED <<objects, snrFresh, workload, around>>
    /\ \/ /\ snr' = [setTimeAssumedRebooted(snr) EXCEPT !.phase = PreRebootCompleted]
          /\ Return(FALSE, FALSE) /\ noFault
       \/ apiError

----------------------------------------------------------------------------
\* Phase Pre-Reboot-Completed: waitForNodeRebooted.

\* Mutant: no RequeueAfter while the time has not come.
WaitForNodeRebootedOnce ==
    /\ pc = "remediate" /\ snr.phase = PreRebootCompleted
    /\ IF wasNodeRebooted(snr)
       THEN snr' = [snr EXCEPT !.phase = RebootCompleted]
       ELSE UNCHANGED snr
    /\ Return(FALSE, FALSE)
    /\ UNCHANGED <<objects, snrFresh, workload, faults, around>>

WaitForNodeRebooted ==
    /\ pc = "remediate" /\ snr.phase = PreRebootCompleted
    /\ IF wasNodeRebooted(snr)
       THEN /\ snr' = [snr EXCEPT !.phase = RebootCompleted]
            /\ Return(FALSE, FALSE)
       ELSE /\ UNCHANGED snr
            /\ Return(FALSE, TRUE)
    /\ UNCHANGED <<objects, snrFresh, workload, faults, around>>

----------------------------------------------------------------------------
\* Phase Reboot-Completed: the node's resources are removed.

removing(strategy) ==
    pc = "remediate" /\ snr.phase = RebootCompleted /\ snr.strategy = strategy

finished(s) == [s EXCEPT !.phase = FencingCompleted, !.condition = "finished"]

\* resources.DeletePods goes through the namespaces one by one: when it fails
\* some pods may be deleted already.
DeletePods ==
    /\ removing("ResourceDeletion")
    /\ UNCHANGED <<objects, snrFresh, around>>
    /\ \/ /\ workload' = "gone"
          /\ snr' = finished(snr)
          /\ Return(FALSE, FALSE) /\ noFault
       \/ workload' \in {workload, "gone"} /\ apiError

AddOutOfServiceTaint ==
    /\ removing("OutOfServiceTaint")
    /\ UNCHANGED <<snrs, snr, snrFresh, workload, around>>
    /\ IF OutOfServiceTaint \in node.taints
       THEN Skip("drain") /\ noFault
       ELSE \/ /\ patchTaints(node.taints \union {OutOfServiceTaint})
               /\ GoOn("drain") /\ noFault
            \/ nodeNotFound /\ Return(TRUE, FALSE) /\ noFault
            \/ apiError

\* A list that fails counts as not completed, and so does one that still shows
\* what is gone already.
WaitForResourceDeletion ==
    /\ pc = "drain"
    /\ \/ ~isResourceDeletionCompleted /\ noFault
       \/ /\ "apiFailure" \in Env /\ faults < MaxFaults
          /\ faults' = faults + 1
    /\ IF isResourceDeletionExpired(snr) THEN Return(TRUE, FALSE)
                                         ELSE Return(FALSE, TRUE)
    /\ UNCHANGED <<objects, snr, snrFresh, workload, around>>

RemoveOutOfServiceTaint ==
    /\ pc = "drain" /\ seesDeletionCompleted
    /\ UNCHANGED <<snrs, snrFresh, workload, around>>
    /\ \/ /\ patchTaints(DeleteTaint(node.taints, OutOfServiceTaint))
          /\ snr' = finished(snr)
          /\ Return(FALSE, FALSE) /\ noFault
       \/ nodeNotFound /\ Return(TRUE, FALSE) /\ noFault /\ UNCHANGED snr
       \/ apiError

----------------------------------------------------------------------------
\* Phase Fencing-Completed: recoverNode once the SNR is being deleted.

completed == pc = "remediate" /\ snr.phase = FencingCompleted

WaitForDeletion ==
    /\ completed /\ ~snr.deleted
    /\ Return(FALSE, FALSE)
    /\ UNCHANGED <<objects, snr, snrFresh, workload, faults, around>>

MarkNodeAsSchedulable ==
    /\ completed /\ snr.deleted
    /\ UNCHANGED <<snrs, snr, snrFresh, workload, around>>
    /\ IF ~node.unschedulable
       THEN Skip("untaint") /\ noFault
       ELSE \/ updateUnschedulable(FALSE) /\ GoOn("untaint") /\ noFault
            \/ nodeConflict /\ Return(FALSE, TRUE) /\ noFault
            \/ nodeNotFound /\ Return(TRUE, FALSE) /\ noFault
            \/ apiError

\* Mutant: a patch that fails is logged and the SNR is released nevertheless.
RemoveNoExecuteTaintOrSkip ==
    /\ pc = "untaint"
    /\ UNCHANGED <<snrs, snr, snrFresh, workload, around>>
    /\ IF NodeUnschedulableTaint \in node.taints
       THEN Return(FALSE, TRUE) /\ noFault /\ UNCHANGED nodes
       ELSE \/ /\ NodeNoExecuteTaint \in node.taints
               /\ patchTaints(DeleteTaint(node.taints, NodeNoExecuteTaint))
               /\ GoOn("unfinalize") /\ noFault
            \/ Skip("unfinalize") /\ noFault

RemoveNoExecuteTaint ==
    /\ pc = "untaint"
    /\ UNCHANGED <<snrs, snr, snrFresh, workload, around>>
    /\ IF NodeUnschedulableTaint \in node.taints
       THEN Return(FALSE, TRUE) /\ noFault /\ UNCHANGED nodes
       ELSE IF NodeNoExecuteTaint \notin node.taints
       THEN Skip("unfinalize") /\ noFault
       ELSE \/ /\ patchTaints(DeleteTaint(node.taints, NodeNoExecuteTaint))
               /\ GoOn("unfinalize") /\ noFault
            \/ nodeNotFound /\ Return(TRUE, FALSE) /\ noFault
            \/ apiError

RemoveFinalizer ==
    /\ pc = "unfinalize"
    /\ UNCHANGED <<nodes, workload, around>>
    /\ IF ~snr.finalizer
       THEN Return(FALSE, FALSE) /\ noFault /\ UNCHANGED <<snrs, snr, snrFresh>>
       ELSE \/ updateFinalizer(FALSE) /\ Return(FALSE, FALSE) /\ noFault
            \/ snrConflict /\ Return(TRUE, FALSE) /\ noFault
            \/ apiError

----------------------------------------------------------------------------
\* The end of ReconcileManager: updateSnrStatusLastError, the deferred
\* updateSnrStatus, and what controller-runtime does with the result.

\* LastError is patched when it changes; two failures may have the same
\* message or not.  The patch carries no resource version, and its answer
\* replaces the local SNR with everything set on it so far.
UpdateSnrStatusLastError ==
    /\ pc = "lastError"
    /\ pc' = "status"
    /\ UNCHANGED <<nodes, node, nodeFresh, requeue, workload, around>>
    /\ \/ /\ failed = snr.lastError
          /\ noFault /\ UNCHANGED <<snrs, snr, snrFresh, failed>>
       \/ /\ failed \/ snr.lastError
          /\ Exists(Server(snrs)) /\ Room(snrs)
          /\ snr' = [Server(snrs) EXCEPT !.lastError = failed]
          /\ snrs' = Append(snrs, snr')
          /\ snrFresh' = TRUE
          /\ noFault /\ UNCHANGED failed
       \/ /\ failed \/ snr.lastError
          /\ \/ ~Exists(Server(snrs)) /\ noFault
             \/ /\ "apiFailure" \in Env /\ faults < MaxFaults
                /\ faults' = faults + 1
          /\ snr' = [snr EXCEPT !.lastError = failed]
          /\ failed' = TRUE
          /\ UNCHANGED <<snrs, snrFresh>>

\* Mutant: the result is not turned into a requeue.
EndReconcileForgetful(again) ==
    /\ pc' = "idle"
    /\ snr' = NoSNR /\ snrFresh' = FALSE
    /\ failed' = FALSE /\ requeue' = FALSE
    /\ UNCHANGED <<nodes, node, nodeFresh, queued, timer, now, workload,
                   capable, config, enabling, born>>

\* The reconcile ends; with an error or a RequeueAfter the SNR is put into
\* the delaying queue.
EndReconcile(again) ==
    /\ pc' = "idle"
    /\ timer' = (timer \/ again)
    /\ snr' = NoSNR /\ snrFresh' = FALSE
    /\ failed' = FALSE /\ requeue' = FALSE
    /\ UNCHANGED <<nodes, node, nodeFresh, queued, now, workload, capable,
                   config, enabling, born>>

\* Mutant: the status is written whatever the server's version is.
statusUpdateAcceptedBlindly == Exists(Server(snrs))

\* Status().Update is accepted from the server's version only.
statusUpdateAccepted == snrFresh

UpdateSnrStatus ==
    /\ pc = "status"
    /\ \/ /\ statusUpdateAccepted /\ Room(snrs)
          /\ snrs' = Store(snrs, withStatusOf(snr, Server(snrs)))
          /\ EndReconcile(failed \/ requeue) /\ noFault
       \/ /\ ~statusUpdateAccepted
          /\ EndReconcile(TRUE) /\ noFault /\ UNCHANGED snrs
       \/ /\ "apiFailure" \in Env /\ faults < MaxFaults
          /\ faults' = faults + 1
          /\ EndReconcile(TRUE) /\ UNCHANGED snrs

Manager ==
    \/ SNRAlreadyDeleted \/ ConfigurationNotFound \/ StoppedByNHC
    \/ TargetNodeNotFound \/ SkipExcludedNode \/ Remediate
    \/ NodeNotRebootCapable \/ AddFinalizer \/ AddNoExecuteTaint
    \/ MarkNodeAsUnschedulable \/ CompletePreReboot
    \/ WaitForNodeRebooted
    \/ DeletePods \/ AddOutOfServiceTaint \/ WaitForResourceDeletion
    \/ RemoveOutOfServiceTaint
    \/ WaitForDeletion \/ MarkNodeAsSchedulable \/ RemoveNoExecuteTaint
    \/ RemoveFinalizer
    \/ UpdateSnrStatusLastError \/ UpdateSnrStatus

----------------------------------------------------------------------------
\* controller-runtime: informers, work queue, and the manager's process.

DeliverSNR ==
    /\ Len(snrs) > 1
    /\ snrs' = Tail(snrs)
    /\ queued' = TRUE
    /\ UNCHANGED <<nodes, pc, local, timer, world>>

DeliverNode ==
    /\ Len(nodes) > 1
    /\ nodes' = Tail(nodes)
    /\ UNCHANGED <<snrs, pc, local, queue, world>>

TimerFires ==
    /\ timer
    /\ timer' = FALSE /\ queued' = TRUE
    /\ UNCHANGED <<objects, pc, local, world>>

\* A new manager process lists the objects and reconciles each of them.
RestartManager ==
    /\ "restart" \in Env /\ faults < MaxFaults
    /\ faults' = faults + 1
    /\ snrs' = <<Server(snrs)>> /\ nodes' = <<Server(nodes)>>
    /\ pc' = "idle"
    /\ snr' = NoSNR /\ snrFresh' = FALSE
    /\ node' = NoNode /\ nodeFresh' = FALSE
    /\ failed' = FALSE /\ requeue' = FALSE
    /\ queued' = TRUE /\ timer' = FALSE
    /\ enabling' = config
    /\ UNCHANGED <<now, workload, capable, config, born>>

\* The configuration's reconciler, setCRsEnabledStatus: the Disabled
\* condition of a cached SNR is removed with an update of the cached version.
SetCRsEnabledStatus ==
    /\ enabling
    /\ UNCHANGED <<nodes, pc, snr, node, nodeFresh, failed, requeue, queue,
                   now, workload, capable, config, born, faults>>
    /\ \/ /\ ~(config /\ Cached(snrs).disabled)
          /\ enabling' = FALSE
          /\ UNCHANGED <<snrs, snrFresh>>
       \/ /\ config /\ Cached(snrs).disabled
          /\ Len(snrs) = 1
          /\ snrs' = Append(snrs, [Cached(snrs) EXCEPT !.disabled = FALSE])
          /\ snrFresh' = FALSE
          /\ enabling' = FALSE

Runtime == DeliverSNR \/ DeliverNode \/ TimerFires \/ SetCRsEnabledStatus


----------------------------------------------------------------------------
\* The environment.  Its writes make the reconciler's copies stale.

writeSNR(v) ==
    /\ Room(snrs)
    /\ snrs' = Append(snrs, v)
    /\ snrFresh' = FALSE
    /\ UNCHANGED <<nodes, pc, snr, node, nodeFresh, failed, requeue, queue>>

writeNode(v) ==
    /\ Room(nodes)
    /\ nodes' = Append(nodes, v)
    /\ nodeFresh' = FALSE
    /\ UNCHANGED <<snrs, pc, snr, snrFresh, node, failed, requeue, queue>>

Disturb(kind) == kind \in Env /\ faults < MaxFaults /\ faults' = faults + 1

CreateSNR(strategy, held) ==
    /\ ~Exists(Server(snrs)) /\ born < MaxSNRs
    /\ \/ held /\ Disturb("otherFinalizer")
       \/ ~held /\ noFault
    /\ born' = born + 1
    /\ writeSNR([NoSNR EXCEPT !.uid = born + 1, !.strategy = strategy,
                              !.held = held])
    /\ UNCHANGED <<now, workload, capable, config, enabling>>

DeleteSNR ==
    /\ Exists(Server(snrs)) /\ ~Server(snrs).deleted
    /\ writeSNR(reap([Server(snrs) EXCEPT !.deleted = TRUE]))
    /\ UNCHANGED world

\* Somebody else removes a finalizer.
ReleaseSNR ==
    /\ Exists(Server(snrs)) /\ Server(snrs).held
    /\ writeSNR(reap([Server(snrs) EXCEPT !.held = FALSE]))
    /\ UNCHANGED world

TimeOutSNR ==
    /\ "nhcTimeout" \in Env
    /\ Exists(Server(snrs)) /\ ~Server(snrs).deleted /\ ~Server(snrs).timedOut
    /\ writeSNR([Server(snrs) EXCEPT !.timedOut = TRUE])
    /\ UNCHANGED world

\* The node lifecycle controller keeps the unschedulable taint in step with
\* Spec.Unschedulable.
SyncUnschedulableTaint ==
    LET n == Server(nodes)
    IN  /\ n.exists
        /\ n.unschedulable # (NodeUnschedulableTaint \in n.taints)
        /\ writeNode([n EXCEPT !.taints = IF n.unschedulable
                                THEN @ \union {NodeUnschedulableTaint}
                                ELSE @ \ {NodeUnschedulableTaint}])
        /\ UNCHANGED world

\* Another client changes the Node: a taint of its own, ...
ToggleForeignTaint ==
    /\ Disturb("foreignTaint")
    /\ Server(nodes).exists
    /\ writeNode([Server(nodes) EXCEPT !.taints =
                    IF ForeignTaint \in @ THEN @ \ {ForeignTaint}
                                          ELSE @ \union {ForeignTaint}])
    /\ UNCHANGED <<now, workload, capable, config, enabling, born>>

\* ... the exclude-from-remediation label, ...
ToggleExcludeLabel ==
    /\ Disturb("exclude")
    /\ Server(nodes).exists
    /\ writeNode([Server(nodes) EXCEPT !.excluded = ~@])
    /\ UNCHANGED <<now, workload, capable, config, enabling, born>>

\* ... or it deletes the Node.
DeleteNode ==
    /\ Disturb("nodeDeletion")
    /\ Server(nodes).exists
    /\ writeNode(NoNode)
    /\ UNCHANGED <<now, workload, capable, config, enabling, born>>

\* The agent pod or its annotation goes missing, and comes back.
ToggleCapable ==
    /\ \/ capable /\ Disturb("incapable")
       \/ ~capable /\ noFault
    /\ capable' = ~capable
    /\ UNCHANGED <<objects, pc, local, queue, now, workload, config, enabling,
                   born>>

ToggleConfig ==
    /\ \/ config /\ Disturb("config")
       \/ ~config /\ noFault
    /\ config' = ~config
    /\ enabling' = ~config
    /\ UNCHANGED <<objects, pc, local, queue, now, workload, capable, born>>

\* The pods of the node: evicted by the NoExecute taint, removed by the pod
\* garbage collector under the out-of-service taint or by a living kubelet,
\* and scheduled again on a clean node.
ChangeWorkload(from, to) ==
    /\ workload = from
    /\ workload' = to
    /\ UNCHANGED <<objects, pc, local, queue, now, capable, config, enabling,
                   born, faults>>

EvictPods == /\ NodeNoExecuteTaint \in Server(nodes).taints
             /\ ChangeWorkload("running", "terminating")

CollectPods == /\ OutOfServiceTaint \in Server(nodes).taints
               /\ ChangeWorkload("terminating", "gone")

KubeletTerminatesPods == ChangeWorkload("terminating", "gone")

SchedulePods == /\ Server(nodes) = CleanNode
                /\ ChangeWorkload("gone", "running")

\* Time passes while it matters to a deadline that is stored or that the
\* reconciler can still store.
Tick ==
    /\ now < MaxNow
    /\ LET s == Server(snrs)
       IN  \/ /\ s.timeAssumedRebooted # NoTime
              /\ now < s.timeAssumedRebooted + DeletionWait
           \/ /\ snr.timeAssumedRebooted # NoTime /\ snrFresh
              /\ now < snr.timeAssumedRebooted
    /\ now' = now + 1
    /\ UNCHANGED <<objects, pc, local, queue, workload, capable, config,
                   enabling, born, faults>>

Environment ==
    \/ \E strategy \in Strategies, held \in BOOLEAN : CreateSNR(strategy, held)
    \/ DeleteSNR \/ ReleaseSNR \/ TimeOutSNR
    \/ SyncUnschedulableTaint \/ ToggleForeignTaint \/ ToggleExcludeLabel
    \/ DeleteNode \/ ToggleCapable \/ ToggleConfig
    \/ EvictPods \/ CollectPods \/ KubeletTerminatesPods \/ SchedulePods
    \/ Tick

----------------------------------------------------------------------------
Init ==
    /\ snrs = <<NoSNR>> /\ nodes = <<CleanNode>>
    /\ pc = "idle"
    /\ snr = NoSNR /\ snrFresh = FALSE
    /\ node = NoNode /\ nodeFresh = FALSE
    /\ failed = FALSE /\ requeue = FALSE
    /\ queued = FALSE /\ timer = FALSE
    /\ now = 0 /\ workload = "running"
    /\ capable = TRUE /\ config = TRUE /\ enabling = FALSE
    /\ born = 0 /\ faults = 0

Next == Manager \/ Runtime \/ RestartManager \/ Environment

Spec == Init /\ [][Next]_vars

\* The manager's worker, the informers, the queues and the clock run on; the
\* node lifecycle controller and the pod garbage collector do their work; a
\* missing agent pod and a missing configuration come back.
Fairness ==
    /\ WF_vars(Manager) /\ WF_vars(DeliverSNR) /\ WF_vars(DeliverNode)
    /\ WF_vars(TimerFires) /\ WF_vars(SetCRsEnabledStatus) /\ WF_vars(Tick)
    /\ WF_vars(SyncUnschedulableTaint) /\ WF_vars(ReleaseSNR)
    /\ WF_vars(EvictPods) /\ WF_vars(CollectPods)
    /\ WF_vars(~capable /\ ToggleCapable) /\ WF_vars(~config /\ ToggleConfig)

FairSpec == Spec /\ Fairness

----------------------------------------------------------------------------
\* Properties.

\* Every variable has its type and the bounds hold.
TypeOK ==
    /\ snrs \in Seq(SNRs) /\ Len(snrs) \in 1 .. MaxLag
    /\ nodes \in Seq(Nodes) /\ Len(nodes) \in 1 .. MaxLag
    /\ pc \in ProgramPoints
    /\ snr \in SNRs /\ snrFresh \in BOOLEAN
    /\ node \in Nodes /\ nodeFresh \in BOOLEAN
    /\ failed \in BOOLEAN /\ requeue \in BOOLEAN
    /\ queued \in BOOLEAN /\ timer \in BOOLEAN
    /\ now \in Nat /\ workload \in Workloads
    /\ capable \in BOOLEAN /\ config \in BOOLEAN /\ enabling \in BOOLEAN
    /\ born \in Nat /\ faults \in Nat

\* wasNodeRebooted and isResourceDeletionExpired dereference
\* Status.TimeAssumedRebooted: it is set in every phase after
\* Fencing-Started, whatever conflicts, failures and restarts happen.
TimeAssumedRebootedIsSet ==
    pc \in {"remediate", "drain"} /\ snr.phase # FencingStarted
        => snr.timeAssumedRebooted # NoTime

\* The manager leaves its marks on a node only under the protection of the
\* finalizer: without one on the server's SNR the node is schedulable and
\* carries no NoExecute taint.
FinalizerGuardsNode ==
    Server(nodes).exists /\ ~Server(snrs).finalizer
        => /\ ~Server(nodes).unschedulable
           /\ NodeNoExecuteTaint \notin Server(nodes).taints

\* Pods are deleted and the out-of-service taint is added only when the time
\* to assume the node rebooted has passed, and on a node that is cordoned and
\* tainted.
ResourcesRemoved ==
    \/ workload = "running" /\ workload' = "gone"
    \/ /\ OutOfServiceTaint \notin Server(nodes).taints
       /\ OutOfServiceTaint \in Server(nodes').taints
NodeIsFenced ==
    /\ Server(snrs).timeAssumedRebooted # NoTime
    /\ now >= Server(snrs).timeAssumedRebooted
    /\ Server(nodes).exists =>
         /\ Server(nodes).unschedulable
         /\ NodeNoExecuteTaint \in Server(nodes).taints
RemovalOnlyWhenFenced == [][ResourcesRemoved => NodeIsFenced]_vars

\* A remediation never goes back to an earlier phase and its
\* TimeAssumedRebooted, once stored, never changes, although every reconcile
\* writes the whole status from a copy it read earlier.
NeverBack ==
    Server(snrs').uid = Server(snrs).uid =>
        /\ Server(snrs').phase >= Server(snrs).phase
        /\ \/ Server(snrs).timeAssumedRebooted = NoTime
           \/ Server(snrs').timeAssumedRebooted
                = Server(snrs).timeAssumedRebooted
PhasesNeverGoBack == [][NeverBack]_vars

\* Once the Succeeded condition is True, and until the node is schedulable
\* again, no pod of the node is left: every pod when they were deleted, the
\* pods with volumes when the out-of-service taint was used.
SuccessMeansWorkloadGone ==
    /\ Server(snrs).condition = "finished"
    /\ Server(nodes).unschedulable
    /\ Stateful \/ Server(snrs).strategy = "ResourceDeletion"
    => workload = "gone"

\* An SNR that is being deleted is gone in the end.
DeletionCompletes ==
    Server(snrs).deleted ~> ~Server(snrs).deleted

\* An SNR is fenced in the end unless it is timed out or deleted.
RemediationCompletes ==
    Exists(Server(snrs)) ~>
        \/ Server(snrs).phase = FencingCompleted
        \/ Server(snrs).timedOut \/ ~Exists(Server(snrs))

\* Once the SNR is gone the node does not keep the out-of-service taint.
OutOfServiceTaintRemoved ==
    Server(nodes).exists /\ ~Exists(Server(snrs))
        => OutOfServiceTaint \notin Server(nodes).taints

\* To everybody who reads the SNR, agents and NHC among them, its status is the
\* schedule that Schedule describes: no phase is left out or repeated, and the
\* resources are not touched before the time that was announced together with
\* the reboot, whatever versions the manager's reconciles worked on.
StatusSchedule ==
    INSTANCE Schedule WITH uid <- Server(snrs).uid,
                           phase <- Server(snrs).phase,
                           deadline <- Server(snrs).timeAssumedRebooted
ScheduleKept == StatusSchedule!Spec

============================================================================
