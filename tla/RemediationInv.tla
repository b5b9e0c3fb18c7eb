--------------------------- MODULE RemediationInv ---------------------------
(***************************************************************************)
(* The inductive invariant from which the safety properties of Remediation *)
(* follow; RemediationSafety has the proofs.                               *)
(*                                                                         *)
(* The properties speak of the server's objects; the reconciler acts on    *)
(* copies that may be many versions old.  What makes it work is that the   *)
(* manager is the only one that moves a remediation forward and that it    *)
(* moves only from the server's version: a window therefore holds at most  *)
(* one change of phase, and once a phase is seen in any version, every     *)
(* version of the Node that a later reconcile can still read shows the     *)
(* marks that the earlier phases left.                                     *)
(***************************************************************************)
EXTENDS Remediation

Handlers == {"remediate", "cordon", "drain", "untaint", "unfinalize"}

\* Every version of an SNR, stored or local, is well formed at time t.
SNRShape(s, t) ==
    /\ s.phase # FencingStarted <=> s.timeAssumedRebooted # NoTime
    /\ s.phase \in {PreRebootCompleted, RebootCompleted} => s.finalizer
    /\ s.phase = FencingCompleted => s.finalizer \/ s.deleted
    /\ s.phase \in {RebootCompleted, FencingCompleted}
         => s.timeAssumedRebooted <= t
    /\ s.condition = "finished" => s.phase = FencingCompleted
    /\ ~Exists(s) => /\ s.phase = FencingStarted
                     /\ ~s.finalizer /\ ~s.deleted /\ ~s.held

Shapes == /\ \A i \in 1 .. Len(snrs) : SNRShape(snrs[i], now)
          /\ SNRShape(snr, now)

\* Version b of the SNR may follow version a in a window: the same phase, one
\* phase further, or a new lifetime after a completed one.
Follows(a, b) ==
    \/ /\ b.phase = a.phase
       /\ b.timeAssumedRebooted = a.timeAssumedRebooted
       /\ a.phase # FencingStarted => b.uid = a.uid
    \/ /\ b.phase = a.phase + 1 /\ b.uid = a.uid
       /\ a.phase # FencingStarted
            => b.timeAssumedRebooted = a.timeAssumedRebooted
    \/ /\ a.phase = FencingCompleted /\ b.phase = FencingStarted
       /\ ~b.finalizer

SNROrder ==
    /\ \A i, j \in 1 .. Len(snrs) : i <= j => Follows(snrs[i], snrs[j])
    /\ pc \in Handlers => \A i \in 1 .. Len(snrs) : Follows(snr, snrs[i])

\* A version that carries the finalizer, unless it is the one the finalizer
\* is removed from, says that the server's SNR carries it.
Guarding(s) ==
    s.finalizer /\ ~(s.phase = FencingCompleted /\ s.deleted)

Guards ==
    /\ \A i \in 1 .. Len(snrs) : Guarding(snrs[i]) => Server(snrs).finalizer
    /\ pc \in Handlers /\ Guarding(snr) => Server(snrs).finalizer

\* The local SNR while it holds the server's version.
SNRFreshness ==
    /\ pc = "idle" => ~snrFresh
    /\ snrFresh =>
         LET s == Server(snrs)
         IN  /\ Exists(s) /\ snr.uid = s.uid /\ snr.strategy = s.strategy
             /\ snr.deleted = s.deleted /\ snr.finalizer = s.finalizer
             /\ \/ /\ snr.phase = s.phase
                   /\ snr.timeAssumedRebooted = s.timeAssumedRebooted
                \/ /\ pc \notin Handlers
                   /\ snr.phase = s.phase + 1
                   /\ s.phase # FencingStarted
                        => snr.timeAssumedRebooted = s.timeAssumedRebooted
                   /\ s.finalizer
                   /\ Len(snrs) = 1
             /\ pc \in Handlers => Len(snrs) = 1

NodeFreshness ==
    /\ nodeFresh => node = Server(nodes) /\ node.exists /\ pc \in Handlers
    /\ nodeFresh /\ pc = "remediate" => Len(nodes) = 1

\* What the position in the reconcile says about the local objects.
LocalSNR ==
    /\ pc \in Handlers => Exists(snr)
    /\ pc = "cordon" => snr.phase = FencingStarted /\ snr.finalizer
    /\ pc = "drain" => /\ snr.phase = RebootCompleted
                       /\ snr.strategy = "OutOfServiceTaint"
    /\ pc \in {"untaint", "unfinalize"}
         => snr.phase = FencingCompleted /\ snr.deleted

LocalNode ==
    /\ pc \in Handlers => node.exists
    /\ pc = "cordon" => NodeNoExecuteTaint \in node.taints
    /\ pc = "untaint" => ~node.unschedulable

\* The cordon and the unschedulable taint come after the NoExecute taint and
\* go before it, in every version of the Node; a Node that is gone has none.
Layered(n) ==
    /\ n.unschedulable \/ NodeUnschedulableTaint \in n.taints
         => NodeNoExecuteTaint \in n.taints
    /\ ~n.exists => ~n.unschedulable /\ n.taints = {}

Layers == /\ \A i \in 1 .. Len(nodes) : Layered(nodes[i])
          /\ Layered(node)
          /\ \A i, j \in 1 .. Len(nodes) :
               i <= j /\ nodes[j].exists => nodes[i].exists

Cordoned(n) == n.unschedulable /\ NodeNoExecuteTaint \in n.taints

Marked(n) == n.exists => Cordoned(n)

AllMarked(w) == \A i \in 1 .. Len(w) : Marked(w[i])

\* From Pre-Reboot-Completed up to the end of Reboot-Completed every version
\* of the Node that can still be read is cordoned and tainted.
Fenced ==
    LET fencing == {PreRebootCompleted, RebootCompleted}
    IN  /\ (\E i \in 1 .. Len(snrs) : snrs[i].phase \in fencing)
             => AllMarked(nodes)
        /\ pc \in Handlers /\ snr.phase \in fencing
             => AllMarked(nodes) /\ Marked(node)
        /\ snrFresh /\ snr.phase \in fencing => AllMarked(nodes)

\* The marks of m are among the marks of n.
MarksWithin(m, n) ==
    /\ m.unschedulable => n.unschedulable
    /\ NodeNoExecuteTaint \in m.taints => NodeNoExecuteTaint \in n.taints

\* A version shows the marks of all later ones.
Fading(w) == \A i, j \in 1 .. Len(w) : i <= j => MarksWithin(w[j], w[i])

\* In Fencing-Completed marks are only removed.
Recovering ==
    /\ (\E i \in 1 .. Len(snrs) : snrs[i].phase = FencingCompleted)
         => Fading(nodes)
    /\ snrFresh /\ snr.phase = FencingCompleted => Fading(nodes)
    /\ pc = "remediate" /\ snr.phase = FencingCompleted
         => \A i \in 1 .. Len(nodes) : MarksWithin(nodes[i], node)
    /\ pc = "untaint" => MarksWithin(Server(nodes), node)
    /\ pc \in {"untaint", "unfinalize"} => ~Server(nodes).unschedulable
    /\ pc = "unfinalize" => NodeNoExecuteTaint \notin Server(nodes).taints

NonePrepared(w) == \A i \in 1 .. Len(w) : ~isUnschedulable(w[i])

\* A version that is prepared is followed by marked ones.
PreparedStay(w) == \A i, j \in 1 .. Len(w) :
                     i <= j /\ isUnschedulable(w[i]) => Marked(w[j])

\* prepareReboot is never misled by marks of an earlier remediation.
Preparation ==
    /\ ~Server(snrs).finalizer => NonePrepared(nodes)
    /\ pc = "untaint" /\ NodeUnschedulableTaint \notin node.taints
         => NonePrepared(nodes)
    /\ pc = "unfinalize" => NonePrepared(nodes)
    /\ /\ \A i \in 1 .. Len(snrs) : snrs[i].phase # FencingCompleted
       /\ ~(pc \in Handlers /\ snr.phase = FencingCompleted)
       => PreparedStay(nodes)
    /\ /\ pc \in {"remediate", "cordon"} /\ snr.phase = FencingStarted
       /\ isUnschedulable(node)
       => AllMarked(nodes)

\* Version b of the Node has lost, or has got, the out-of-service taint.
Lost(a, b) == /\ OutOfServiceTaint \in a.taints
              /\ b.exists /\ OutOfServiceTaint \notin b.taints
Gained(a, b) == OutOfServiceTaint \notin a.taints /\ OutOfServiceTaint \in b.taints

\* The out-of-service taint comes and goes while the node is marked: a patch
\* with an old list of taints does not bring it back later.
OutOfService ==
    /\ \A i, j \in 1 .. Len(nodes) : i <= j =>
         /\ Lost(nodes[i], nodes[j]) => AllMarked(nodes)
         /\ Gained(nodes[i], nodes[j]) => Cordoned(nodes[i])
    /\ pc \in Handlers =>
         /\ Lost(node, Server(nodes)) => AllMarked(nodes) /\ Cordoned(node)
         /\ Gained(node, Server(nodes)) => Cordoned(node)

\* The SNR claims that no pod is left, and the node has not been recovered.
ClaimsSuccess(s) ==
    /\ s.condition = "finished"
    /\ Stateful \/ s.strategy = "ResourceDeletion"
    /\ Server(nodes).unschedulable

Success ==
    /\ ClaimsSuccess(Server(snrs)) => workload = "gone"
    /\ snrFresh /\ ClaimsSuccess(snr) => workload = "gone"

\* Together with the type invariant, what every step preserves: what is known
\* of the SNRs, and of the Nodes.
SNRInv == Shapes /\ SNROrder /\ Guards /\ SNRFreshness /\ LocalSNR

NodeInv ==
    /\ NodeFreshness /\ LocalNode /\ Layers /\ Fenced /\ Recovering
    /\ Preparation /\ FinalizerGuardsNode /\ OutOfService

SafetyInv == SNRInv /\ NodeInv /\ Success

============================================================================
