------------------------- MODULE RemediationProofs -------------------------
(***************************************************************************)
(* Proofs about Remediation: facts on windows of versions, the type        *)
(* invariant, and that the status of a remediation only goes forward.      *)
(***************************************************************************)
EXTENDS RemediationInv, TLAPS

----------------------------------------------------------------------------
\* Windows.

\* Storing a version in a window leaves the older versions in place and makes
\* the new one the server's.
LEMMA StoreFacts ==
    ASSUME NEW S, NEW w \in Seq(S), Len(w) >= 1, NEW v \in S
    PROVE  /\ Store(w, v) \in Seq(S)
           /\ Len(Store(w, v)) \in {Len(w), Len(w) + 1}
           /\ \A i \in 1 .. Len(w) : Store(w, v)[i] = w[i]
           /\ \A i \in 1 .. Len(Store(w, v)) : i > Len(w) => Store(w, v)[i] = v
           /\ Server(Store(w, v)) = v
BY DEF Store, Server

\* Appending a version to a window keeps the others.
LEMMA AppendFacts ==
    ASSUME NEW S, NEW w \in Seq(S), Len(w) >= 1, NEW v \in S
    PROVE  /\ Append(w, v) \in Seq(S)
           /\ Len(Append(w, v)) = Len(w) + 1
           /\ \A i \in 1 .. Len(w) : Append(w, v)[i] = w[i]
           /\ \A i \in 1 .. Len(Append(w, v)) : i > Len(w) => Append(w, v)[i] = v
           /\ Server(Append(w, v)) = v
BY DEF Server

\* A cache delivery drops the first version only.
LEMMA TailFacts ==
    ASSUME NEW S, NEW w \in Seq(S), Len(w) > 1
    PROVE  /\ Tail(w) \in Seq(S)
           /\ Len(Tail(w)) = Len(w) - 1
           /\ \A i \in 1 .. Len(Tail(w)) : Tail(w)[i] = w[i + 1]
           /\ Server(Tail(w)) = Server(w)
BY DEF Server

\* The cached and the server's version are versions of the window.
LEMMA WindowFacts ==
    ASSUME NEW S, NEW w \in Seq(S), Len(w) >= 1
    PROVE  /\ Server(w) \in S /\ Cached(w) \in S
           /\ <<Server(w)>> \in Seq(S) /\ Len(<<Server(w)>>) = 1
           /\ <<Server(w)>>[1] = Server(w)
           /\ Server(<<Server(w)>>) = Server(w)
BY DEF Server, Cached

----------------------------------------------------------------------------
\* Type correctness.

USE DEF FencingStarted, PreRebootCompleted, RebootCompleted, FencingCompleted,
        NoTime

\* The constant objects, and every change of a field, stay in the types.
LEMMA ObjectTypes ==
    /\ NoSNR \in SNRs /\ NoNode \in Nodes /\ CleanNode \in Nodes
    /\ \A s \in SNRs :
         /\ reap(s) \in SNRs
         /\ startCondition(s) \in SNRs
         /\ finished(s) \in SNRs
         /\ \A f \in BOOLEAN : /\ [s EXCEPT !.finalizer = f] \in SNRs
                               /\ [s EXCEPT !.lastError = f] \in SNRs
                               /\ [s EXCEPT !.held = f] \in SNRs
                               /\ [s EXCEPT !.disabled = f] \in SNRs
         /\ [s EXCEPT !.deleted = TRUE] \in SNRs
         /\ [s EXCEPT !.timedOut = TRUE] \in SNRs
         /\ [s EXCEPT !.condition = "failed"] \in SNRs
         /\ [s EXCEPT !.phase = RebootCompleted] \in SNRs
         /\ \A o \in SNRs : withStatusOf(s, o) \in SNRs
    /\ \A n \in Nodes :
         /\ \A u \in BOOLEAN : [n EXCEPT !.unschedulable = u] \in Nodes
         /\ \A t \in SUBSET Taints : [n EXCEPT !.taints = t] \in Nodes
         /\ [n EXCEPT !.excluded = ~@] \in Nodes
<1>1. NoSNR \in SNRs
  BY DEF NoSNR, SNRs, AllStrategies, Phases, Conditions
<1>2. NoNode \in Nodes /\ CleanNode \in Nodes
  BY DEF NoNode, CleanNode, Nodes
<1>a. /\ PreRebootCompleted \in Phases /\ RebootCompleted \in Phases
      /\ FencingCompleted \in Phases
      /\ "started" \in Conditions /\ "finished" \in Conditions
      /\ "failed" \in Conditions
  BY DEF Phases, Conditions
<1>3. ASSUME NEW s \in SNRs
      PROVE  /\ reap(s) \in SNRs
             /\ startCondition(s) \in SNRs
             /\ finished(s) \in SNRs
             /\ \A f \in BOOLEAN : /\ [s EXCEPT !.finalizer = f] \in SNRs
                                   /\ [s EXCEPT !.lastError = f] \in SNRs
                                   /\ [s EXCEPT !.held = f] \in SNRs
                                   /\ [s EXCEPT !.disabled = f] \in SNRs
             /\ [s EXCEPT !.deleted = TRUE] \in SNRs
             /\ [s EXCEPT !.timedOut = TRUE] \in SNRs
             /\ [s EXCEPT !.condition = "failed"] \in SNRs
             /\ [s EXCEPT !.phase = RebootCompleted] \in SNRs
             /\ \A o \in SNRs : withStatusOf(s, o) \in SNRs
  <2>1. reap(s) \in SNRs
    BY <1>1 DEF reap
  <2>2. startCondition(s) \in SNRs
    <3>1. [s EXCEPT !.condition = "started"] \in SNRs
      BY <1>a DEF SNRs
    <3>2. QED
      BY <3>1 DEF startCondition
  <2>3. finished(s) \in SNRs
    BY <1>a DEF SNRs, finished
  <2>4. \A f \in BOOLEAN : /\ [s EXCEPT !.finalizer = f] \in SNRs
                           /\ [s EXCEPT !.lastError = f] \in SNRs
                           /\ [s EXCEPT !.held = f] \in SNRs
                           /\ [s EXCEPT !.disabled = f] \in SNRs
    BY DEF SNRs
  <2>5. /\ [s EXCEPT !.deleted = TRUE] \in SNRs
        /\ [s EXCEPT !.timedOut = TRUE] \in SNRs
        /\ [s EXCEPT !.condition = "failed"] \in SNRs
        /\ [s EXCEPT !.phase = RebootCompleted] \in SNRs
    <3>1. [s EXCEPT !.deleted = TRUE] \in SNRs
      BY DEF SNRs
    <3>2. [s EXCEPT !.timedOut = TRUE] \in SNRs
      BY DEF SNRs
    <3>3. [s EXCEPT !.condition = "failed"] \in SNRs
      BY <1>a DEF SNRs
    <3>4. [s EXCEPT !.phase = RebootCompleted] \in SNRs
      BY <1>a DEF SNRs
    <3>5. QED
      BY <3>1, <3>2, <3>3, <3>4
  <2>6. ASSUME NEW o \in SNRs PROVE withStatusOf(s, o) \in SNRs
    BY DEF SNRs, withStatusOf
  <2>7. QED
    BY <2>1, <2>2, <2>3, <2>4, <2>5, <2>6
<1>4. ASSUME NEW n \in Nodes
      PROVE  /\ \A u \in BOOLEAN : [n EXCEPT !.unschedulable = u] \in Nodes
             /\ \A t \in SUBSET Taints : [n EXCEPT !.taints = t] \in Nodes
             /\ [n EXCEPT !.excluded = ~@] \in Nodes
  <2>1. \A u \in BOOLEAN : [n EXCEPT !.unschedulable = u] \in Nodes
    BY DEF Nodes
  <2>2. \A t \in SUBSET Taints : [n EXCEPT !.taints = t] \in Nodes
    BY DEF Nodes
  <2>3. [n EXCEPT !.excluded = ~@] \in Nodes
    BY DEF Nodes
  <2>4. QED
    BY <2>1, <2>2, <2>3
<1> QED BY <1>1, <1>2, <1>3, <1>4

\* A window stays a window of the same kind of objects, within its bound.
Windows(S) == {w \in Seq(S) : Len(w) \in 1 .. MaxLag}

\* Windows stay windows when a version is stored, appended or delivered.
LEMMA WindowTypes ==
    ASSUME NEW S, NEW w \in Windows(S)
    PROVE  /\ Server(w) \in S /\ Cached(w) \in S
           /\ <<Server(w)>> \in Windows(S)
           /\ Len(w) > 1 => Tail(w) \in Windows(S)
           /\ Room(w) => \A v \in S : /\ Append(w, v) \in Windows(S)
                                     /\ Store(w, v) \in Windows(S)
<1> USE BoundsAssumption
<1>1. w \in Seq(S) /\ Len(w) >= 1 /\ Len(w) <= MaxLag
  BY DEF Windows
<1>2. /\ Server(w) \in S /\ Cached(w) \in S
      /\ <<Server(w)>> \in Windows(S)
  <2>1. /\ Server(w) \in S /\ Cached(w) \in S
        /\ <<Server(w)>> \in Seq(S) /\ Len(<<Server(w)>>) = 1
    BY <1>1, WindowFacts
  <2> DEFINE one == <<Server(w)>>
  <2>2. one \in Seq(S) /\ Len(one) = 1
    BY <2>1
  <2> HIDE DEF one
  <2>3. one \in Windows(S)
    BY <2>2 DEF Windows
  <2>4. QED
    BY <2>1, <2>3 DEF one
<1>3. Len(w) > 1 => Tail(w) \in Windows(S)
  BY <1>1, TailFacts DEF Windows
<1>4. ASSUME Room(w), NEW v \in S
      PROVE  Append(w, v) \in Windows(S) /\ Store(w, v) \in Windows(S)
  <2>1. Append(w, v) \in Windows(S)
    BY <1>1, <1>4, AppendFacts DEF Room, Windows
  <2>2. QED
    BY <2>1 DEF Store
<1> QED BY <1>2, <1>3, <1>4

\* The type invariant with the windows as sets.
Typed ==
    /\ snrs \in Windows(SNRs) /\ nodes \in Windows(Nodes)
    /\ pc \in ProgramPoints
    /\ snr \in SNRs /\ snrFresh \in BOOLEAN
    /\ node \in Nodes /\ nodeFresh \in BOOLEAN
    /\ failed \in BOOLEAN /\ requeue \in BOOLEAN
    /\ queued \in BOOLEAN /\ timer \in BOOLEAN
    /\ now \in Nat /\ workload \in Workloads
    /\ capable \in BOOLEAN /\ config \in BOOLEAN /\ enabling \in BOOLEAN
    /\ born \in Nat /\ faults \in Nat

\* Typed says the same as TypeOK, in the form the steps below use.
LEMMA TypedIsTypeOK == Typed <=> TypeOK
BY DEF Typed, TypeOK, Windows

\* The initial state is typed.
LEMMA TypedInit == Init => Typed
<1> SUFFICES ASSUME Init PROVE Typed
  OBVIOUS
<1>1. <<NoSNR>> \in Windows(SNRs) /\ <<CleanNode>> \in Windows(Nodes)
  BY ObjectTypes, BoundsAssumption DEF Windows
<1> QED
  BY <1>1, ObjectTypes DEF Init, Typed, ProgramPoints, Workloads

\* What the versions of the objects are, in a typed state.
LEMMA VersionTypes ==
    ASSUME Typed
    PROVE  /\ Server(snrs) \in SNRs /\ Cached(snrs) \in SNRs
           /\ <<Server(snrs)>> \in Windows(SNRs)
           /\ Len(snrs) > 1 => Tail(snrs) \in Windows(SNRs)
           /\ Server(nodes) \in Nodes /\ Cached(nodes) \in Nodes
           /\ <<Server(nodes)>> \in Windows(Nodes)
           /\ Len(nodes) > 1 => Tail(nodes) \in Windows(Nodes)
BY WindowTypes DEF Typed

\* The API calls keep the objects in their types.
LEMMA UpdateFinalizerTypes ==
    ASSUME Typed, NEW f \in BOOLEAN, updateFinalizer(f)
    PROVE  /\ snrs' \in Windows(SNRs) /\ snr' \in SNRs
           /\ snrFresh' \in BOOLEAN
<1> DEFINE answer == [Server(snrs) EXCEPT !.finalizer = f]
<1>1. answer \in SNRs /\ reap(answer) \in SNRs
  BY VersionTypes, ObjectTypes
<1>2. Store(snrs, reap(answer)) \in Windows(SNRs)
  BY <1>1, WindowTypes DEF Typed, updateFinalizer
<1>3. QED
  BY <1>1, <1>2 DEF updateFinalizer, Exists

\* A cordon or uncordon stores a Node.
LEMMA UpdateUnschedulableTypes ==
    ASSUME Typed, NEW u \in BOOLEAN, updateUnschedulable(u)
    PROVE  nodes' \in Windows(Nodes) /\ Server(nodes') \in Nodes
<1>1. [node EXCEPT !.unschedulable = u] \in Nodes
  BY ObjectTypes DEF Typed
<1>2. nodes' \in Windows(Nodes)
  BY <1>1, WindowTypes DEF Typed, updateUnschedulable
<1>3. QED
  BY <1>2, WindowTypes

\* A taint patch stores a Node.
LEMMA PatchTaintsTypes ==
    ASSUME Typed, NEW t \in SUBSET Taints, patchTaints(t)
    PROVE  nodes' \in Windows(Nodes) /\ Server(nodes') \in Nodes
<1>1. [Server(nodes) EXCEPT !.taints = t] \in Nodes
  BY VersionTypes, ObjectTypes
<1>2. nodes' \in Windows(Nodes)
  BY <1>1, WindowTypes DEF Typed, patchTaints
<1>3. QED
  BY <1>2, WindowTypes

\* The environment's writes to the SNR store an SNR.
LEMMA WriteSNRTypes ==
    ASSUME Typed, NEW v \in SNRs, writeSNR(v)
    PROVE  /\ snrs' \in Windows(SNRs) /\ snrFresh' = FALSE
           /\ UNCHANGED <<nodes, pc, snr, node, nodeFresh, failed, requeue,
                          queued, timer>>
BY WindowTypes DEF Typed, writeSNR, queue

\* The environment's writes to the Node store a Node.
LEMMA WriteNodeTypes ==
    ASSUME Typed, NEW v \in Nodes, writeNode(v)
    PROVE  /\ nodes' \in Windows(Nodes) /\ nodeFresh' = FALSE
           /\ UNCHANGED <<snrs, pc, snr, snrFresh, node, failed, requeue,
                          queued, timer>>
BY WindowTypes DEF Typed, writeNode, queue

\* Where a reconcile goes on, or ends.
LEMMA ReturnTypes ==
    ASSUME NEW err \in BOOLEAN, NEW again \in BOOLEAN, Return(err, again)
    PROVE  /\ pc' \in ProgramPoints /\ node' \in Nodes
           /\ nodeFresh' \in BOOLEAN
           /\ failed' \in BOOLEAN /\ requeue' \in BOOLEAN
BY ObjectTypes DEF Return, ProgramPoints

\* Going on takes the server's answer as the local Node.
LEMMA GoOnTypes ==
    ASSUME Typed, NEW next \in ProgramPoints, GoOn(next),
           Server(nodes') \in Nodes
    PROVE  /\ pc' \in ProgramPoints /\ node' \in Nodes
           /\ nodeFresh' \in BOOLEAN
           /\ failed' \in BOOLEAN /\ requeue' \in BOOLEAN
BY DEF Typed, GoOn

\* Skipping an API call changes the program point only.
LEMMA SkipTypes ==
    ASSUME Typed, NEW next \in ProgramPoints, Skip(next)
    PROVE  /\ pc' \in ProgramPoints /\ node' \in Nodes
           /\ nodeFresh' \in BOOLEAN /\ nodes' \in Windows(Nodes)
           /\ failed' \in BOOLEAN /\ requeue' \in BOOLEAN
BY DEF Typed, Skip

\* A failed API call changes no object.
LEMMA ApiErrorTypes ==
    ASSUME Typed, apiError
    PROVE  /\ pc' \in ProgramPoints /\ node' \in Nodes
           /\ nodeFresh' \in BOOLEAN
           /\ failed' \in BOOLEAN /\ requeue' \in BOOLEAN
           /\ faults' \in Nat
           /\ UNCHANGED <<snrs, nodes, snr, snrFresh>>
<1>1. Return(TRUE, FALSE)
  BY DEF apiError
<1>2. faults' \in Nat /\ UNCHANGED <<snrs, nodes, snr, snrFresh>>
  BY DEF apiError, objects, Typed
<1>3. QED
  BY <1>1, <1>2, ReturnTypes

\* What a step of the reconciler leaves alone keeps its type.
LEMMA AroundTypes ==
    ASSUME Typed, UNCHANGED around
    PROVE  /\ queued' \in BOOLEAN /\ timer' \in BOOLEAN
           /\ now' \in Nat /\ capable' \in BOOLEAN
           /\ config' \in BOOLEAN /\ enabling' \in BOOLEAN
           /\ born' \in Nat
BY DEF Typed, around, queue

\* The SNR that CompletePreReboot leaves.
LEMMA CompletedTypes ==
    ASSUME Typed
    PROVE  [setTimeAssumedRebooted(snr) EXCEPT !.phase = PreRebootCompleted]
             \in SNRs
<1>1. setTimeAssumedRebooted(snr) \in SNRs
  BY DurationAssumption DEF setTimeAssumedRebooted, Typed, SNRs
<1>2. PreRebootCompleted \in Phases
  BY DEF Phases
<1>3. QED
  BY <1>1, <1>2 DEF SNRs

\* prepareReboot.
LEMMA TypedPrepare ==
    ASSUME Typed, NodeNotRebootCapable \/ AddFinalizer \/ AddNoExecuteTaint
                  \/ MarkNodeAsUnschedulable \/ CompletePreReboot
    PROVE  Typed'
<1>1. CASE NodeNotRebootCapable
  BY <1>1, ReturnTypes, AroundTypes DEF NodeNotRebootCapable, Typed, objects
<1>2. CASE AddFinalizer
  <2>1. UNCHANGED nodes /\ UNCHANGED workload /\ UNCHANGED around
    BY <1>2 DEF AddFinalizer
  <2>2. CASE /\ UNCHANGED <<snrs, snr, snrFresh>> /\ noFault
             /\ Return(FALSE, FALSE) \/ Return(FALSE, TRUE)
    BY <2>1, <2>2, ReturnTypes, AroundTypes DEF Typed, noFault
  <2>3. CASE updateFinalizer(TRUE) /\ Return(FALSE, TRUE) /\ noFault
    BY <2>1, <2>3, UpdateFinalizerTypes, ReturnTypes, AroundTypes
       DEF Typed, noFault
  <2>4. CASE apiError
    BY <2>1, <2>4, ApiErrorTypes, AroundTypes DEF Typed
  <2>5. QED
    BY <1>2, <2>2, <2>3, <2>4 DEF AddFinalizer, snrConflict
<1>3. CASE AddNoExecuteTaint
  <2> DEFINE t == node.taints \union {NodeNoExecuteTaint}
  <2>1. t \in SUBSET Taints /\ "cordon" \in ProgramPoints
    BY DEF Typed, Nodes, Taints, ProgramPoints
  <2> HIDE DEF t
  <2>2. /\ UNCHANGED <<snrs, snr, snrFresh>> /\ UNCHANGED workload
        /\ UNCHANGED around
    BY <1>3 DEF AddNoExecuteTaint
  <2>3. CASE Skip("cordon") /\ noFault
    BY <2>1, <2>2, <2>3, SkipTypes, AroundTypes DEF Typed, noFault
  <2>4. CASE patchTaints(t) /\ GoOn("cordon") /\ noFault
    BY <2>1, <2>2, <2>4, PatchTaintsTypes, GoOnTypes, AroundTypes
       DEF Typed, noFault
  <2>5. CASE nodeNotFound /\ Return(TRUE, FALSE) /\ noFault
    BY <2>2, <2>5, ReturnTypes, AroundTypes DEF Typed, noFault, nodeNotFound
  <2>6. CASE apiError
    BY <2>2, <2>6, ApiErrorTypes, AroundTypes DEF Typed
  <2>7. QED
    BY <1>3, <2>3, <2>4, <2>5, <2>6 DEF AddNoExecuteTaint, t
<1>4. CASE MarkNodeAsUnschedulable
  <2>1. /\ UNCHANGED <<snrs, snr, snrFresh>> /\ UNCHANGED workload
        /\ UNCHANGED around
    BY <1>4 DEF MarkNodeAsUnschedulable
  <2>2. CASE /\ UNCHANGED nodes /\ noFault
             /\ Return(FALSE, TRUE) \/ Return(TRUE, FALSE)
    BY <2>1, <2>2, ReturnTypes, AroundTypes DEF Typed, noFault
  <2>3. CASE updateUnschedulable(TRUE) /\ Return(FALSE, TRUE) /\ noFault
    BY <2>1, <2>3, UpdateUnschedulableTypes, ReturnTypes, AroundTypes
       DEF Typed, noFault
  <2>4. CASE apiError
    BY <2>1, <2>4, ApiErrorTypes, AroundTypes DEF Typed
  <2>5. QED
    BY <1>4, <2>2, <2>3, <2>4
       DEF MarkNodeAsUnschedulable, nodeConflict, nodeNotFound
<1>5. CASE CompletePreReboot
  <2>1. /\ UNCHANGED <<snrs, nodes>> /\ UNCHANGED snrFresh
        /\ UNCHANGED workload /\ UNCHANGED around
    BY <1>5 DEF CompletePreReboot, objects
  <2>2. CASE /\ snr' = [setTimeAssumedRebooted(snr)
                          EXCEPT !.phase = PreRebootCompleted]
             /\ Return(FALSE, FALSE) /\ noFault
    BY <2>1, <2>2, CompletedTypes, ReturnTypes, AroundTypes
       DEF Typed, noFault
  <2>3. CASE apiError
    BY <2>1, <2>3, ApiErrorTypes, AroundTypes DEF Typed
  <2>4. QED
    BY <1>5, <2>2, <2>3 DEF CompletePreReboot
<1>6. QED
  BY <1>1, <1>2, <1>3, <1>4, <1>5

\* The later phases.
LEMMA TypedFence ==
    ASSUME Typed, WaitForNodeRebooted \/ DeletePods \/ AddOutOfServiceTaint
                  \/ WaitForResourceDeletion \/ RemoveOutOfServiceTaint
    PROVE  Typed'
<1>1. CASE WaitForNodeRebooted
  <2>1. snr' \in SNRs
    BY <1>1, ObjectTypes DEF WaitForNodeRebooted, Typed
  <2>2. Return(FALSE, FALSE) \/ Return(FALSE, TRUE)
    BY <1>1 DEF WaitForNodeRebooted
  <2>3. /\ UNCHANGED <<snrs, nodes>> /\ UNCHANGED snrFresh
        /\ UNCHANGED workload /\ UNCHANGED faults /\ UNCHANGED around
    BY <1>1 DEF WaitForNodeRebooted, objects
  <2>4. QED
    BY <2>1, <2>2, <2>3, ReturnTypes, AroundTypes DEF Typed
<1>2. CASE DeletePods
  <2>1. UNCHANGED <<snrs, nodes>> /\ UNCHANGED snrFresh /\ UNCHANGED around
    BY <1>2 DEF DeletePods, objects
  <2>2. workload' \in Workloads
    BY <1>2 DEF DeletePods, Typed, Workloads
  <2>3. CASE snr' = finished(snr) /\ Return(FALSE, FALSE) /\ noFault
    BY <2>1, <2>2, <2>3, ObjectTypes, ReturnTypes, AroundTypes
       DEF Typed, noFault
  <2>4. CASE apiError
    BY <2>1, <2>2, <2>4, ApiErrorTypes, AroundTypes DEF Typed
  <2>5. QED
    BY <1>2, <2>3, <2>4 DEF DeletePods
<1>3. CASE AddOutOfServiceTaint
  <2> DEFINE t == node.taints \union {OutOfServiceTaint}
  <2>1. t \in SUBSET Taints /\ "drain" \in ProgramPoints
    BY DEF Typed, Nodes, Taints, ProgramPoints
  <2> HIDE DEF t
  <2>2. /\ UNCHANGED <<snrs, snr, snrFresh>> /\ UNCHANGED workload
        /\ UNCHANGED around
    BY <1>3 DEF AddOutOfServiceTaint
  <2>3. CASE Skip("drain") /\ noFault
    BY <2>1, <2>2, <2>3, SkipTypes, AroundTypes DEF Typed, noFault
  <2>4. CASE patchTaints(t) /\ GoOn("drain") /\ noFault
    BY <2>1, <2>2, <2>4, PatchTaintsTypes, GoOnTypes, AroundTypes
       DEF Typed, noFault
  <2>5. CASE nodeNotFound /\ Return(TRUE, FALSE) /\ noFault
    BY <2>2, <2>5, ReturnTypes, AroundTypes DEF Typed, noFault, nodeNotFound
  <2>6. CASE apiError
    BY <2>2, <2>6, ApiErrorTypes, AroundTypes DEF Typed
  <2>7. QED
    BY <1>3, <2>3, <2>4, <2>5, <2>6 DEF AddOutOfServiceTaint, t
<1>4. CASE WaitForResourceDeletion
  <2>1. Return(TRUE, FALSE) \/ Return(FALSE, TRUE)
    BY <1>4 DEF WaitForResourceDeletion
  <2>2. /\ UNCHANGED <<snrs, nodes, snr, snrFresh, workload>>
        /\ UNCHANGED around
    BY <1>4 DEF WaitForResourceDeletion, objects
  <2>3. faults' \in Nat
    BY <1>4 DEF WaitForResourceDeletion, noFault, Typed
  <2>4. QED
    BY <2>1, <2>2, <2>3, ReturnTypes, AroundTypes DEF Typed
<1>5. CASE RemoveOutOfServiceTaint
  <2> DEFINE t == DeleteTaint(node.taints, OutOfServiceTaint)
  <2>1. t \in SUBSET Taints
    BY DEF Typed, Nodes, DeleteTaint
  <2> HIDE DEF t
  <2>2. UNCHANGED <<snrs, snrFresh, workload>> /\ UNCHANGED around
    BY <1>5 DEF RemoveOutOfServiceTaint
  <2>3. CASE /\ patchTaints(t) /\ snr' = finished(snr)
             /\ Return(FALSE, FALSE) /\ noFault
    BY <2>1, <2>2, <2>3, PatchTaintsTypes, ObjectTypes, ReturnTypes,
       AroundTypes DEF Typed, noFault
  <2>4. CASE /\ nodeNotFound /\ Return(TRUE, FALSE) /\ noFault
             /\ UNCHANGED snr
    BY <2>2, <2>4, ReturnTypes, AroundTypes DEF Typed, noFault, nodeNotFound
  <2>5. CASE apiError
    BY <2>2, <2>5, ApiErrorTypes, AroundTypes DEF Typed
  <2>6. QED
    BY <1>5, <2>3, <2>4, <2>5 DEF RemoveOutOfServiceTaint, t
<1>6. QED
  BY <1>1, <1>2, <1>3, <1>4, <1>5

\* recoverNode.
LEMMA TypedRecover ==
    ASSUME Typed, WaitForDeletion \/ MarkNodeAsSchedulable
                  \/ RemoveNoExecuteTaint \/ RemoveFinalizer
    PROVE  Typed'
<1>1. CASE WaitForDeletion
  BY <1>1, ReturnTypes, AroundTypes DEF WaitForDeletion, Typed, objects
<1>2. CASE MarkNodeAsSchedulable
  <2>1. /\ UNCHANGED <<snrs, snr, snrFresh>> /\ UNCHANGED workload
        /\ UNCHANGED around
    BY <1>2 DEF MarkNodeAsSchedulable
  <2>2. "untaint" \in ProgramPoints
    BY DEF ProgramPoints
  <2>3. CASE Skip("untaint") /\ noFault
    BY <2>1, <2>2, <2>3, SkipTypes, AroundTypes DEF Typed, noFault
  <2>4. CASE updateUnschedulable(FALSE) /\ GoOn("untaint") /\ noFault
    BY <2>1, <2>2, <2>4, UpdateUnschedulableTypes, GoOnTypes, AroundTypes
       DEF Typed, noFault
  <2>5. CASE /\ UNCHANGED nodes /\ noFault
             /\ Return(FALSE, TRUE) \/ Return(TRUE, FALSE)
    BY <2>1, <2>5, ReturnTypes, AroundTypes DEF Typed, noFault
  <2>6. CASE apiError
    BY <2>1, <2>6, ApiErrorTypes, AroundTypes DEF Typed
  <2>7. QED
    BY <1>2, <2>3, <2>4, <2>5, <2>6
       DEF MarkNodeAsSchedulable, nodeConflict, nodeNotFound
<1>3. CASE RemoveNoExecuteTaint
  <2> DEFINE t == DeleteTaint(node.taints, NodeNoExecuteTaint)
  <2>1. t \in SUBSET Taints /\ "unfinalize" \in ProgramPoints
    BY DEF Typed, Nodes, ProgramPoints, DeleteTaint
  <2> HIDE DEF t
  <2>2. /\ UNCHANGED <<snrs, snr, snrFresh>> /\ UNCHANGED workload
        /\ UNCHANGED around
    BY <1>3 DEF RemoveNoExecuteTaint
  <2>3. CASE Skip("unfinalize") /\ noFault
    BY <2>1, <2>2, <2>3, SkipTypes, AroundTypes DEF Typed, noFault
  <2>4. CASE patchTaints(t) /\ GoOn("unfinalize") /\ noFault
    BY <2>1, <2>2, <2>4, PatchTaintsTypes, GoOnTypes, AroundTypes
       DEF Typed, noFault
  <2>5. CASE /\ UNCHANGED nodes /\ noFault
             /\ Return(FALSE, TRUE) \/ Return(TRUE, FALSE)
    BY <2>2, <2>5, ReturnTypes, AroundTypes DEF Typed, noFault
  <2>6. CASE apiError
    BY <2>2, <2>6, ApiErrorTypes, AroundTypes DEF Typed
  <2>7. QED
    BY <1>3, <2>3, <2>4, <2>5, <2>6 DEF RemoveNoExecuteTaint, nodeNotFound, t
<1>4. CASE RemoveFinalizer
  <2>1. UNCHANGED nodes /\ UNCHANGED workload /\ UNCHANGED around
    BY <1>4 DEF RemoveFinalizer
  <2>2. CASE /\ UNCHANGED <<snrs, snr, snrFresh>> /\ noFault
             /\ Return(FALSE, FALSE) \/ Return(TRUE, FALSE)
    BY <2>1, <2>2, ReturnTypes, AroundTypes DEF Typed, noFault
  <2>3. CASE updateFinalizer(FALSE) /\ Return(FALSE, FALSE) /\ noFault
    BY <2>1, <2>3, UpdateFinalizerTypes, ReturnTypes, AroundTypes
       DEF Typed, noFault
  <2>4. CASE apiError
    BY <2>1, <2>4, ApiErrorTypes, AroundTypes DEF Typed
  <2>5. QED
    BY <1>4, <2>2, <2>3, <2>4 DEF RemoveFinalizer, snrConflict
<1>5. QED
  BY <1>1, <1>2, <1>3, <1>4

\* The end of a reconcile.
LEMMA TypedEnd ==
    ASSUME Typed, UpdateSnrStatusLastError \/ UpdateSnrStatus
    PROVE  Typed'
<1>1. CASE UpdateSnrStatusLastError
  <2>1. /\ UNCHANGED <<nodes, node, nodeFresh, requeue, workload>>
        /\ UNCHANGED around /\ pc' = "status" /\ "status" \in ProgramPoints
    BY <1>1 DEF UpdateSnrStatusLastError, ProgramPoints
  <2>2. CASE noFault /\ UNCHANGED <<snrs, snr, snrFresh, failed>>
    BY <2>1, <2>2, AroundTypes DEF Typed, noFault
  <2>3. CASE /\ Room(snrs)
             /\ snr' = [Server(snrs) EXCEPT !.lastError = failed]
             /\ snrs' = Append(snrs, snr')
             /\ snrFresh' = TRUE
             /\ noFault /\ UNCHANGED failed
    <3>1. snr' \in SNRs
      BY <2>3, VersionTypes, ObjectTypes DEF Typed
    <3>2. snrs' \in Windows(SNRs)
      BY <3>1, <2>3, WindowTypes DEF Typed
    <3>3. QED
      BY <2>1, <2>3, <3>1, <3>2, AroundTypes DEF Typed, noFault
  <2>4. CASE /\ noFault \/ faults' = faults + 1
             /\ snr' = [snr EXCEPT !.lastError = failed]
             /\ failed' = TRUE /\ UNCHANGED <<snrs, snrFresh>>
    <3>1. snr' \in SNRs
      BY <2>4, ObjectTypes DEF Typed
    <3>2. faults' \in Nat
      BY <2>4 DEF Typed, noFault
    <3>3. QED
      BY <2>1, <2>4, <3>1, <3>2, AroundTypes DEF Typed
  <2>5. QED
    BY <1>1, <2>2, <2>3, <2>4 DEF UpdateSnrStatusLastError
<1>2. CASE UpdateSnrStatus
  <2>1. ASSUME NEW again \in BOOLEAN, EndReconcile(again),
               snrs' \in Windows(SNRs), faults' \in Nat
        PROVE  Typed'
    BY <2>1, ObjectTypes DEF EndReconcile, Typed, ProgramPoints
  <2>2. faults' \in Nat
    <3>1. faults' = faults \/ faults' = faults + 1
      BY <1>2 DEF UpdateSnrStatus, noFault
    <3>2. QED
      BY <3>1 DEF Typed
  <2>3. (failed \/ requeue) \in BOOLEAN /\ TRUE \in BOOLEAN
    OBVIOUS
  <2>4. CASE /\ Room(snrs)
             /\ snrs' = Store(snrs, withStatusOf(snr, Server(snrs)))
             /\ EndReconcile(failed \/ requeue)
    <3>1. withStatusOf(snr, Server(snrs)) \in SNRs
      BY VersionTypes, ObjectTypes DEF Typed
    <3>2. snrs' \in Windows(SNRs)
      BY <3>1, <2>4, WindowTypes DEF Typed
    <3>3. QED
      BY <2>1, <2>2, <2>3, <2>4, <3>2
  <2>5. CASE EndReconcile(TRUE) /\ UNCHANGED snrs
    BY <2>1, <2>2, <2>5 DEF Typed
  <2>6. QED
    BY <1>2, <2>4, <2>5 DEF UpdateSnrStatus
<1>3. QED
  BY <1>1, <1>2

\* The start of a reconcile.
LEMMA TypedBegin ==
    ASSUME Typed, SNRAlreadyDeleted \/ ConfigurationNotFound \/ StoppedByNHC
                  \/ TargetNodeNotFound \/ SkipExcludedNode \/ Remediate
    PROVE  Typed'
<1>1. CASE SNRAlreadyDeleted
  BY <1>1 DEF SNRAlreadyDeleted, Typed, objects, local, world
<1>2. ASSUME NEW s \in SNRs, NEW next \in ProgramPoints, NEW err \in BOOLEAN,
             Begin(s, next, err), node' \in Nodes, nodeFresh' \in BOOLEAN
      PROVE  Typed'
  BY <1>2 DEF Begin, Typed, objects, world
<1>3. /\ Cached(snrs) \in SNRs /\ Cached(nodes) \in Nodes
      /\ [Cached(snrs) EXCEPT !.disabled = TRUE] \in SNRs
      /\ [Cached(snrs) EXCEPT !.condition = "failed"] \in SNRs
      /\ startCondition(Cached(snrs)) \in SNRs
  BY VersionTypes, ObjectTypes
<1>4. /\ "status" \in ProgramPoints /\ "lastError" \in ProgramPoints
      /\ "remediate" \in ProgramPoints
  BY DEF ProgramPoints
<1>5. CASE ConfigurationNotFound
  BY <1>2, <1>3, <1>4, <1>5 DEF ConfigurationNotFound, Typed
<1>6. CASE StoppedByNHC
  BY <1>2, <1>3, <1>4, <1>6 DEF StoppedByNHC, Typed
<1>7. CASE TargetNodeNotFound
  BY <1>2, <1>3, <1>4, <1>7 DEF TargetNodeNotFound, Typed
<1>8. CASE SkipExcludedNode
  BY <1>2, <1>3, <1>4, <1>8 DEF SkipExcludedNode, Typed
<1>9. CASE Remediate
  BY <1>2, <1>3, <1>4, <1>9 DEF Remediate
<1>10. QED
  BY <1>1, <1>5, <1>6, <1>7, <1>8, <1>9

\* Caches, queues, restart, and the reconcile of the configuration.
LEMMA TypedRuntime ==
    ASSUME Typed, Runtime \/ RestartManager
    PROVE  Typed'
<1>1. CASE DeliverSNR
  BY <1>1, VersionTypes DEF DeliverSNR, Typed, local, world
<1>2. CASE DeliverNode
  BY <1>2, VersionTypes DEF DeliverNode, Typed, local, queue, world
<1>3. CASE TimerFires
  BY <1>3 DEF TimerFires, Typed, objects, local, world
<1>4. CASE SetCRsEnabledStatus
  <2> DEFINE v == [Cached(snrs) EXCEPT !.disabled = FALSE]
  <2>1. v \in SNRs
    BY VersionTypes, ObjectTypes
  <2> HIDE DEF v
  <2>2. snrs' = snrs \/ (Len(snrs) = 1 /\ snrs' = Append(snrs, v))
    BY <1>4 DEF SetCRsEnabledStatus, v
  <2>3. Len(snrs) = 1 => Room(snrs)
    BY BoundsAssumption DEF Room
  <2>4. snrs' \in Windows(SNRs)
    BY <2>1, <2>2, <2>3, WindowTypes DEF Typed
  <2>5. snrFresh' \in BOOLEAN /\ enabling' \in BOOLEAN
    BY <1>4 DEF SetCRsEnabledStatus, Typed
  <2>6. QED
    BY <1>4, <2>4, <2>5 DEF SetCRsEnabledStatus, Typed, queue
<1>5. CASE RestartManager
  <2>1. faults' \in Nat
    BY <1>5 DEF RestartManager, Typed
  <2>2. snrs' \in Windows(SNRs) /\ nodes' \in Windows(Nodes)
    BY <1>5, VersionTypes DEF RestartManager
  <2>3. QED
    BY <1>5, <2>1, <2>2, ObjectTypes DEF RestartManager, Typed, ProgramPoints
<1>6. QED
  BY <1>1, <1>2, <1>3, <1>4, <1>5 DEF Runtime

\* Writes to the SNR.
LEMMA TypedSNRWriters ==
    ASSUME Typed, \/ \E strategy \in Strategies, held \in BOOLEAN :
                       CreateSNR(strategy, held)
                  \/ DeleteSNR \/ ReleaseSNR \/ TimeOutSNR
    PROVE  Typed'
<1>1. ASSUME NEW v \in SNRs, writeSNR(v), UNCHANGED world PROVE Typed'
  BY <1>1, WriteSNRTypes DEF Typed, world
<1>2. ASSUME NEW strategy \in Strategies, NEW held \in BOOLEAN,
             CreateSNR(strategy, held)
      PROVE  Typed'
  <2> DEFINE v == [NoSNR EXCEPT !.uid = born + 1, !.strategy = strategy,
                                !.held = held]
  <2>1. /\ NoSNR \in SNRs /\ strategy \in AllStrategies /\ born + 1 \in Nat
    BY ObjectTypes, StrategiesAssumption DEF Typed
  <2>2. v \in SNRs
    BY <2>1 DEF SNRs
  <2> HIDE DEF v
  <2>3. writeSNR(v)
    BY <1>2 DEF CreateSNR, v
  <2>4. /\ born' = born + 1
        /\ UNCHANGED <<now, workload, capable, config, enabling>>
        /\ faults' = faults \/ faults' = faults + 1
    BY <1>2 DEF CreateSNR, Disturb, noFault
  <2>5. faults' \in Nat
    BY <2>4 DEF Typed
  <2>6. QED
    BY <2>1, <2>2, <2>3, <2>4, <2>5, WriteSNRTypes DEF Typed
<1>3. /\ reap([Server(snrs) EXCEPT !.deleted = TRUE]) \in SNRs
      /\ reap([Server(snrs) EXCEPT !.held = FALSE]) \in SNRs
      /\ [Server(snrs) EXCEPT !.timedOut = TRUE] \in SNRs
  BY VersionTypes, ObjectTypes
<1>4. CASE DeleteSNR
  BY <1>1, <1>3, <1>4 DEF DeleteSNR
<1>5. CASE ReleaseSNR
  BY <1>1, <1>3, <1>5 DEF ReleaseSNR
<1>6. CASE TimeOutSNR
  BY <1>1, <1>3, <1>6 DEF TimeOutSNR
<1>7. QED
  BY <1>2, <1>4, <1>5, <1>6

\* Writes to the Node.
LEMMA TypedNodeWriters ==
    ASSUME Typed, SyncUnschedulableTaint \/ ToggleForeignTaint
                  \/ ToggleExcludeLabel \/ DeleteNode
    PROVE  Typed'
<1>1. ASSUME NEW v \in Nodes, writeNode(v),
             UNCHANGED <<now, workload, capable, config, enabling, born>>,
             faults' = faults \/ faults' = faults + 1
      PROVE  Typed'
  <2>1. faults' \in Nat
    BY <1>1 DEF Typed
  <2>2. QED
    BY <1>1, <2>1, WriteNodeTypes DEF Typed
<1>2. Server(nodes) \in Nodes /\ Server(nodes).taints \in SUBSET Taints
  BY VersionTypes DEF Nodes
<1>3. CASE SyncUnschedulableTaint
  <2> DEFINE t == IF Server(nodes).unschedulable
                  THEN Server(nodes).taints \union {NodeUnschedulableTaint}
                  ELSE Server(nodes).taints \ {NodeUnschedulableTaint}
  <2>1. t \in SUBSET Taints
    BY <1>2 DEF Taints
  <2>2. [Server(nodes) EXCEPT !.taints = t] \in Nodes
    BY <1>2, <2>1, ObjectTypes
  <2>3. /\ writeNode([Server(nodes) EXCEPT !.taints = t])
        /\ UNCHANGED world
    BY <1>3 DEF SyncUnschedulableTaint
  <2>4. QED
    BY <1>1, <2>2, <2>3 DEF world
<1>4. CASE ToggleForeignTaint
  <2> DEFINE t == IF ForeignTaint \in Server(nodes).taints
                  THEN Server(nodes).taints \ {ForeignTaint}
                  ELSE Server(nodes).taints \union {ForeignTaint}
  <2>1. t \in SUBSET Taints
    BY <1>2 DEF Taints
  <2>2. [Server(nodes) EXCEPT !.taints = t] \in Nodes
    BY <1>2, <2>1, ObjectTypes
  <2>3. /\ writeNode([Server(nodes) EXCEPT !.taints = t])
        /\ faults' = faults + 1
        /\ UNCHANGED <<now, workload, capable, config, enabling, born>>
    BY <1>4 DEF ToggleForeignTaint, Disturb
  <2>4. QED
    BY <1>1, <2>2, <2>3
<1>5. CASE ToggleExcludeLabel
  <2>1. [Server(nodes) EXCEPT !.excluded = ~@] \in Nodes
    BY <1>2, ObjectTypes
  <2>2. QED
    BY <1>1, <1>5, <2>1 DEF ToggleExcludeLabel, Disturb
<1>6. CASE DeleteNode
  BY <1>1, <1>6, ObjectTypes DEF DeleteNode, Disturb
<1>7. QED
  BY <1>3, <1>4, <1>5, <1>6

\* The rest of the environment leaves the objects alone.
LEMMA TypedWorld ==
    ASSUME Typed, ToggleCapable \/ ToggleConfig \/ EvictPods \/ CollectPods
                  \/ KubeletTerminatesPods \/ SchedulePods \/ Tick
    PROVE  Typed'
<1> USE DEF Typed, objects, local, queue
<1>1. CASE ToggleCapable
  BY <1>1 DEF ToggleCapable, Disturb, noFault
<1>2. CASE ToggleConfig
  BY <1>2 DEF ToggleConfig, Disturb, noFault
<1>3. CASE EvictPods \/ CollectPods \/ KubeletTerminatesPods \/ SchedulePods
  BY <1>3 DEF EvictPods, CollectPods, KubeletTerminatesPods, SchedulePods,
              ChangeWorkload, Workloads
<1>4. CASE Tick
  BY <1>4 DEF Tick
<1>5. QED
  BY <1>1, <1>2, <1>3, <1>4

\* Every step of the manager, the runtime and the environment keeps the types.
LEMMA TypedNext == Typed /\ [Next]_vars => Typed'
<1> SUFFICES ASSUME Typed, [Next]_vars PROVE Typed'
  OBVIOUS
<1>1. CASE Manager
  BY <1>1, TypedBegin, TypedPrepare, TypedFence, TypedRecover, TypedEnd
     DEF Manager
<1>2. CASE Runtime \/ RestartManager
  BY <1>2, TypedRuntime
<1>3. CASE Environment
  BY <1>3, TypedSNRWriters, TypedNodeWriters, TypedWorld DEF Environment
<1>4. CASE UNCHANGED vars
  BY <1>4 DEF vars, Typed, objects, local, queue, world
<1>5. QED
  BY <1>1, <1>2, <1>3, <1>4 DEF Next

\* The type invariant holds in every reachable state, for all strategies,
\* durations, windows and environments: no sequence of conflicts, failures
\* and restarts makes ReconcileManager handle an object out of its type.
THEOREM TypeCorrect == Spec => []TypeOK
<1>1. Init => Typed
  BY TypedInit
<1>2. Typed /\ [Next]_vars => Typed'
  BY TypedNext
<1>3. Typed => TypeOK
  BY TypedIsTypeOK
<1>4. QED
  BY <1>1, <1>2, <1>3, PTL DEF Spec

----------------------------------------------------------------------------
\* A remediation only goes forward: no write of a status takes a phase or
\* TimeAssumedRebooted back, and a phase after Fencing-Started always comes
\* with its TimeAssumedRebooted.
\*
\* A status is written from the reconciler's copy, and accepted only while the
\* copy has the server's resource version.  What has to be invariant is that
\* such a copy is ahead of the server's SNR, never behind.

\* A version has TimeAssumedRebooted from the phase on that needs it, and the
\* absent SNR has neither.
Timed(s) ==
    /\ s.phase # FencingStarted <=> s.timeAssumedRebooted # NoTime
    /\ ~Exists(s) => s.phase = FencingStarted

AllTimed(w) == \A i \in 1 .. Len(w) : Timed(w[i])

\* Version b has the status of version a, ...
SameStatus(a, b) ==
    /\ b.uid = a.uid
    /\ b.phase = a.phase
    /\ b.timeAssumedRebooted = a.timeAssumedRebooted

\* ... or it is one phase further: the time comes with the first phase, stays,
\* and is over before the second.
NextPhase(a, b) ==
    /\ b.uid = a.uid
    /\ b.phase = a.phase + 1
    /\ IF a.phase = FencingStarted
       THEN b.timeAssumedRebooted # NoTime
       ELSE b.timeAssumedRebooted = a.timeAssumedRebooted
    /\ a.phase = PreRebootCompleted => now >= a.timeAssumedRebooted

\* Copy s is version t of the SNR, or the phase handlers took it one further.
Ahead(point, s, t) ==
    /\ Exists(t)
    /\ \/ SameStatus(t, s)
       \/ point \in {"lastError", "status"} /\ NextPhase(t, s)

\* What the position in the reconcile says about the SNR.
PhaseFits(point, s) ==
    /\ point \in {"remediate", "cordon", "drain"} => Exists(s)
    /\ point = "cordon" => s.phase = FencingStarted
    /\ point = "drain" => s.phase = RebootCompleted

ProgressInv ==
    /\ AllTimed(snrs) /\ Timed(snr)
    /\ PhaseFits(pc, snr)
    /\ snrFresh => Ahead(pc, snr, Server(snrs))

\* Version b may replace version a on the server: nothing happens to the
\* status, an SNR is created, a phase is completed, or the SNR is gone.
Advances(a, b) ==
    \/ SameStatus(a, b)
    \/ /\ ~Exists(a) /\ Exists(b)
       /\ b.phase = a.phase
       /\ b.timeAssumedRebooted = a.timeAssumedRebooted
    \/ Exists(a) /\ NextPhase(a, b)
    \/ /\ ~Exists(b) /\ b.phase = FencingStarted
       /\ b.timeAssumedRebooted = NoTime

Forward == ProgressInv' /\ Advances(Server(snrs), Server(snrs'))

\* The clock never goes back.
Later == now' \in Nat /\ now' >= now

----------------------------------------------------------------------------
\* Windows and versions.

\* What holds of the versions holds after a write, a delivery or a restart.
LEMMA TimedWindows ==
    ASSUME NEW w \in Windows(SNRs), AllTimed(w)
    PROVE  /\ Timed(Server(w)) /\ Timed(Cached(w))
           /\ AllTimed(<<Server(w)>>)
           /\ Len(w) > 1 => AllTimed(Tail(w)) /\ Server(Tail(w)) = Server(w)
           /\ Server(<<Server(w)>>) = Server(w)
           /\ Len(w) = 1 => Cached(w) = Server(w)
           /\ \A v \in SNRs : Timed(v) =>
                /\ AllTimed(Append(w, v)) /\ Server(Append(w, v)) = v
                /\ AllTimed(Store(w, v)) /\ Server(Store(w, v)) = v
<1>1. w \in Seq(SNRs) /\ Len(w) \in Nat /\ Len(w) >= 1
  BY BoundsAssumption DEF Windows
<1>2. /\ Timed(Server(w)) /\ Timed(Cached(w))
      /\ Len(w) = 1 => Cached(w) = Server(w)
  BY <1>1 DEF AllTimed, Server, Cached
<1>3. AllTimed(<<Server(w)>>) /\ Server(<<Server(w)>>) = Server(w)
  <2> DEFINE one == <<Server(w)>>
  <2>1. Len(one) = 1 /\ one[1] = Server(w) /\ Server(one) = Server(w)
    BY <1>1, WindowFacts
  <2> HIDE DEF one
  <2>2. AllTimed(one)
    BY <1>2, <2>1 DEF AllTimed
  <2>3. QED
    BY <2>1, <2>2 DEF one
<1>4. ASSUME Len(w) > 1
      PROVE  AllTimed(Tail(w)) /\ Server(Tail(w)) = Server(w)
  BY <1>1, <1>4, TailFacts DEF AllTimed
<1>5. ASSUME NEW v \in SNRs, Timed(v)
      PROVE  /\ AllTimed(Append(w, v)) /\ Server(Append(w, v)) = v
             /\ AllTimed(Store(w, v)) /\ Server(Store(w, v)) = v
  <2>1. AllTimed(Append(w, v)) /\ Server(Append(w, v)) = v
    BY <1>1, <1>5, AppendFacts DEF AllTimed
  <2>2. QED
    BY <1>1, <1>5, <2>1, StoreFacts DEF Store
<1>6. QED
  BY <1>2, <1>3, <1>4, <1>5

\* Fields that are not phase and time do not matter.
LEMMA TimedVersions ==
    /\ Timed(NoSNR)
    /\ \A s \in SNRs :
         /\ Advances(s, s)
         /\ Timed(s) => Timed(reap(s)) /\ Timed(startCondition(s))
         /\ Timed(s) => /\ \A f \in BOOLEAN :
                             /\ Timed([s EXCEPT !.finalizer = f])
                             /\ Timed([s EXCEPT !.lastError = f])
                             /\ Timed([s EXCEPT !.held = f])
                             /\ Timed([s EXCEPT !.disabled = f])
                        /\ Timed([s EXCEPT !.deleted = TRUE])
                        /\ Timed([s EXCEPT !.timedOut = TRUE])
                        /\ Timed([s EXCEPT !.condition = "failed"])
<1>1. Timed(NoSNR)
  BY DEF Timed, NoSNR, Exists
<1>2. ASSUME NEW s \in SNRs PROVE Advances(s, s)
  BY DEF Advances, SameStatus
<1>3. ASSUME NEW s \in SNRs, Timed(s)
      PROVE  /\ \A f \in BOOLEAN : /\ Timed([s EXCEPT !.finalizer = f])
                                   /\ Timed([s EXCEPT !.lastError = f])
                                   /\ Timed([s EXCEPT !.held = f])
                                   /\ Timed([s EXCEPT !.disabled = f])
             /\ Timed([s EXCEPT !.deleted = TRUE])
             /\ Timed([s EXCEPT !.timedOut = TRUE])
             /\ Timed([s EXCEPT !.condition = "failed"])
             /\ Timed(reap(s)) /\ Timed(startCondition(s))
  <2>1. /\ \A f \in BOOLEAN : /\ Timed([s EXCEPT !.finalizer = f])
                              /\ Timed([s EXCEPT !.lastError = f])
                              /\ Timed([s EXCEPT !.held = f])
                              /\ Timed([s EXCEPT !.disabled = f])
    BY <1>3 DEF Timed, Exists, SNRs
  <2>2. /\ Timed([s EXCEPT !.deleted = TRUE])
        /\ Timed([s EXCEPT !.timedOut = TRUE])
        /\ Timed([s EXCEPT !.condition = "failed"])
    BY <1>3 DEF Timed, Exists, SNRs
  <2>3. Timed(reap(s))
    BY <1>1, <1>3 DEF reap
  <2>4. Timed(startCondition(s))
    BY <1>3 DEF startCondition, Timed, Exists, SNRs
  <2>5. QED
    BY <2>1, <2>2, <2>3, <2>4
<1>4. QED
  BY <1>1, <1>2, <1>3

----------------------------------------------------------------------------
\* The kinds of steps.

\* A step of the reconciler that writes no SNR: its copy stays or advances.
LEMMA LocalStep ==
    ASSUME Typed, ProgressInv, Later, UNCHANGED snrs, snrFresh' => snrFresh,
           Timed(snr'), PhaseFits(pc', snr'),
           snrFresh => Ahead(pc, snr, Server(snrs))'
    PROVE  Forward
<1>1. Advances(Server(snrs), Server(snrs'))
  BY VersionTypes, TimedVersions
<1>2. QED
  BY <1>1 DEF Forward, ProgressInv

\* A phase that may be completed now may be completed later.
LEMMA NextPhaseLater ==
    ASSUME Typed, Later, NEW a \in SNRs, NEW b, NextPhase(a, b)
    PROVE  NextPhase(a, b)'
BY DEF NextPhase, Later, Typed, SNRs

\* A step that only changes the position in the reconcile, or less: the copy
\* has the server's status, or keeps its position among the last two.
LEMMA QuietStep ==
    ASSUME Typed, ProgressInv, Later, UNCHANGED <<snrs, snr>>,
           snrFresh' => snrFresh, PhaseFits(pc', snr),
           pc \in {"lastError", "status"} => pc' \in {"lastError", "status"}
    PROVE  Forward
<1>1. Server(snrs) \in SNRs
  BY VersionTypes
<1>2. snrFresh => Ahead(pc, snr, Server(snrs))'
  <2>1. CASE pc \in {"lastError", "status"} /\ NextPhase(Server(snrs), snr)
    <3>1. NextPhase(Server(snrs), snr)'
      BY <1>1, <2>1, NextPhaseLater DEF NextPhase
    <3>2. QED
      BY <2>1, <3>1 DEF Ahead, ProgressInv, Exists
  <2>2. CASE ~(pc \in {"lastError", "status"} /\ NextPhase(Server(snrs), snr))
    BY <2>2 DEF Ahead, ProgressInv, SameStatus, Exists
  <2>3. QED
    BY <2>1, <2>2
<1>3. QED
  BY <1>2, LocalStep DEF ProgressInv

\* A write of version v by somebody else makes the copy stale.
LEMMA ForeignWrite ==
    ASSUME Typed, ProgressInv, Later, NEW v \in SNRs, writeSNR(v),
           Timed(v), Advances(Server(snrs), v)
    PROVE  Forward
<1>1. /\ snrs' = Append(snrs, v) /\ ~snrFresh'
      /\ UNCHANGED <<pc, snr>>
  BY DEF writeSNR
<1>2. AllTimed(snrs') /\ Server(snrs') = v
  BY <1>1, TimedWindows DEF ProgressInv, Typed
<1>3. QED
  BY <1>1, <1>2 DEF Forward, ProgressInv

----------------------------------------------------------------------------
\* The actions.

\* A reconcile starts from the cached SNR; its copy is fresh only if the cache
\* has caught up.
LEMMA ForwardBegin ==
    ASSUME Typed, ProgressInv, Later,
           SNRAlreadyDeleted \/ ConfigurationNotFound \/ StoppedByNHC
           \/ TargetNodeNotFound \/ SkipExcludedNode \/ Remediate
    PROVE  Forward
<1> DEFINE c == Cached(snrs)
<1>1. c \in SNRs /\ Timed(c) /\ Server(snrs) \in SNRs
  BY VersionTypes, TimedWindows DEF ProgressInv, Typed
<1>2. Len(snrs) = 1 => c = Server(snrs)
  BY TimedWindows DEF ProgressInv, Typed
<1>3. ASSUME NEW s \in SNRs, NEW point, NEW err, Begin(s, point, err),
             Timed(s), s.uid = c.uid, s.phase = c.phase,
             s.timeAssumedRebooted = c.timeAssumedRebooted, Exists(c),
             point \in {"status", "lastError", "remediate"}
      PROVE  Forward
  <2>1. /\ UNCHANGED snrs /\ snr' = s /\ snrFresh' = (Len(snrs) = 1)
        /\ pc' = point
    BY <1>3 DEF Begin, objects
  <2>2. Advances(Server(snrs), Server(snrs'))
    BY <1>1, <2>1, TimedVersions
  <2>3. snrFresh' => Ahead(pc, snr, Server(snrs))'
    BY <1>2, <1>3, <2>1 DEF Ahead, SameStatus, Exists
  <2>4. PhaseFits(pc', snr')
    BY <1>3, <2>1 DEF PhaseFits, Exists
  <2>5. QED
    BY <1>3, <2>1, <2>2, <2>3, <2>4 DEF Forward, ProgressInv
<1>4. CASE SNRAlreadyDeleted
  BY <1>4, QuietStep DEF SNRAlreadyDeleted, objects, local, ProgressInv
<1>5. CASE ConfigurationNotFound
  <2> DEFINE s == [c EXCEPT !.disabled = TRUE]
  <2>1. /\ s \in SNRs /\ Timed(s) /\ s.uid = c.uid /\ s.phase = c.phase
        /\ s.timeAssumedRebooted = c.timeAssumedRebooted
    <3>1. s \in SNRs
      BY <1>1, ObjectTypes
    <3>2. /\ s.uid = c.uid /\ s.phase = c.phase
          /\ s.timeAssumedRebooted = c.timeAssumedRebooted
      BY <1>1 DEF SNRs
    <3>3. Timed(s)
      BY <1>1, <3>2 DEF Timed, Exists
    <3>4. QED
      BY <3>1, <3>2, <3>3
  <2>2. Begin(s, "status", FALSE) /\ Exists(c)
    BY <1>5 DEF ConfigurationNotFound
  <2> HIDE DEF c, s
  <2>3. QED
    BY <1>3, <2>1, <2>2
<1>6. CASE StoppedByNHC \/ TargetNodeNotFound
  <2> DEFINE s == [c EXCEPT !.condition = "failed"]
  <2>1. /\ s \in SNRs /\ Timed(s) /\ s.uid = c.uid /\ s.phase = c.phase
        /\ s.timeAssumedRebooted = c.timeAssumedRebooted
    <3>1. s \in SNRs
      BY <1>1, ObjectTypes
    <3>2. /\ s.uid = c.uid /\ s.phase = c.phase
          /\ s.timeAssumedRebooted = c.timeAssumedRebooted
      BY <1>1 DEF SNRs
    <3>3. Timed(s)
      BY <1>1, <3>2 DEF Timed, Exists
    <3>4. QED
      BY <3>1, <3>2, <3>3
  <2>2. /\ Begin(s, "status", FALSE) \/ Begin(s, "lastError", TRUE)
        /\ Exists(c)
    BY <1>6 DEF StoppedByNHC, TargetNodeNotFound, isRunning
  <2> HIDE DEF c, s
  <2>3. QED
    BY <1>3, <2>1, <2>2
<1>7. CASE SkipExcludedNode \/ Remediate
  <2> DEFINE s == startCondition(c)
  <2>1. /\ s \in SNRs /\ Timed(s)
    BY <1>1, ObjectTypes, TimedVersions
  <2>2. /\ s.uid = c.uid /\ s.phase = c.phase
        /\ s.timeAssumedRebooted = c.timeAssumedRebooted
    BY <1>1 DEF SNRs, startCondition
  <2>3. /\ Begin(s, "status", FALSE) \/ Begin(s, "remediate", FALSE)
        /\ Exists(c)
    BY <1>7 DEF SkipExcludedNode, Remediate, isRunning
  <2> HIDE DEF c, s
  <2>4. QED
    BY <1>3, <2>1, <2>2, <2>3
<1>8. QED
  BY <1>4, <1>5, <1>6, <1>7

\* A write of the finalizer replaces the copy by the server's answer.
LEMMA ForwardFinalizer ==
    ASSUME Typed, ProgressInv, Later, NEW f \in BOOLEAN, updateFinalizer(f),
           pc' = "lastError"
    PROVE  Forward
<1> DEFINE old == Server(snrs)
           answer == [old EXCEPT !.finalizer = f]
<1>1. old \in SNRs /\ Timed(old) /\ Exists(old)
  BY VersionTypes, TimedWindows DEF ProgressInv, Typed, updateFinalizer, Ahead
<1>2. /\ answer \in SNRs /\ reap(answer) \in SNRs
      /\ Timed(answer) /\ Timed(reap(answer))
  BY <1>1, ObjectTypes, TimedVersions
<1>3. /\ snrs' = Store(snrs, reap(answer)) /\ snr' = answer
      /\ snrFresh' = Exists(reap(answer))
  BY DEF updateFinalizer
<1>4. AllTimed(snrs') /\ Server(snrs') = reap(answer)
  BY <1>2, <1>3, TimedWindows DEF ProgressInv, Typed
<1>5. Advances(old, reap(answer))
  BY <1>1 DEF Advances, SameStatus, reap, SNRs, NoSNR, Exists
<1>6. snrFresh' => Ahead(pc, snr, Server(snrs))'
  BY <1>1, <1>2, <1>3, <1>4 DEF Ahead, SameStatus, reap, SNRs, NoSNR, Exists
<1>7. PhaseFits(pc', snr')
  BY DEF PhaseFits
<1>8. QED
  BY <1>2, <1>3, <1>4, <1>5, <1>6, <1>7 DEF Forward, ProgressInv

\* Leaving the handlers without a change of the SNR.
LEMMA ForwardReturn ==
    ASSUME Typed, ProgressInv, Later, UNCHANGED <<snrs, snr, snrFresh>>,
           pc' = "lastError"
    PROVE  Forward
BY QuietStep DEF PhaseFits

\* Fencing-Started: the phase and the time are set together, and a time that
\* is there stays.
LEMMA ForwardPrepare ==
    ASSUME Typed, ProgressInv, Later,
           NodeNotRebootCapable \/ AddFinalizer \/ AddNoExecuteTaint
           \/ MarkNodeAsUnschedulable \/ CompletePreReboot
    PROVE  Forward
<1>1. CASE NodeNotRebootCapable
  BY <1>1, ForwardReturn DEF NodeNotRebootCapable, objects, Return
<1>2. CASE AddFinalizer
  <2>1. CASE updateFinalizer(TRUE) /\ Return(FALSE, TRUE)
    BY <2>1, ForwardFinalizer DEF Return
  <2>2. CASE ~(updateFinalizer(TRUE) /\ Return(FALSE, TRUE))
    BY <1>2, <2>2, ForwardReturn
       DEF AddFinalizer, snrConflict, apiError, objects, Return
  <2>3. QED
    BY <2>1, <2>2
<1>3. CASE AddNoExecuteTaint
  <2>1. /\ UNCHANGED <<snrs, snr, snrFresh>> /\ snr.phase = FencingStarted
        /\ pc = "remediate"
    BY <1>3 DEF AddNoExecuteTaint, preparing
  <2>2. CASE pc' = "cordon"
    BY <2>1, <2>2, QuietStep DEF PhaseFits, ProgressInv
  <2>3. CASE pc' # "cordon"
    BY <1>3, <2>1, <2>3, ForwardReturn
       DEF AddNoExecuteTaint, Skip, GoOn, Return, apiError
  <2>4. QED
    BY <2>2, <2>3
<1>4. CASE MarkNodeAsUnschedulable
  BY <1>4, ForwardReturn DEF MarkNodeAsUnschedulable, Return, apiError
<1>5. CASE CompletePreReboot
  <2>1. UNCHANGED snrs /\ UNCHANGED snrFresh
    BY <1>5 DEF CompletePreReboot, objects
  <2>2. CASE apiError
    BY <2>2, ForwardReturn DEF apiError, objects, Return
  <2>3. CASE ~apiError
    <3>1. /\ snr' = [setTimeAssumedRebooted(snr) EXCEPT
                        !.phase = PreRebootCompleted]
          /\ pc' = "lastError" /\ pc = "cordon"
      BY <1>5, <2>3 DEF CompletePreReboot, Return
    <3>2. /\ snr'.uid = snr.uid /\ snr'.phase = PreRebootCompleted
          /\ snr'.timeAssumedRebooted
               = IF snr.timeAssumedRebooted # NoTime
                 THEN snr.timeAssumedRebooted ELSE now + RebootDuration
      BY <3>1 DEF setTimeAssumedRebooted, Typed, SNRs
    <3>3. snr \in SNRs /\ Server(snrs) \in SNRs /\ snr.phase = FencingStarted
      BY <3>1, VersionTypes DEF Typed, ProgressInv, PhaseFits
    <3>e. Exists(snr)
      BY <3>1 DEF ProgressInv, PhaseFits
    <3>4. /\ snr.timeAssumedRebooted = NoTime
          /\ snr'.timeAssumedRebooted # NoTime
      BY <3>2, <3>3, DurationAssumption DEF ProgressInv, Timed, Typed
    <3>t. Timed(snr')
      BY <3>2, <3>4, <3>e DEF Timed, Exists
    <3>5. snrFresh => Ahead(pc, snr, Server(snrs))'
      BY <2>1, <3>1, <3>2, <3>3, <3>4
         DEF ProgressInv, Ahead, SameStatus, NextPhase, Exists
    <3>6. PhaseFits(pc', snr')
      BY <3>1 DEF PhaseFits
    <3>7. QED
      BY <2>1, <3>t, <3>5, <3>6, LocalStep
  <2>4. QED
    BY <2>2, <2>3
<1>6. QED
  BY <1>1, <1>2, <1>3, <1>4, <1>5

\* A copy with the server's status that is taken one phase further, from a
\* phase that has its time, stays ahead.
LEMMA ForwardPhase ==
    ASSUME Typed, ProgressInv, Later, UNCHANGED <<snrs, snrFresh>>,
           pc \notin {"lastError", "status"}, pc' = "lastError",
           snr.phase # FencingStarted, NextPhase(snr, snr')
    PROVE  Forward
<1>1. snr \in SNRs /\ Server(snrs) \in SNRs
  BY VersionTypes DEF Typed
<1>2. snr.phase \in Nat /\ snr'.phase = snr.phase + 1 /\ snr'.uid = snr.uid
      /\ snr'.timeAssumedRebooted = snr.timeAssumedRebooted
  BY <1>1 DEF NextPhase, SNRs, Phases
<1>3. Timed(snr')
  BY <1>2 DEF Timed, ProgressInv, Exists
<1>4. snrFresh => Ahead(pc, snr, Server(snrs))'
  <2> SUFFICES ASSUME snrFresh PROVE Ahead(pc, snr, Server(snrs))'
    OBVIOUS
  <2>1. SameStatus(Server(snrs), snr) /\ Exists(Server(snrs))
    BY DEF ProgressInv, Ahead
  <2>2. NextPhase(Server(snrs), snr')
    BY <2>1 DEF NextPhase, SameStatus
  <2>3. NextPhase(Server(snrs), snr)'
    BY <1>1, <2>2, NextPhaseLater DEF NextPhase
  <2>4. QED
    BY <2>1, <2>3 DEF Ahead, Exists
<1>5. QED
  BY <1>3, <1>4, LocalStep DEF PhaseFits

\* Pre-Reboot-Completed and Reboot-Completed.
LEMMA ForwardFence ==
    ASSUME Typed, ProgressInv, Later,
           WaitForNodeRebooted \/ DeletePods \/ AddOutOfServiceTaint
           \/ WaitForResourceDeletion \/ RemoveOutOfServiceTaint
    PROVE  Forward
<1>1. snr \in SNRs
  BY DEF Typed
<1>2. CASE WaitForNodeRebooted
  <2>1. /\ UNCHANGED <<snrs, snrFresh>> /\ pc' = "lastError"
        /\ snr.phase = PreRebootCompleted /\ pc = "remediate"
    BY <1>2 DEF WaitForNodeRebooted, objects, Return
  <2>2. CASE UNCHANGED snr
    BY <2>1, <2>2, ForwardReturn
  <2>3. CASE /\ wasNodeRebooted(snr)
             /\ snr' = [snr EXCEPT !.phase = RebootCompleted]
    <3>1. NextPhase(snr, snr')
      BY <1>1, <2>1, <2>3 DEF NextPhase, wasNodeRebooted, Typed, SNRs
    <3>2. QED
      BY <2>1, <3>1, ForwardPhase
  <2>4. QED
    BY <1>2, <2>2, <2>3 DEF WaitForNodeRebooted
<1>3. ASSUME snr' = finished(snr), snr.phase = RebootCompleted,
             UNCHANGED <<snrs, snrFresh>>, pc \in {"remediate", "drain"},
             pc' = "lastError"
      PROVE  Forward
  <2>1. NextPhase(snr, snr')
    BY <1>1, <1>3 DEF NextPhase, SNRs, finished
  <2>2. QED
    BY <1>3, <2>1, ForwardPhase
<1>4. CASE DeletePods
  <2>1. /\ UNCHANGED <<snrs, snrFresh>> /\ pc' = "lastError"
        /\ snr.phase = RebootCompleted /\ pc = "remediate"
        /\ UNCHANGED snr \/ snr' = finished(snr)
    BY <1>4 DEF DeletePods, removing, objects, Return, apiError
  <2>2. QED
    BY <1>3, <2>1, ForwardReturn
<1>5. CASE AddOutOfServiceTaint
  <2>1. /\ UNCHANGED <<snrs, snr, snrFresh>> /\ snr.phase = RebootCompleted
        /\ pc = "remediate"
    BY <1>5 DEF AddOutOfServiceTaint, removing
  <2>2. pc' = "drain" \/ pc' = "lastError"
    BY <1>5 DEF AddOutOfServiceTaint, Skip, GoOn, Return, apiError
  <2>3. QED
    BY <2>1, <2>2, QuietStep DEF PhaseFits, ProgressInv
<1>6. CASE WaitForResourceDeletion
  BY <1>6, ForwardReturn DEF WaitForResourceDeletion, objects, Return
<1>7. CASE RemoveOutOfServiceTaint
  <2>1. /\ UNCHANGED <<snrs, snrFresh>> /\ pc' = "lastError"
        /\ pc = "drain"
        /\ UNCHANGED snr \/ snr' = finished(snr)
    BY <1>7 DEF RemoveOutOfServiceTaint, Return, apiError
  <2>2. snr.phase = RebootCompleted
    BY <2>1 DEF ProgressInv, PhaseFits
  <2>3. QED
    BY <1>3, <2>1, <2>2, ForwardReturn
<1>8. QED
  BY <1>2, <1>4, <1>5, <1>6, <1>7

\* Fencing-Completed.
LEMMA ForwardRecover ==
    ASSUME Typed, ProgressInv, Later,
           WaitForDeletion \/ MarkNodeAsSchedulable \/ RemoveNoExecuteTaint
           \/ RemoveFinalizer
    PROVE  Forward
<1>1. CASE WaitForDeletion
  BY <1>1, ForwardReturn DEF WaitForDeletion, objects, Return
<1>2. CASE MarkNodeAsSchedulable \/ RemoveNoExecuteTaint
  <2>1. UNCHANGED <<snrs, snr, snrFresh>> /\ pc \in {"remediate", "untaint"}
    BY <1>2 DEF MarkNodeAsSchedulable, RemoveNoExecuteTaint, completed
  <2>2. pc' \in {"untaint", "unfinalize", "lastError"}
    BY <1>2 DEF MarkNodeAsSchedulable, RemoveNoExecuteTaint, Skip, GoOn,
                Return, apiError
  <2>3. QED
    BY <2>1, <2>2, QuietStep DEF PhaseFits, ProgressInv
<1>3. CASE RemoveFinalizer
  <2>1. CASE updateFinalizer(FALSE) /\ Return(FALSE, FALSE)
    BY <2>1, ForwardFinalizer DEF Return
  <2>2. CASE ~(updateFinalizer(FALSE) /\ Return(FALSE, FALSE))
    BY <1>3, <2>2, ForwardReturn
       DEF RemoveFinalizer, snrConflict, apiError, objects, Return
  <2>3. QED
    BY <2>1, <2>2
<1>4. QED
  BY <1>1, <1>2, <1>3

\* The patch of LastError takes the server's SNR as the copy; the deferred
\* update stores the phase and time of a copy that is ahead.
LEMMA ForwardEnd ==
    ASSUME Typed, ProgressInv, Later, UpdateSnrStatusLastError \/ UpdateSnrStatus
    PROVE  Forward
<1> DEFINE old == Server(snrs)
<1>1. old \in SNRs /\ Timed(old) /\ snr \in SNRs
  BY VersionTypes, TimedWindows DEF ProgressInv, Typed
<1>2. CASE UpdateSnrStatusLastError
  <2>1. /\ pc = "lastError" /\ pc' = "status" /\ PhaseFits(pc', snr')
        /\ failed \in BOOLEAN
    BY <1>2 DEF UpdateSnrStatusLastError, PhaseFits, Typed
  <2>2. CASE UNCHANGED <<snrs, snr, snrFresh>>
    BY <2>1, <2>2, QuietStep
  <2>3. CASE /\ Exists(old) /\ snr' = [old EXCEPT !.lastError = failed]
             /\ snrs' = Append(snrs, snr')
    <3> DEFINE v == [old EXCEPT !.lastError = failed]
    <3>1. v \in SNRs /\ Timed(v)
      BY <1>1, <2>1, ObjectTypes, TimedVersions
    <3>2. AllTimed(snrs') /\ Server(snrs') = v
      BY <2>3, <3>1, TimedWindows DEF ProgressInv, Typed
    <3>3. SameStatus(old, v) /\ Exists(v)
      BY <1>1, <2>3 DEF SameStatus, Exists, SNRs
    <3> HIDE DEF v
    <3>4. Advances(old, v) /\ SameStatus(v, v)
      BY <3>3 DEF Advances, SameStatus
    <3>5. Ahead(pc, snr, Server(snrs))'
      BY <2>3, <3>2, <3>3, <3>4 DEF Ahead, Exists, SameStatus, v
    <3>6. QED
      BY <2>1, <2>3, <3>1, <3>2, <3>4, <3>5 DEF Forward, ProgressInv, v
  <2>4. CASE /\ snr' = [snr EXCEPT !.lastError = failed]
             /\ UNCHANGED <<snrs, snrFresh>>
    <3>1. SameStatus(snr, snr')
      BY <1>1, <2>4 DEF SameStatus, SNRs
    <3>2. Timed(snr')
      BY <3>1 DEF Timed, SameStatus, Exists, ProgressInv
    <3>3. ASSUME snrFresh PROVE Ahead(pc, snr, Server(snrs))'
      <4>1. CASE SameStatus(old, snr)
        BY <2>4, <3>1, <3>3, <4>1 DEF Ahead, SameStatus, ProgressInv, Exists
      <4>2. CASE NextPhase(old, snr)
        <5>1. NextPhase(old, snr')
          BY <3>1, <4>2 DEF NextPhase, SameStatus
        <5>2. NextPhase(old, snr)'
          BY <1>1, <2>4, <5>1, NextPhaseLater DEF NextPhase
        <5>3. QED
          BY <2>1, <2>4, <3>3, <5>2 DEF Ahead, ProgressInv, Exists
      <4>3. QED
        BY <3>3, <4>1, <4>2 DEF Ahead, ProgressInv
    <3>4. QED
      BY <2>1, <2>4, <3>2, <3>3, LocalStep
  <2>5. QED
    BY <1>2, <2>2, <2>3, <2>4 DEF UpdateSnrStatusLastError
<1>3. CASE UpdateSnrStatus
  <2>1. pc' = "idle" /\ snr' = NoSNR /\ ~snrFresh'
    BY <1>3 DEF UpdateSnrStatus, EndReconcile
  <2>2. Timed(snr') /\ PhaseFits(pc', snr')
    BY <2>1, TimedVersions DEF PhaseFits
  <2>3. CASE UNCHANGED snrs
    BY <1>1, <2>1, <2>2, <2>3, TimedVersions DEF Forward, ProgressInv
  <2>4. CASE snrFresh /\ snrs' = Store(snrs, withStatusOf(snr, old))
    <3> DEFINE v == withStatusOf(snr, old)
    <3>1. v \in SNRs
      BY <1>1, ObjectTypes
    <3>2. /\ v.uid = old.uid /\ v.phase = snr.phase
          /\ v.timeAssumedRebooted = snr.timeAssumedRebooted
      BY <1>1 DEF withStatusOf, SNRs
    <3> HIDE DEF v
    <3>s. Exists(old) /\ (SameStatus(old, snr) \/ NextPhase(old, snr))
      BY <2>4 DEF Ahead, ProgressInv
    <3>3. Timed(v)
      BY <3>2, <3>s DEF Timed, ProgressInv, SameStatus, NextPhase, Exists
    <3>4. Advances(old, v)
      BY <3>2, <3>s DEF Advances, SameStatus, NextPhase
    <3>5. AllTimed(snrs') /\ Server(snrs') = v
      BY <2>4, <3>1, <3>3, TimedWindows DEF ProgressInv, Typed, v
    <3>6. QED
      BY <2>1, <2>2, <3>4, <3>5 DEF Forward, ProgressInv
  <2>5. QED
    BY <1>3, <2>3, <2>4 DEF UpdateSnrStatus, statusUpdateAccepted
<1>4. QED
  BY <1>2, <1>3

\* Deliveries, timers, a restart and the configuration's reconciler.
LEMMA ForwardRuntime ==
    ASSUME Typed, ProgressInv, Later, Runtime \/ RestartManager
    PROVE  Forward
<1> DEFINE old == Server(snrs)
<1>1. old \in SNRs /\ Advances(old, old)
  BY VersionTypes, TimedVersions
<1>2. CASE DeliverSNR
  <2>1. /\ AllTimed(snrs') /\ Server(snrs') = old
        /\ UNCHANGED <<pc, snr, snrFresh, now>>
    BY <1>2, TimedWindows DEF DeliverSNR, local, world, ProgressInv, Typed
  <2>2. snrFresh' => Ahead(pc, snr, Server(snrs))'
    BY <2>1 DEF Ahead, NextPhase, SameStatus, Exists, ProgressInv
  <2>3. QED
    BY <1>1, <2>1, <2>2 DEF Forward, ProgressInv
<1>3. CASE DeliverNode \/ TimerFires
  BY <1>3, QuietStep DEF DeliverNode, TimerFires, local, objects, ProgressInv
<1>4. CASE SetCRsEnabledStatus
  <2>1. UNCHANGED <<pc, snr>>
    BY <1>4 DEF SetCRsEnabledStatus
  <2>2. CASE UNCHANGED <<snrs, snrFresh>>
    BY <2>1, <2>2, QuietStep DEF ProgressInv
  <2>3. CASE /\ Len(snrs) = 1 /\ ~snrFresh'
             /\ snrs' = Append(snrs, [Cached(snrs) EXCEPT !.disabled = FALSE])
    <3> DEFINE v == [old EXCEPT !.disabled = FALSE]
    <3>1. Cached(snrs) = old /\ Timed(old)
      BY <2>3, TimedWindows DEF ProgressInv, Typed
    <3>2. v \in SNRs /\ Timed(v) /\ snrs' = Append(snrs, v)
      BY <1>1, <2>3, <3>1, ObjectTypes, TimedVersions
    <3>3. Advances(old, v)
      BY <1>1 DEF Advances, SameStatus, SNRs
    <3> HIDE DEF v
    <3>4. AllTimed(snrs') /\ Server(snrs') = v
      BY <3>2, TimedWindows DEF ProgressInv, Typed
    <3>5. QED
      BY <2>1, <2>3, <3>3, <3>4 DEF Forward, ProgressInv
  <2>4. QED
    BY <1>4, <2>2, <2>3 DEF SetCRsEnabledStatus
<1>5. CASE RestartManager
  <2>1. /\ snrs' = <<old>> /\ pc' = "idle" /\ snr' = NoSNR /\ ~snrFresh'
    BY <1>5 DEF RestartManager
  <2>2. AllTimed(snrs') /\ Server(snrs') = old
    BY <2>1, TimedWindows DEF ProgressInv, Typed
  <2>3. Timed(snr') /\ PhaseFits(pc', snr')
    BY <2>1, TimedVersions DEF PhaseFits
  <2>4. QED
    BY <1>1, <2>1, <2>2, <2>3 DEF Forward, ProgressInv
<1>6. QED
  BY <1>2, <1>3, <1>4, <1>5 DEF Runtime

\* NHC and other owners of the SNR leave phase and time alone, or end its
\* lifetime.
LEMMA ForwardSNRWriters ==
    ASSUME Typed, ProgressInv, Later,
           \/ \E strategy \in Strategies, held \in BOOLEAN :
                CreateSNR(strategy, held)
           \/ DeleteSNR \/ ReleaseSNR \/ TimeOutSNR
    PROVE  Forward
<1> DEFINE old == Server(snrs)
<1>1. old \in SNRs /\ Timed(old)
  BY VersionTypes, TimedWindows DEF ProgressInv, Typed
<1>2. ASSUME NEW v \in SNRs, Timed(v), writeSNR(reap(v)), v.uid = old.uid,
             v.phase = old.phase,
             v.timeAssumedRebooted = old.timeAssumedRebooted, Exists(old)
      PROVE  Forward
  <2>1. reap(v) \in SNRs /\ Timed(reap(v))
    BY <1>2, ObjectTypes, TimedVersions
  <2>2. Advances(old, reap(v))
    BY <1>1, <1>2 DEF Advances, SameStatus, reap, NoSNR, Exists
  <2>3. QED
    BY <1>2, <2>1, <2>2, ForeignWrite
<1>3. ASSUME NEW strategy \in Strategies, NEW held \in BOOLEAN,
             CreateSNR(strategy, held)
      PROVE  Forward
  <2> DEFINE v == [NoSNR EXCEPT !.uid = born + 1, !.strategy = strategy,
                                !.held = held]
  <2>1. /\ NoSNR \in SNRs /\ strategy \in AllStrategies /\ born + 1 \in Nat
    BY ObjectTypes, StrategiesAssumption DEF Typed
  <2>2. /\ v \in SNRs /\ v.uid = born + 1 /\ v.phase = FencingStarted
        /\ v.timeAssumedRebooted = NoTime
    BY <2>1 DEF SNRs, NoSNR
  <2>3. old.uid = 0 /\ writeSNR(v)
    BY <1>3 DEF CreateSNR, Exists
  <2> HIDE DEF v
  <2>4. Timed(v) /\ Advances(old, v)
    BY <1>1, <2>2, <2>3 DEF Timed, Advances, Exists, Typed
  <2>5. QED
    BY <2>2, <2>3, <2>4, ForeignWrite
<1>4. CASE DeleteSNR
  <2> DEFINE v == [old EXCEPT !.deleted = TRUE]
  <2>1. v \in SNRs /\ Timed(v) /\ writeSNR(reap(v)) /\ Exists(old)
    BY <1>1, <1>4, ObjectTypes, TimedVersions DEF DeleteSNR
  <2>2. /\ v.uid = old.uid /\ v.phase = old.phase
        /\ v.timeAssumedRebooted = old.timeAssumedRebooted
    BY <1>1 DEF SNRs
  <2> HIDE DEF v
  <2>3. QED
    BY <1>2, <2>1, <2>2
<1>5. CASE ReleaseSNR
  <2> DEFINE v == [old EXCEPT !.held = FALSE]
  <2>1. v \in SNRs /\ Timed(v) /\ writeSNR(reap(v)) /\ Exists(old)
    BY <1>1, <1>5, ObjectTypes, TimedVersions DEF ReleaseSNR
  <2>2. /\ v.uid = old.uid /\ v.phase = old.phase
        /\ v.timeAssumedRebooted = old.timeAssumedRebooted
    BY <1>1 DEF SNRs
  <2> HIDE DEF v
  <2>3. QED
    BY <1>2, <2>1, <2>2
<1>6. CASE TimeOutSNR
  <2> DEFINE v == [old EXCEPT !.timedOut = TRUE]
  <2>1. v \in SNRs /\ Timed(v) /\ writeSNR(v)
    BY <1>1, <1>6, ObjectTypes, TimedVersions DEF TimeOutSNR
  <2>2. Advances(old, v)
    BY <1>1 DEF Advances, SameStatus, SNRs
  <2>3. QED
    BY <2>1, <2>2, ForeignWrite
<1>7. QED
  BY <1>3, <1>4, <1>5, <1>6

\* Nothing else in the environment touches the SNR.
LEMMA ForwardWorld ==
    ASSUME Typed, ProgressInv, Later,
           \/ SyncUnschedulableTaint \/ ToggleForeignTaint
           \/ ToggleExcludeLabel \/ DeleteNode
           \/ ToggleCapable \/ ToggleConfig \/ EvictPods \/ CollectPods
           \/ KubeletTerminatesPods \/ SchedulePods \/ Tick
    PROVE  Forward
<1>1. UNCHANGED <<snrs, snr, snrFresh, pc>>
  BY DEF SyncUnschedulableTaint, ToggleForeignTaint, ToggleExcludeLabel,
         DeleteNode, writeNode, ToggleCapable, ToggleConfig, EvictPods,
         CollectPods, KubeletTerminatesPods, SchedulePods, ChangeWorkload,
         Tick, objects, local
<1>2. QED
  BY <1>1, QuietStep DEF ProgressInv

\* The clock goes on by itself, and only then.
LEMMA ClockStep ==
    ASSUME Typed, [Next]_vars
    PROVE  Later /\ (UNCHANGED now \/ (now' > now /\ UNCHANGED snrs))
<1>1. CASE Tick
  BY <1>1 DEF Tick, objects, Later, Typed
<1>2. CASE ~Tick
  <2>1. UNCHANGED now
    <3>1. CASE Manager
      BY <3>1 DEF Manager, SNRAlreadyDeleted, ConfigurationNotFound,
         StoppedByNHC, TargetNodeNotFound, SkipExcludedNode, Remediate, Begin,
         NodeNotRebootCapable, AddFinalizer, AddNoExecuteTaint,
         MarkNodeAsUnschedulable, CompletePreReboot, WaitForNodeRebooted,
         DeletePods, AddOutOfServiceTaint, WaitForResourceDeletion,
         RemoveOutOfServiceTaint, WaitForDeletion, MarkNodeAsSchedulable,
         RemoveNoExecuteTaint, RemoveFinalizer, UpdateSnrStatusLastError,
         UpdateSnrStatus, EndReconcile, around, world
    <3>2. CASE Runtime \/ RestartManager
      BY <3>2 DEF Runtime, DeliverSNR, DeliverNode, TimerFires,
         SetCRsEnabledStatus, RestartManager, world
    <3>3. CASE Environment
      BY <1>2, <3>3 DEF Environment, CreateSNR, DeleteSNR, ReleaseSNR,
         TimeOutSNR, SyncUnschedulableTaint, ToggleForeignTaint,
         ToggleExcludeLabel, DeleteNode, ToggleCapable, ToggleConfig,
         EvictPods, CollectPods, KubeletTerminatesPods, SchedulePods,
         ChangeWorkload, world
    <3>4. QED
      BY <3>1, <3>2, <3>3 DEF Next, vars, world
  <2>2. QED
    BY <2>1 DEF Later, Typed
<1>3. QED
  BY <1>1, <1>2

\* Every step keeps the invariant and goes forward.
LEMMA ForwardNext == Typed /\ ProgressInv /\ [Next]_vars => Forward
<1> SUFFICES ASSUME Typed, ProgressInv, [Next]_vars PROVE Forward
  OBVIOUS
<1>0. Later
  BY ClockStep
<1>1. CASE Manager
  BY <1>0, <1>1, ForwardBegin, ForwardPrepare, ForwardFence, ForwardRecover,
     ForwardEnd DEF Manager
<1>2. CASE Runtime \/ RestartManager
  BY <1>0, <1>2, ForwardRuntime
<1>3. CASE Environment
  BY <1>0, <1>3, ForwardSNRWriters, ForwardWorld DEF Environment
<1>4. CASE UNCHANGED vars
  BY <1>0, <1>4, QuietStep DEF vars, objects, local, ProgressInv
<1>5. QED
  BY <1>1, <1>2, <1>3, <1>4 DEF Next

\* The invariant holds in every reachable state.
LEMMA ProgressInvariant == Spec => [](Typed /\ ProgressInv)
<1>1. Init => ProgressInv
  <2> SUFFICES ASSUME Init PROVE ProgressInv
    OBVIOUS
  <2>1. snrs = <<NoSNR>> /\ snr = NoSNR /\ pc = "idle" /\ snrFresh = FALSE
    BY DEF Init
  <2>2. AllTimed(snrs) /\ Timed(snr)
    BY <2>1, TimedVersions DEF AllTimed
  <2>3. QED
    BY <2>1, <2>2 DEF ProgressInv, PhaseFits
<1>2. Typed /\ ProgressInv /\ [Next]_vars => ProgressInv'
  BY ForwardNext DEF Forward
<1>3. QED
  BY <1>1, <1>2, TypedInit, TypedNext, PTL DEF Spec

----------------------------------------------------------------------------
\* wasNodeRebooted and isResourceDeletionExpired never meet a status without
\* TimeAssumedRebooted: the manager does not panic there, whatever conflicts,
\* lost status updates and restarts came before.
THEOREM TimeIsSet == Spec => []TimeAssumedRebootedIsSet
<1>1. ProgressInv => TimeAssumedRebootedIsSet
  BY DEF ProgressInv, Timed, TimeAssumedRebootedIsSet
<1>2. QED
  BY <1>1, ProgressInvariant, PTL

\* No stored phase or TimeAssumedRebooted is ever taken back, although each
\* reconcile writes the whole status from a copy it read before.
THEOREM StatusGoesForward == Spec => PhasesNeverGoBack
<1>1. Typed /\ ProgressInv /\ [Next]_vars => [NeverBack]_vars
  <2> SUFFICES ASSUME Typed, ProgressInv, [Next]_vars PROVE NeverBack
    OBVIOUS
  <2>1. Advances(Server(snrs), Server(snrs'))
    BY ForwardNext DEF Forward
  <2>2. Server(snrs) \in SNRs /\ Timed(Server(snrs))
    BY VersionTypes, TimedWindows DEF ProgressInv, Typed
  <2>3. Server(snrs).phase \in Nat
    BY <2>2 DEF SNRs, Phases
  <2>4. QED
    BY <2>1, <2>2, <2>3
       DEF Advances, SameStatus, NextPhase, NeverBack, Timed, Exists
<1>2. QED
  BY <1>1, ProgressInvariant, PTL DEF Spec, PhasesNeverGoBack

\* The status that agents and NHC read from the server is a Schedule: every
\* step of the manager, the environment or the clock is one of its steps or
\* leaves it alone.
THEOREM StatusIsSchedule == Spec => ScheduleKept
<1>1. Init => StatusSchedule!Init
  BY DEF Init, StatusSchedule!Init, Server, NoSNR
<1>2. Typed /\ ProgressInv /\ [Next]_vars
        => [StatusSchedule!Next]_(StatusSchedule!vars)
  <2> SUFFICES ASSUME Typed, ProgressInv, [Next]_vars
               PROVE  [StatusSchedule!Next]_(StatusSchedule!vars)
    OBVIOUS
  <2> DEFINE old == Server(snrs)
             new == Server(snrs')
  <2>1. Advances(old, new) /\ Typed'
    BY ForwardNext, TypedNext DEF Forward
  <2>2. old \in SNRs /\ new \in SNRs /\ now \in Nat
    <3>1. (Server(snrs) \in SNRs)'
      BY <2>1, VersionTypes, PTL
    <3>2. QED
      BY <3>1, VersionTypes DEF Typed
  <2>3. CASE now' > now /\ UNCHANGED snrs
    BY <2>3, ClockStep DEF StatusSchedule!Next, StatusSchedule!Tick, Later
  <2>4. CASE UNCHANGED now
    <3>1. CASE SameStatus(old, new)
      BY <2>4, <3>1 DEF SameStatus, StatusSchedule!vars
    <3>2. CASE Exists(old) /\ NextPhase(old, new)
      BY <2>2, <2>4, <3>2
         DEF NextPhase, Exists, SNRs, Phases, StatusSchedule!Next,
             StatusSchedule!CompletePreReboot, StatusSchedule!AssumeRebooted,
             StatusSchedule!CompleteFencing
    <3>3. CASE /\ ~Exists(old) /\ Exists(new) /\ new.phase = old.phase
               /\ new.timeAssumedRebooted = old.timeAssumedRebooted
      BY <2>2, <2>4, <3>3
         DEF Exists, SNRs, StatusSchedule!Next, StatusSchedule!Create
    <3>4. CASE /\ ~Exists(new) /\ new.phase = FencingStarted
               /\ new.timeAssumedRebooted = NoTime
      BY <2>4, <3>4 DEF Exists, StatusSchedule!Next, StatusSchedule!Remove
    <3>5. QED
      BY <2>1, <3>1, <3>2, <3>3, <3>4 DEF Advances
  <2>5. QED
    BY <2>3, <2>4, ClockStep
<1>3. QED
  BY <1>1, <1>2, ProgressInvariant, PTL
     DEF Spec, ScheduleKept, StatusSchedule!Spec

============================================================================
