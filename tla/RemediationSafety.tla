------------------------- MODULE RemediationSafety --------------------------
(***************************************************************************)
(* Proofs that SafetyInv is an inductive invariant of Remediation, and of  *)
(* the safety properties that follow from it.                              *)
(*                                                                         *)
(* What is known of the SNRs (SNRInv) is inductive by itself; what is      *)
(* known of the Nodes (NodeInv) needs it.                                  *)
(***************************************************************************)
EXTENDS RemediationProofs

USE DEF FencingStarted, PreRebootCompleted, RebootCompleted, FencingCompleted,
        NoTime

----------------------------------------------------------------------------
\* Windows of SNRs.

\* SNRInv by windows: the versions of a window fit together, ...
WindowOK(w, t) ==
    /\ \A i \in 1 .. Len(w) : SNRShape(w[i], t)
    /\ \A i, j \in 1 .. Len(w) : i <= j => Follows(w[i], w[j])
    /\ \A i \in 1 .. Len(w) : Guarding(w[i]) => Server(w).finalizer

\* ... and a copy was read from it.
CopyOK(s, w) ==
    /\ \A i \in 1 .. Len(w) : Follows(s, w[i])
    /\ Guarding(s) => Server(w).finalizer

\* The same said in parts.
LEMMA SNRInvParts ==
    SNRInv <=> /\ WindowOK(snrs, now) /\ SNRShape(snr, now)
               /\ pc \in Handlers => CopyOK(snr, snrs)
               /\ SNRFreshness /\ LocalSNR
BY DEF SNRInv, WindowOK, CopyOK, Shapes, SNROrder, Guards

\* A version follows itself.
LEMMA FollowsItself == \A s : Follows(s, s)
BY DEF Follows

\* The cached and the server's version.
LEMMA VersionsOK ==
    ASSUME NEW t, NEW w \in Windows(SNRs), WindowOK(w, t)
    PROVE  /\ Len(w) \in Nat /\ Len(w) >= 1 /\ Server(w) = w[Len(w)]
           /\ Cached(w) = w[1] /\ (Len(w) = 1 => Cached(w) = Server(w))
           /\ \A i \in 1 .. Len(w) : w[i] \in SNRs
           /\ Server(w) \in SNRs /\ Cached(w) \in SNRs
           /\ SNRShape(Server(w), t) /\ SNRShape(Cached(w), t)
           /\ Follows(Cached(w), Server(w))
           /\ Guarding(Cached(w)) => Server(w).finalizer
BY BoundsAssumption DEF Windows, WindowOK, Server, Cached

\* A write of a version that may follow all others.
LEMMA AppendOK ==
    ASSUME NEW t, NEW w \in Windows(SNRs), WindowOK(w, t),
           NEW v \in SNRs, SNRShape(v, t),
           \A i \in 1 .. Len(w) : /\ Follows(w[i], v)
                                  /\ Guarding(w[i]) => v.finalizer
    PROVE  WindowOK(Append(w, v), t) /\ Server(Append(w, v)) = v
<1> DEFINE x == Append(w, v)
           n == Len(w)
<1>1. w \in Seq(SNRs) /\ n \in Nat /\ n >= 1
  BY BoundsAssumption DEF Windows
<1>2. /\ Len(x) = n + 1 /\ x[n + 1] = v /\ Server(x) = v
      /\ \A i \in 1 .. n : x[i] = w[i]
  BY <1>1, AppendFacts
<1> HIDE DEF x, n
<1>3. \A i \in 1 .. Len(x) : i \in 1 .. n \/ i = n + 1
  BY <1>1, <1>2
<1>4. ASSUME NEW i \in 1 .. Len(x), NEW j \in 1 .. Len(x), i <= j
      PROVE  Follows(x[i], x[j])
  <2>1. CASE j \in 1 .. n
    <3>1. i \in 1 .. n
      BY <1>1, <1>4, <2>1
    <3>2. QED
      BY <1>2, <1>4, <2>1, <3>1 DEF WindowOK, n
  <2>2. CASE j = n + 1
    BY <1>2, <1>3, <2>2, FollowsItself DEF n
  <2>3. QED
    BY <1>3, <2>1, <2>2
<1>5. ASSUME NEW i \in 1 .. Len(x)
      PROVE  SNRShape(x[i], t) /\ (Guarding(x[i]) => v.finalizer)
  BY <1>2, <1>3 DEF WindowOK, Guarding, n
<1>6. WindowOK(x, t)
  BY <1>2, <1>4, <1>5 DEF WindowOK
<1>7. QED
  BY <1>2, <1>6 DEF x

\* A delivery, and a restart.
LEMMA DeliveryOK ==
    ASSUME NEW t, NEW w \in Windows(SNRs), WindowOK(w, t)
    PROVE  /\ Len(w) > 1 => /\ WindowOK(Tail(w), t) /\ Server(Tail(w)) = Server(w)
                            /\ Len(Tail(w)) = Len(w) - 1
           /\ WindowOK(<<Server(w)>>, t) /\ Server(<<Server(w)>>) = Server(w)
           /\ \A s : CopyOK(s, w) /\ Len(w) > 1 => CopyOK(s, Tail(w))
<1>1. w \in Seq(SNRs) /\ Len(w) \in Nat /\ Len(w) >= 1
  BY BoundsAssumption DEF Windows
<1>2. ASSUME Len(w) > 1
      PROVE  /\ WindowOK(Tail(w), t) /\ Server(Tail(w)) = Server(w)
             /\ Len(Tail(w)) = Len(w) - 1
             /\ \A s : CopyOK(s, w) => CopyOK(s, Tail(w))
  <2> DEFINE x == Tail(w)
  <2>1. /\ Len(x) = Len(w) - 1 /\ Server(x) = Server(w)
        /\ \A i \in 1 .. Len(x) : x[i] = w[i + 1] /\ i + 1 \in 1 .. Len(w)
    BY <1>1, <1>2, TailFacts
  <2> HIDE DEF x
  <2>2. \A i, j \in 1 .. Len(x) : i <= j => i + 1 <= j + 1
    BY <1>1, <2>1
  <2>3. WindowOK(x, t)
    BY <2>1, <2>2 DEF WindowOK
  <2>4. \A s : CopyOK(s, w) => CopyOK(s, x)
    BY <2>1 DEF CopyOK
  <2>5. QED
    BY <2>1, <2>3, <2>4 DEF x
<1>3. WindowOK(<<Server(w)>>, t) /\ Server(<<Server(w)>>) = Server(w)
  <2> DEFINE x == <<Server(w)>>
  <2>1. Len(x) = 1 /\ x[1] = Server(w) /\ Server(x) = Server(w)
    BY <1>1, WindowFacts
  <2>2. SNRShape(Server(w), t)
    BY VersionsOK
  <2> HIDE DEF x
  <2>3. WindowOK(x, t)
    BY <2>1, <2>2, FollowsItself DEF WindowOK, Guarding
  <2>4. QED
    BY <2>1, <2>3 DEF x
<1>4. QED
  BY <1>2, <1>3

\* Time does no harm.
LEMMA LaterOK ==
    ASSUME NEW t \in Nat, NEW u \in Nat, t <= u
    PROVE  /\ \A s \in SNRs : SNRShape(s, t) => SNRShape(s, u)
           /\ \A w \in Windows(SNRs) : WindowOK(w, t) => WindowOK(w, u)
<1>1. ASSUME NEW s \in SNRs, SNRShape(s, t) PROVE SNRShape(s, u)
  BY <1>1 DEF SNRShape, SNRs
<1>2. ASSUME NEW w \in Windows(SNRs), WindowOK(w, t) PROVE WindowOK(w, u)
  BY <1>1, <1>2, VersionsOK DEF WindowOK
<1>3. QED
  BY <1>1, <1>2

\* Somebody else's write: the status and the finalizer stay, or the SNR is gone
\* or created.
Successor(s, v) ==
    \/ /\ v.phase = s.phase /\ v.timeAssumedRebooted = s.timeAssumedRebooted
       /\ s.phase # FencingStarted => v.uid = s.uid
       /\ v.finalizer = s.finalizer
    \/ /\ v.phase = FencingStarted /\ v.timeAssumedRebooted = NoTime
       /\ ~s.finalizer /\ ~v.finalizer

\* What follows on the server's SNR follows on what came before.
LEMMA FollowsSuccessor ==
    ASSUME NEW t, NEW a \in SNRs, NEW s \in SNRs, NEW v \in SNRs,
           SNRShape(a, t), SNRShape(s, t), SNRShape(v, t),
           Follows(a, s), Guarding(a) => s.finalizer, Successor(s, v)
    PROVE  Follows(a, v) /\ (Guarding(a) => v.finalizer)
<1>0. a.phase \in 0 .. 3 /\ s.phase \in 0 .. 3 /\ v.phase \in 0 .. 3
  BY DEF SNRs, Phases
<1>1. CASE /\ v.phase = s.phase
           /\ v.timeAssumedRebooted = s.timeAssumedRebooted
           /\ s.phase # FencingStarted => v.uid = s.uid
           /\ v.finalizer = s.finalizer
  BY <1>0, <1>1 DEF Follows
<1>2. CASE /\ v.phase = FencingStarted /\ v.timeAssumedRebooted = NoTime
           /\ ~s.finalizer /\ ~v.finalizer
  BY <1>0, <1>2 DEF Follows, Guarding, SNRShape
<1>3. QED
  BY <1>1, <1>2 DEF Successor

----------------------------------------------------------------------------
\* What is known of the SNRs, by the kinds of steps.

\* A step between typed states.
SNRStep == Typed /\ SNRInv /\ Typed' /\ Later

\* The typed state in the terms of the lemmas above.
LEMMA SNRFacts ==
    ASSUME Typed, SNRInv
    PROVE  /\ snrs \in Windows(SNRs) /\ snr \in SNRs
           /\ now \in Nat /\ WindowOK(snrs, now) /\ SNRShape(snr, now)
           /\ Server(snrs) \in SNRs /\ SNRShape(Server(snrs), now)
           /\ Cached(snrs) \in SNRs /\ SNRShape(Cached(snrs), now)
           /\ Len(snrs) \in Nat /\ Len(snrs) >= 1
           /\ Len(snrs) = 1 => Cached(snrs) = Server(snrs)
           /\ pc \in Handlers => CopyOK(snr, snrs)
BY SNRInvParts, VersionsOK DEF Typed

\* The invariant after a step, from its parts with the old clock.
LEMMA SNRAfter ==
    ASSUME SNRStep, WindowOK(snrs', now), SNRShape(snr', now),
           pc' \in Handlers => CopyOK(snr', snrs'), SNRFreshness', LocalSNR'
    PROVE  SNRInv'
<1>1. snrs' \in Windows(SNRs) /\ snr' \in SNRs /\ now \in Nat /\ now' \in Nat
  BY DEF SNRStep, Typed
<1>2. WindowOK(snrs', now') /\ SNRShape(snr', now')
  BY <1>1, LaterOK DEF SNRStep, Later
<1>3. QED
  BY <1>2 DEF SNRInv, WindowOK, CopyOK, Shapes, SNROrder, Guards

\* The reconciler goes on with its copy, or nothing happens to the SNRs.
LEMMA SNRStays ==
    ASSUME SNRStep, UNCHANGED <<snrs, snr>>,
           snrFresh' => snrFresh, pc' \in Handlers => pc \in Handlers,
           pc' = "idle" => ~snrFresh', LocalSNR'
    PROVE  SNRInv'
<1>1. SNRFreshness'
  BY DEF SNRStep, SNRInv, SNRFreshness
<1>2. QED
  BY <1>1, SNRFacts, SNRAfter DEF SNRStep

\* Somebody else writes the SNR.
LEMMA SNRForeign ==
    ASSUME SNRStep, NEW v \in SNRs, snrs' = Append(snrs, v),
           SNRShape(v, now), Successor(Server(snrs), v),
           ~snrFresh', UNCHANGED <<pc, snr>>
    PROVE  SNRInv'
<1>1. ASSUME NEW a \in SNRs, SNRShape(a, now), Follows(a, Server(snrs)),
             Guarding(a) => Server(snrs).finalizer
      PROVE  Follows(a, v) /\ (Guarding(a) => v.finalizer)
  BY <1>1, SNRFacts, FollowsSuccessor DEF SNRStep
<1>2. ASSUME NEW i \in 1 .. Len(snrs)
      PROVE  Follows(snrs[i], v) /\ (Guarding(snrs[i]) => v.finalizer)
  <2>1. /\ snrs[i] \in SNRs /\ SNRShape(snrs[i], now)
        /\ Follows(snrs[i], Server(snrs))
        /\ Guarding(snrs[i]) => Server(snrs).finalizer
    BY SNRFacts, VersionsOK DEF WindowOK, SNRStep
  <2>2. QED
    BY <1>1, <2>1
<1>3. WindowOK(snrs', now) /\ Server(snrs') = v
  BY <1>2, SNRFacts, AppendOK DEF SNRStep
<1>4. pc \in Handlers => CopyOK(snr, snrs')
  <2> SUFFICES ASSUME pc \in Handlers PROVE CopyOK(snr, snrs')
    OBVIOUS
  <2>1. CopyOK(snr, snrs) /\ Follows(snr, Server(snrs))
    BY SNRFacts, VersionsOK DEF CopyOK, SNRStep
  <2>2. Follows(snr, v) /\ (Guarding(snr) => v.finalizer)
    BY <1>1, <2>1, SNRFacts DEF CopyOK, SNRStep
  <2>3. \A i \in 1 .. Len(snrs') :
          snrs'[i] = v \/ (i \in 1 .. Len(snrs) /\ snrs'[i] = snrs[i])
    BY SNRFacts, AppendFacts DEF Windows, SNRStep
  <2>4. QED
    BY <1>3, <2>1, <2>2, <2>3 DEF CopyOK
<1>5. SNRFreshness' /\ LocalSNR'
  BY DEF SNRStep, SNRInv, SNRFreshness, LocalSNR
<1>6. QED
  BY <1>3, <1>4, <1>5, SNRFacts, SNRAfter DEF SNRStep

\* A handler ends with the next phase on its copy.
LEMMA SNRAdvances ==
    ASSUME SNRStep, UNCHANGED <<snrs, snrFresh>>, pc \in Handlers,
           pc' = "lastError", SNRShape(snr', now), snr.finalizer,
           snr'.phase = snr.phase + 1, snr'.uid = snr.uid,
           snr.phase # FencingStarted
             => snr'.timeAssumedRebooted = snr.timeAssumedRebooted,
           snr'.strategy = snr.strategy, snr'.deleted = snr.deleted,
           snr'.finalizer = snr.finalizer
    PROVE  SNRInv'
<1>1. pc' \notin Handlers /\ pc' # "idle"
  BY DEF Handlers
<1>2. SNRFreshness'
  BY <1>1 DEF SNRStep, SNRInv, SNRFreshness
<1>3. LocalSNR'
  BY <1>1 DEF LocalSNR
<1>4. QED
  BY <1>1, <1>2, <1>3, SNRFacts, SNRAfter DEF SNRStep

\* The reconciler writes the SNR, from the server's version if more than
\* metadata changes.
LEMMA SNRWritten ==
    ASSUME SNRStep, NEW v \in SNRs, SNRShape(v, now),
           snrs' \in {Append(snrs, v), Store(snrs, v)},
           \/ Successor(Server(snrs), v)
           \/ /\ Len(snrs) = 1 /\ Follows(Server(snrs), v)
              /\ Guarding(Server(snrs)) => v.finalizer
    PROVE  WindowOK(snrs', now) /\ Server(snrs') = v
<1>0. SNRShape(Server(snrs), now) /\ Server(snrs) \in SNRs
  BY SNRFacts DEF SNRStep
<1>1. ASSUME NEW i \in 1 .. Len(snrs)
      PROVE  Follows(snrs[i], v) /\ (Guarding(snrs[i]) => v.finalizer)
  <2>1. /\ snrs[i] \in SNRs /\ SNRShape(snrs[i], now)
        /\ Follows(snrs[i], Server(snrs))
        /\ Guarding(snrs[i]) => Server(snrs).finalizer
        /\ Len(snrs) = 1 => snrs[i] = Server(snrs)
    BY SNRFacts, VersionsOK DEF WindowOK, SNRStep, Server
  <2>2. QED
    BY <1>0, <2>1, FollowsSuccessor
<1>2. WindowOK(Append(snrs, v), now) /\ Server(Append(snrs, v)) = v
  BY <1>1, SNRFacts, AppendOK DEF SNRStep
<1>3. QED
  BY <1>2, SNRFacts DEF Store, SNRStep

----------------------------------------------------------------------------
\* What is known of the SNRs, action by action.

\* A copy that a reconcile works on differs from the cached SNR in conditions.
CopyOf(c, s) ==
    /\ s.uid = c.uid /\ s.strategy = c.strategy /\ s.deleted = c.deleted
    /\ s.finalizer = c.finalizer /\ s.phase = c.phase
    /\ s.timeAssumedRebooted = c.timeAssumedRebooted
    /\ s.held = c.held
    /\ s.condition = "finished" => c.condition = "finished"

LEMMA CopyShape ==
    ASSUME NEW t, NEW c \in SNRs, NEW s \in SNRs, SNRShape(c, t), CopyOf(c, s)
    PROVE  /\ SNRShape(s, t) /\ (Guarding(s) <=> Guarding(c))
           /\ \A v : Follows(c, v) <=> Follows(s, v)
<1>1. SNRShape(s, t)
  BY DEF SNRShape, CopyOf, Exists
<1>2. Guarding(s) <=> Guarding(c)
  BY DEF Guarding, CopyOf
<1>3. \A v : Follows(c, v) <=> Follows(s, v)
  BY DEF Follows, CopyOf
<1>4. QED
  BY <1>1, <1>2, <1>3

\* A reconcile starts from the cached SNR.
LEMMA SNRBegin ==
    ASSUME SNRStep,
           SNRAlreadyDeleted \/ ConfigurationNotFound \/ StoppedByNHC
           \/ TargetNodeNotFound \/ SkipExcludedNode \/ Remediate
    PROVE  SNRInv'
<1> DEFINE c == Cached(snrs)
<1>1. /\ c \in SNRs /\ SNRShape(c, now) /\ CopyOK(c, snrs)
      /\ Len(snrs) = 1 => c = Server(snrs)
  <2>1. /\ c \in SNRs /\ SNRShape(c, now) /\ WindowOK(snrs, now)
        /\ Len(snrs) = 1 => c = Server(snrs)
        /\ snrs \in Windows(SNRs)
    BY SNRFacts DEF SNRStep
  <2>2. c = snrs[1] /\ Len(snrs) \in Nat /\ Len(snrs) >= 1
    BY <2>1, VersionsOK
  <2>3. CopyOK(c, snrs)
    BY <2>1, <2>2 DEF WindowOK, CopyOK
  <2>4. QED
    BY <2>1, <2>3
<1>2. ASSUME NEW s \in SNRs, NEW point, NEW err, Begin(s, point, err),
             CopyOf(c, s), Exists(c), point \in {"status", "lastError", "remediate"}
      PROVE  SNRInv'
  <2>1. /\ UNCHANGED snrs /\ snr' = s /\ snrFresh' = (Len(snrs) = 1)
        /\ pc' = point
    BY <1>2 DEF Begin, objects
  <2>2. SNRShape(s, now) /\ CopyOK(s, snrs)
    BY <1>1, <1>2, CopyShape DEF CopyOK
  <2>3. SNRFreshness'
    BY <1>1, <1>2, <2>1 DEF SNRFreshness, CopyOf, Exists
  <2>4. LocalSNR'
    BY <1>2, <2>1 DEF LocalSNR, Handlers, CopyOf, Exists
  <2>5. QED
    BY <2>1, <2>2, <2>3, <2>4, SNRAfter, SNRFacts DEF SNRStep
<1>3. CASE SNRAlreadyDeleted
  BY <1>3, SNRStays
     DEF SNRAlreadyDeleted, objects, local, SNRStep, SNRInv, SNRFreshness,
         LocalSNR
<1>4. CASE ConfigurationNotFound
  <2> DEFINE s == [c EXCEPT !.disabled = TRUE]
  <2>1. s \in SNRs /\ CopyOf(c, s)
    <3>1. s \in SNRs
      BY <1>1, ObjectTypes
    <3>2. CopyOf(c, s)
      BY <1>1 DEF SNRs, CopyOf
    <3>3. QED
      BY <3>1, <3>2
  <2>2. Begin(s, "status", FALSE) /\ Exists(c)
    BY <1>4 DEF ConfigurationNotFound
  <2> HIDE DEF c, s
  <2>3. QED
    BY <1>2, <2>1, <2>2
<1>5. CASE StoppedByNHC \/ TargetNodeNotFound
  <2> DEFINE s == [c EXCEPT !.condition = "failed"]
  <2>1. s \in SNRs /\ CopyOf(c, s)
    <3>1. s \in SNRs
      BY <1>1, ObjectTypes
    <3>2. CopyOf(c, s)
      BY <1>1 DEF SNRs, CopyOf
    <3>3. QED
      BY <3>1, <3>2
  <2>2. /\ Begin(s, "status", FALSE) \/ Begin(s, "lastError", TRUE)
        /\ Exists(c)
    BY <1>5 DEF StoppedByNHC, TargetNodeNotFound, isRunning
  <2> HIDE DEF c, s
  <2>3. QED
    BY <1>2, <2>1, <2>2
<1>6. CASE SkipExcludedNode \/ Remediate
  <2> DEFINE s == startCondition(c)
  <2>1. s \in SNRs
    BY <1>1, ObjectTypes
  <2>2. CopyOf(c, s)
    BY <1>1 DEF SNRs, CopyOf, startCondition
  <2>3. /\ Begin(s, "status", FALSE) \/ Begin(s, "remediate", FALSE)
        /\ Exists(c)
    BY <1>6 DEF SkipExcludedNode, Remediate, isRunning
  <2> HIDE DEF c, s
  <2>4. QED
    BY <1>2, <2>1, <2>2, <2>3
<1>7. QED
  BY <1>3, <1>4, <1>5, <1>6

\* Leaving the handlers, or moving inside them, without a change of the SNR.
LEMMA SNRReturn ==
    ASSUME SNRStep, UNCHANGED <<snrs, snr, snrFresh>>, pc' = "lastError"
    PROVE  SNRInv'
BY SNRStays DEF LocalSNR, Handlers

LEMMA SNRGoesOn ==
    ASSUME SNRStep, UNCHANGED <<snrs, snr, snrFresh>>, pc \in Handlers,
           \/ pc' = "cordon" /\ snr.phase = FencingStarted /\ snr.finalizer
           \/ /\ pc' = "drain" /\ snr.phase = RebootCompleted
              /\ snr.strategy = "OutOfServiceTaint"
           \/ /\ pc' \in {"untaint", "unfinalize"}
              /\ snr.phase = FencingCompleted /\ snr.deleted
    PROVE  SNRInv'
BY SNRStays DEF LocalSNR, Handlers, SNRStep, SNRInv

\* The finalizer is written from the server's version.
LEMMA SNRFinalizer ==
    ASSUME SNRStep, NEW f \in BOOLEAN, updateFinalizer(f), pc \in Handlers,
           pc' = "lastError",
           IF f THEN ~snr.deleted
                ELSE snr.phase = FencingCompleted /\ snr.deleted
    PROVE  SNRInv'
<1> DEFINE s == Server(snrs)
           answer == [s EXCEPT !.finalizer = f]
<1>1. /\ s \in SNRs /\ SNRShape(s, now) /\ Exists(s) /\ Len(snrs) = 1
      /\ snr.deleted = s.deleted /\ snr.phase = s.phase
  BY SNRFacts DEF updateFinalizer, SNRStep, SNRInv, SNRFreshness
<1>2. answer \in SNRs /\ reap(answer) \in SNRs
  BY <1>1, ObjectTypes
<1>3. /\ answer.uid = s.uid /\ answer.phase = s.phase
      /\ answer.timeAssumedRebooted = s.timeAssumedRebooted
      /\ answer.finalizer = f /\ answer.deleted = s.deleted
      /\ answer.condition = s.condition /\ answer.strategy = s.strategy
      /\ answer.held = s.held
  BY <1>1 DEF SNRs
<1>4. /\ snrs' = Store(snrs, reap(answer)) /\ snr' = answer
      /\ snrFresh' = Exists(reap(answer))
  BY DEF updateFinalizer
<1> HIDE DEF s, answer
<1>5. SNRShape(answer, now)
  BY <1>1, <1>3 DEF SNRShape, Exists
<1>6. SNRShape(NoSNR, now) /\ ~Exists(NoSNR)
  BY DEF SNRShape, NoSNR, Exists
<1>7. SNRShape(reap(answer), now)
  BY <1>5, <1>6 DEF reap
<1>8. Follows(s, reap(answer)) /\ (Guarding(s) => reap(answer).finalizer)
  BY <1>1, <1>3 DEF Follows, reap, NoSNR, Guarding, SNRShape
<1>9. WindowOK(snrs', now) /\ Server(snrs') = reap(answer)
  BY <1>1, <1>2, <1>4, <1>7, <1>8, SNRWritten DEF s
<1>10. SNRFreshness'
  BY <1>1, <1>3, <1>4, <1>6, <1>9 DEF SNRFreshness, reap, Handlers, Exists
<1>11. QED
  BY <1>4, <1>5, <1>9, <1>10, SNRAfter DEF LocalSNR, Handlers

\* Fencing-Started.
LEMMA SNRPrepare ==
    ASSUME SNRStep,
           NodeNotRebootCapable \/ AddFinalizer \/ AddNoExecuteTaint
           \/ MarkNodeAsUnschedulable \/ CompletePreReboot
    PROVE  SNRInv'
<1>1. CASE NodeNotRebootCapable
  BY <1>1, SNRReturn DEF NodeNotRebootCapable, objects, Return
<1>2. CASE AddFinalizer
  <2>1. CASE updateFinalizer(TRUE) /\ Return(FALSE, TRUE) /\ ~snr.deleted
    BY <1>2, <2>1, SNRFinalizer
       DEF AddFinalizer, preparing, Handlers, Return
  <2>2. CASE ~(updateFinalizer(TRUE) /\ Return(FALSE, TRUE) /\ ~snr.deleted)
    BY <1>2, <2>2, SNRReturn
       DEF AddFinalizer, snrConflict, apiError, objects, Return
  <2>3. QED
    BY <2>1, <2>2
<1>3. CASE AddNoExecuteTaint
  <2>1. /\ UNCHANGED <<snrs, snr, snrFresh>> /\ snr.phase = FencingStarted
        /\ pc = "remediate" /\ snr.finalizer
    BY <1>3 DEF AddNoExecuteTaint, preparing
  <2>2. CASE pc' = "cordon"
    BY <2>1, <2>2, SNRGoesOn DEF Handlers
  <2>3. CASE pc' # "cordon"
    BY <1>3, <2>1, <2>3, SNRReturn
       DEF AddNoExecuteTaint, Skip, GoOn, Return, apiError
  <2>4. QED
    BY <2>2, <2>3
<1>4. CASE MarkNodeAsUnschedulable
  BY <1>4, SNRReturn DEF MarkNodeAsUnschedulable, Return, apiError
<1>5. CASE CompletePreReboot
  <2>1. /\ UNCHANGED <<snrs, snrFresh>> /\ pc = "cordon"
        /\ snr \in SNRs /\ SNRShape(snr, now) /\ now \in Nat
        /\ snr.phase = FencingStarted /\ snr.finalizer /\ Exists(snr)
    BY <1>5, SNRFacts
       DEF CompletePreReboot, objects, SNRStep, SNRInv, LocalSNR, Handlers
  <2>2. CASE apiError
    BY <2>2, SNRReturn DEF apiError, objects, Return
  <2>3. CASE ~apiError
    <3>1. /\ snr' = [setTimeAssumedRebooted(snr) EXCEPT
                        !.phase = PreRebootCompleted]
          /\ pc' = "lastError"
      BY <1>5, <2>3 DEF CompletePreReboot, Return
    <3>2. snr.timeAssumedRebooted = NoTime
      BY <2>1 DEF SNRShape
    <3>3. /\ snr'.phase = PreRebootCompleted
          /\ snr'.timeAssumedRebooted = now + RebootDuration
          /\ snr'.uid = snr.uid /\ snr'.strategy = snr.strategy
          /\ snr'.deleted = snr.deleted /\ snr'.finalizer = snr.finalizer
          /\ snr'.condition = snr.condition
      BY <2>1, <3>1, <3>2 DEF setTimeAssumedRebooted, SNRs
    <3>4. now + RebootDuration # NoTime
      BY <2>1, DurationAssumption
    <3>5. SNRShape(snr', now)
      BY <2>1, <3>3, <3>4 DEF SNRShape, Exists
    <3>6. QED
      BY <2>1, <3>1, <3>3, <3>5, SNRAdvances DEF Handlers
  <2>4. QED
    BY <2>2, <2>3
<1>6. QED
  BY <1>1, <1>2, <1>3, <1>4, <1>5

\* finished() leaves a well formed copy that is one phase further.
LEMMA SNRFinished ==
    ASSUME SNRStep, UNCHANGED <<snrs, snrFresh>>, pc \in Handlers,
           snr.phase = RebootCompleted, snr' = finished(snr), pc' = "lastError"
    PROVE  SNRInv'
<1>1. snr \in SNRs /\ SNRShape(snr, now) /\ Exists(snr)
  BY SNRFacts DEF SNRStep, SNRInv, LocalSNR
<1>2. /\ snr'.phase = FencingCompleted /\ snr'.condition = "finished"
      /\ snr'.timeAssumedRebooted = snr.timeAssumedRebooted
      /\ snr'.uid = snr.uid /\ snr'.strategy = snr.strategy
      /\ snr'.deleted = snr.deleted /\ snr'.finalizer = snr.finalizer
  BY <1>1 DEF finished, SNRs
<1>3. SNRShape(snr', now) /\ snr.finalizer
  BY <1>1, <1>2 DEF SNRShape, Exists
<1>4. QED
  BY <1>2, <1>3, SNRAdvances

\* Pre-Reboot-Completed and Reboot-Completed.
LEMMA SNRFence ==
    ASSUME SNRStep,
           WaitForNodeRebooted \/ DeletePods \/ AddOutOfServiceTaint
           \/ WaitForResourceDeletion \/ RemoveOutOfServiceTaint
    PROVE  SNRInv'
<1>1. CASE WaitForNodeRebooted
  <2>1. /\ UNCHANGED <<snrs, snrFresh>> /\ pc = "remediate"
        /\ snr \in SNRs /\ SNRShape(snr, now) /\ now \in Nat
        /\ snr.phase = PreRebootCompleted /\ Exists(snr) /\ pc' = "lastError"
    BY <1>1, SNRFacts DEF WaitForNodeRebooted, objects, SNRStep, SNRInv,
       LocalSNR, Handlers, Return
  <2>2. CASE wasNodeRebooted(snr)
    <3>1. snr' = [snr EXCEPT !.phase = RebootCompleted]
      BY <1>1, <2>2 DEF WaitForNodeRebooted
    <3>2. /\ snr'.phase = RebootCompleted
          /\ snr'.timeAssumedRebooted = snr.timeAssumedRebooted
          /\ snr'.uid = snr.uid /\ snr'.strategy = snr.strategy
          /\ snr'.deleted = snr.deleted /\ snr'.finalizer = snr.finalizer
          /\ snr'.condition = snr.condition
      BY <2>1, <3>1 DEF SNRs
    <3>3. snr.timeAssumedRebooted <= now
      BY <2>1, <2>2 DEF wasNodeRebooted, SNRs
    <3>4. SNRShape(snr', now) /\ snr.finalizer
      BY <2>1, <3>2, <3>3 DEF SNRShape, Exists
    <3>5. QED
      BY <2>1, <3>2, <3>4, SNRAdvances DEF Handlers
  <2>3. CASE ~wasNodeRebooted(snr)
    BY <1>1, <2>1, <2>3, SNRReturn DEF WaitForNodeRebooted
  <2>4. QED
    BY <2>2, <2>3
<1>2. CASE DeletePods
  <2>1. CASE apiError
    BY <2>1, SNRReturn DEF apiError, objects, Return
  <2>2. CASE ~apiError
    BY <1>2, <2>2, SNRFinished DEF DeletePods, removing, objects, Return,
       Handlers
  <2>3. QED
    BY <2>1, <2>2
<1>3. CASE AddOutOfServiceTaint
  <2>1. /\ UNCHANGED <<snrs, snr, snrFresh>> /\ snr.phase = RebootCompleted
        /\ pc = "remediate" /\ snr.strategy = "OutOfServiceTaint"
    BY <1>3 DEF AddOutOfServiceTaint, removing
  <2>2. CASE pc' = "drain"
    BY <2>1, <2>2, SNRGoesOn DEF Handlers
  <2>3. CASE pc' # "drain"
    BY <1>3, <2>1, <2>3, SNRReturn
       DEF AddOutOfServiceTaint, Skip, GoOn, Return, apiError
  <2>4. QED
    BY <2>2, <2>3
<1>4. CASE WaitForResourceDeletion
  BY <1>4, SNRReturn DEF WaitForResourceDeletion, objects, Return
<1>5. CASE RemoveOutOfServiceTaint
  <2>1. CASE UNCHANGED snr
    BY <1>5, <2>1, SNRReturn DEF RemoveOutOfServiceTaint, Return, apiError
  <2>2. CASE ~UNCHANGED snr
    BY <1>5, <2>2, SNRFinished DEF RemoveOutOfServiceTaint, Return, apiError,
       Handlers, SNRStep, SNRInv, LocalSNR
  <2>3. QED
    BY <2>1, <2>2
<1>6. QED
  BY <1>1, <1>2, <1>3, <1>4, <1>5

\* Fencing-Completed.
LEMMA SNRRecover ==
    ASSUME SNRStep, WaitForDeletion \/ MarkNodeAsSchedulable
                    \/ RemoveNoExecuteTaint \/ RemoveFinalizer
    PROVE  SNRInv'
<1>1. CASE WaitForDeletion
  BY <1>1, SNRReturn DEF WaitForDeletion, objects, Return
<1>2. CASE MarkNodeAsSchedulable
  <2>1. /\ UNCHANGED <<snrs, snr, snrFresh>> /\ snr.phase = FencingCompleted
        /\ pc = "remediate" /\ snr.deleted
    BY <1>2 DEF MarkNodeAsSchedulable, completed
  <2>2. CASE pc' = "untaint"
    BY <2>1, <2>2, SNRGoesOn DEF Handlers
  <2>3. CASE pc' # "untaint"
    BY <1>2, <2>1, <2>3, SNRReturn
       DEF MarkNodeAsSchedulable, Skip, GoOn, Return, apiError
  <2>4. QED
    BY <2>2, <2>3
<1>3. CASE RemoveNoExecuteTaint
  <2>1. /\ UNCHANGED <<snrs, snr, snrFresh>> /\ pc = "untaint"
        /\ snr.phase = FencingCompleted /\ snr.deleted
    BY <1>3 DEF RemoveNoExecuteTaint, SNRStep, SNRInv, LocalSNR
  <2>2. CASE pc' = "unfinalize"
    BY <2>1, <2>2, SNRGoesOn DEF Handlers
  <2>3. CASE pc' # "unfinalize"
    BY <1>3, <2>1, <2>3, SNRReturn
       DEF RemoveNoExecuteTaint, Skip, GoOn, Return, apiError
  <2>4. QED
    BY <2>2, <2>3
<1>4. CASE RemoveFinalizer
  <2>1. CASE updateFinalizer(FALSE) /\ Return(FALSE, FALSE)
    BY <1>4, <2>1, SNRFinalizer
       DEF RemoveFinalizer, Return, SNRStep, SNRInv, LocalSNR, Handlers
  <2>2. CASE ~(updateFinalizer(FALSE) /\ Return(FALSE, FALSE))
    BY <1>4, <2>2, SNRReturn
       DEF RemoveFinalizer, snrConflict, apiError, objects, Return
  <2>3. QED
    BY <2>1, <2>2
<1>5. QED
  BY <1>1, <1>2, <1>3, <1>4

\* Versions with a change of metadata or conditions.
LEMMA ShapedVersions ==
    ASSUME NEW t, NEW s \in SNRs, SNRShape(s, t)
    PROVE  /\ SNRShape(NoSNR, t) /\ SNRShape(reap(s), t)
           /\ \A f \in BOOLEAN :
                /\ SNRShape([s EXCEPT !.lastError = f], t)
                /\ Successor(s, [s EXCEPT !.lastError = f])
                /\ SNRShape([s EXCEPT !.disabled = f], t)
                /\ Successor(s, [s EXCEPT !.disabled = f])
           /\ Exists(s) => /\ SNRShape([s EXCEPT !.deleted = TRUE], t)
                           /\ SNRShape([s EXCEPT !.held = FALSE], t)
                           /\ SNRShape([s EXCEPT !.timedOut = TRUE], t)
<1>1. SNRShape(NoSNR, t) /\ SNRShape(reap(s), t)
  BY DEF SNRShape, NoSNR, reap, Exists
<1>2. ASSUME NEW f \in BOOLEAN
      PROVE  /\ SNRShape([s EXCEPT !.lastError = f], t)
             /\ Successor(s, [s EXCEPT !.lastError = f])
             /\ SNRShape([s EXCEPT !.disabled = f], t)
             /\ Successor(s, [s EXCEPT !.disabled = f])
  BY DEF SNRShape, SNRs, Exists, Successor
<1>3. ASSUME Exists(s)
      PROVE  /\ SNRShape([s EXCEPT !.deleted = TRUE], t)
             /\ SNRShape([s EXCEPT !.held = FALSE], t)
             /\ SNRShape([s EXCEPT !.timedOut = TRUE], t)
  BY <1>3 DEF SNRShape, SNRs, Exists
<1>4. QED
  BY <1>1, <1>2, <1>3

\* The patch of LastError, and the deferred update of the status.
LEMMA SNREnd ==
    ASSUME SNRStep, UpdateSnrStatusLastError \/ UpdateSnrStatus
    PROVE  SNRInv'
<1> DEFINE old == Server(snrs)
<1>1. /\ old \in SNRs /\ SNRShape(old, now) /\ snr \in SNRs
      /\ SNRShape(snr, now) /\ WindowOK(snrs, now) /\ SNRShape(NoSNR, now)
  BY SNRFacts, ShapedVersions DEF SNRStep
<1>2. CASE UpdateSnrStatusLastError
  <2>1. pc = "lastError" /\ pc' = "status" /\ failed \in BOOLEAN
    BY <1>2 DEF UpdateSnrStatusLastError, SNRStep, Typed
  <2>2. pc \notin Handlers /\ pc' \notin Handlers /\ LocalSNR'
    BY <2>1 DEF LocalSNR, Handlers
  <2>3. CASE UNCHANGED <<snrs, snr, snrFresh>>
    BY <2>1, <2>2, <2>3, SNRStays
  <2>4. CASE /\ Exists(old) /\ snr' = [old EXCEPT !.lastError = failed]
             /\ snrs' = Append(snrs, snr')
    <3> DEFINE v == [old EXCEPT !.lastError = failed]
    <3>1. v \in SNRs /\ SNRShape(v, now) /\ Successor(old, v)
      BY <1>1, <2>1, ObjectTypes, ShapedVersions
    <3>2. v.uid = old.uid
      BY <1>1 DEF SNRs
    <3> HIDE DEF v
    <3>3. WindowOK(snrs', now) /\ Server(snrs') = v
      BY <2>4, <3>1, SNRWritten DEF v
    <3>4. SNRFreshness'
      BY <2>1, <2>2, <2>4, <3>2, <3>3 DEF SNRFreshness, Exists, v
    <3>5. QED
      BY <2>2, <2>4, <3>1, <3>3, <3>4, SNRAfter DEF v
  <2>5. CASE /\ snr' = [snr EXCEPT !.lastError = failed]
             /\ UNCHANGED <<snrs, snrFresh>>
    <3>1. SNRShape(snr', now)
      BY <1>1, <2>1, <2>5, ShapedVersions
    <3>2. /\ snr'.uid = snr.uid /\ snr'.strategy = snr.strategy
          /\ snr'.deleted = snr.deleted /\ snr'.finalizer = snr.finalizer
          /\ snr'.phase = snr.phase
          /\ snr'.timeAssumedRebooted = snr.timeAssumedRebooted
      BY <1>1, <2>5 DEF SNRs
    <3>3. SNRFreshness'
      BY <2>1, <2>2, <2>5, <3>2 DEF SNRFreshness, SNRStep, SNRInv
    <3>4. QED
      BY <1>1, <2>2, <2>5, <3>1, <3>3, SNRAfter
  <2>6. QED
    BY <1>2, <2>3, <2>4, <2>5 DEF UpdateSnrStatusLastError
<1>3. CASE UpdateSnrStatus
  <2>1. pc = "status" /\ pc' = "idle" /\ snr' = NoSNR /\ ~snrFresh'
    BY <1>3 DEF UpdateSnrStatus, EndReconcile
  <2>2. LocalSNR' /\ SNRFreshness' /\ pc' \notin Handlers /\ pc \notin Handlers
    BY <2>1 DEF LocalSNR, SNRFreshness, Handlers
  <2>3. CASE UNCHANGED snrs
    BY <1>1, <2>1, <2>2, <2>3, SNRAfter
  <2>4. CASE snrFresh /\ snrs' = Store(snrs, withStatusOf(snr, old))
    <3> DEFINE v == withStatusOf(snr, old)
    <3>1. v \in SNRs
      BY <1>1, ObjectTypes
    <3>2. /\ v.uid = old.uid /\ v.phase = snr.phase
          /\ v.timeAssumedRebooted = snr.timeAssumedRebooted
          /\ v.condition = snr.condition /\ v.finalizer = old.finalizer
          /\ v.deleted = old.deleted /\ v.held = old.held
      BY <1>1 DEF withStatusOf, SNRs
    <3> HIDE DEF v
    <3>3. /\ Exists(old) /\ snr.uid = old.uid
          /\ snr.deleted = old.deleted /\ snr.finalizer = old.finalizer
          /\ \/ /\ snr.phase = old.phase
                /\ snr.timeAssumedRebooted = old.timeAssumedRebooted
             \/ /\ snr.phase = old.phase + 1
                /\ old.phase # FencingStarted
                     => snr.timeAssumedRebooted = old.timeAssumedRebooted
                /\ old.finalizer
                /\ Len(snrs) = 1
      BY <2>4 DEF SNRFreshness, SNRStep, SNRInv
    <3>4. SNRShape(v, now)
      BY <1>1, <3>2, <3>3 DEF SNRShape, Exists
    <3>5. \/ Successor(old, v)
          \/ /\ Len(snrs) = 1 /\ Follows(old, v)
             /\ Guarding(old) => v.finalizer
      BY <3>2, <3>3 DEF Successor, Follows
    <3>6. WindowOK(snrs', now)
      BY <2>4, <3>1, <3>4, <3>5, SNRWritten DEF v
    <3>7. QED
      BY <1>1, <2>1, <2>2, <3>6, SNRAfter
  <2>5. QED
    BY <1>3, <2>3, <2>4 DEF UpdateSnrStatus, statusUpdateAccepted
<1>4. QED
  BY <1>2, <1>3

\* Deliveries, timers, a restart and the configuration's reconciler.
LEMMA SNRRuntime ==
    ASSUME SNRStep, Runtime \/ RestartManager
    PROVE  SNRInv'
<1>0. snrs \in Windows(SNRs) /\ WindowOK(snrs, now) /\ SNRShape(snr, now)
  BY SNRFacts DEF SNRStep
<1>1. CASE DeliverSNR
  <2>1. /\ UNCHANGED <<pc, snr, snrFresh>> /\ Len(snrs) > 1
        /\ snrs' = Tail(snrs)
    BY <1>1 DEF DeliverSNR, local
  <2>2. /\ WindowOK(snrs', now) /\ Server(snrs') = Server(snrs)
        /\ pc \in Handlers => CopyOK(snr, snrs')
    BY <1>0, <2>1, DeliveryOK, SNRFacts DEF SNRStep
  <2>3. Len(snrs) # 1
    BY <2>1
  <2>4. SNRFreshness' /\ LocalSNR'
    BY <2>1, <2>2, <2>3 DEF SNRStep, SNRInv, SNRFreshness, LocalSNR
  <2>5. QED
    BY <1>0, <2>1, <2>2, <2>4, SNRAfter
<1>2. CASE DeliverNode \/ TimerFires
  BY <1>2, SNRStays DEF DeliverNode, TimerFires, local, objects, SNRStep,
     SNRInv, LocalSNR, SNRFreshness
<1>3. CASE SetCRsEnabledStatus
  <2>1. UNCHANGED <<pc, snr>>
    BY <1>3 DEF SetCRsEnabledStatus
  <2>2. CASE UNCHANGED <<snrs, snrFresh>>
    BY <2>1, <2>2, SNRStays DEF SNRStep, SNRInv, LocalSNR, SNRFreshness
  <2>3. CASE /\ Len(snrs) = 1 /\ ~snrFresh'
             /\ snrs' = Append(snrs, [Cached(snrs) EXCEPT !.disabled = FALSE])
    <3> DEFINE v == [Server(snrs) EXCEPT !.disabled = FALSE]
    <3>1. snrs' = Append(snrs, v)
      BY <2>3, SNRFacts DEF SNRStep
    <3>2. v \in SNRs /\ SNRShape(v, now) /\ Successor(Server(snrs), v)
      BY SNRFacts, ObjectTypes, ShapedVersions DEF SNRStep
    <3> HIDE DEF v
    <3>3. QED
      BY <2>1, <2>3, <3>1, <3>2, SNRForeign
  <2>4. QED
    BY <1>3, <2>2, <2>3 DEF SetCRsEnabledStatus
<1>4. CASE RestartManager
  <2>1. /\ snrs' = <<Server(snrs)>> /\ pc' = "idle" /\ snr' = NoSNR
        /\ ~snrFresh'
    BY <1>4 DEF RestartManager
  <2>2. WindowOK(snrs', now) /\ SNRShape(snr', now)
    BY <1>0, <2>1, DeliveryOK, ShapedVersions, SNRFacts DEF SNRStep
  <2>3. SNRFreshness' /\ LocalSNR' /\ pc' \notin Handlers
    BY <2>1 DEF SNRFreshness, LocalSNR, Handlers
  <2>4. QED
    BY <2>2, <2>3, SNRAfter
<1>5. QED
  BY <1>1, <1>2, <1>3, <1>4 DEF Runtime

\* NHC and other owners of the SNR.
LEMMA SNRWriters ==
    ASSUME SNRStep,
           \/ \E strategy \in Strategies, held \in BOOLEAN :
                CreateSNR(strategy, held)
           \/ DeleteSNR \/ ReleaseSNR \/ TimeOutSNR
    PROVE  SNRInv'
<1> DEFINE old == Server(snrs)
<1>1. old \in SNRs /\ SNRShape(old, now)
  BY SNRFacts DEF SNRStep
<1>2. ASSUME NEW v \in SNRs, SNRShape(v, now), writeSNR(v), Successor(old, v)
      PROVE  SNRInv'
  BY <1>2, SNRForeign DEF writeSNR
<1>3. ASSUME NEW v \in SNRs, SNRShape(v, now), writeSNR(reap(v)),
             v.uid = old.uid, v.phase = old.phase, v.finalizer = old.finalizer,
             v.timeAssumedRebooted = old.timeAssumedRebooted
      PROVE  SNRInv'
  <2>1. reap(v) \in SNRs /\ SNRShape(reap(v), now)
    BY <1>3, ObjectTypes, ShapedVersions
  <2>2. Successor(old, reap(v))
    BY <1>3 DEF Successor, reap, NoSNR
  <2>3. QED
    BY <1>2, <1>3, <2>1, <2>2
<1>4. CASE \E strategy \in Strategies, held \in BOOLEAN : CreateSNR(strategy, held)
  <2>1. PICK strategy \in Strategies, held \in BOOLEAN : CreateSNR(strategy, held)
    BY <1>4
  <2> DEFINE v == [NoSNR EXCEPT !.uid = born + 1, !.strategy = strategy,
                                !.held = held]
  <2>2. v \in SNRs /\ born \in Nat
    <3>1. /\ NoSNR \in SNRs /\ strategy \in AllStrategies
          /\ born \in Nat /\ born + 1 \in Nat
      BY ObjectTypes, StrategiesAssumption DEF SNRStep, Typed
    <3>2. QED
      BY <3>1 DEF SNRs, NoSNR
  <2>3. writeSNR(v) /\ ~Exists(old)
    BY <2>1 DEF CreateSNR
  <2>4. /\ v.uid = born + 1 /\ v.phase = FencingStarted
        /\ v.timeAssumedRebooted = NoTime /\ ~v.finalizer /\ ~v.deleted
        /\ v.condition = "none"
    BY DEF NoSNR
  <2> HIDE DEF v
  <2>5. Successor(old, v)
    BY <1>1, <2>3, <2>4 DEF Successor, SNRShape
  <2>6. SNRShape(v, now)
    BY <2>2, <2>4 DEF SNRShape, Exists
  <2>7. QED
    BY <1>2, <2>2, <2>3, <2>5, <2>6
<1>5. CASE DeleteSNR
  <2> DEFINE v == [old EXCEPT !.deleted = TRUE]
  <2>1. writeSNR(reap(v)) /\ Exists(old)
    BY <1>5 DEF DeleteSNR
  <2>2. v \in SNRs /\ SNRShape(v, now)
    BY <1>1, <2>1, ObjectTypes, ShapedVersions
  <2>3. /\ v.uid = old.uid /\ v.phase = old.phase
        /\ v.finalizer = old.finalizer
        /\ v.timeAssumedRebooted = old.timeAssumedRebooted
    BY <1>1 DEF SNRs
  <2> HIDE DEF v
  <2>4. QED
    BY <1>3, <2>1, <2>2, <2>3
<1>6. CASE ReleaseSNR
  <2> DEFINE v == [old EXCEPT !.held = FALSE]
  <2>1. writeSNR(reap(v)) /\ Exists(old)
    BY <1>6 DEF ReleaseSNR
  <2>2. v \in SNRs /\ SNRShape(v, now)
    BY <1>1, <2>1, ObjectTypes, ShapedVersions
  <2>3. /\ v.uid = old.uid /\ v.phase = old.phase
        /\ v.finalizer = old.finalizer
        /\ v.timeAssumedRebooted = old.timeAssumedRebooted
    BY <1>1 DEF SNRs
  <2> HIDE DEF v
  <2>4. QED
    BY <1>3, <2>1, <2>2, <2>3
<1>7. CASE TimeOutSNR
  <2> DEFINE v == [old EXCEPT !.timedOut = TRUE]
  <2>1. writeSNR(v) /\ Exists(old)
    BY <1>7 DEF TimeOutSNR
  <2>2. v \in SNRs /\ SNRShape(v, now)
    BY <1>1, <2>1, ObjectTypes, ShapedVersions
  <2>3. Successor(old, v)
    BY <1>1 DEF SNRs, Successor
  <2> HIDE DEF v
  <2>4. QED
    BY <1>2, <2>1, <2>2, <2>3
<1>8. QED
  BY <1>4, <1>5, <1>6, <1>7

\* The rest of the environment does not touch the SNRs.
LEMMA SNRWorld ==
    ASSUME SNRStep,
           \/ SyncUnschedulableTaint \/ ToggleForeignTaint
           \/ ToggleExcludeLabel \/ DeleteNode \/ ToggleCapable \/ ToggleConfig
           \/ EvictPods \/ CollectPods \/ KubeletTerminatesPods \/ SchedulePods
           \/ Tick
    PROVE  SNRInv'
<1>1. UNCHANGED <<snrs, snr, snrFresh, pc>>
  BY DEF SyncUnschedulableTaint, ToggleForeignTaint, ToggleExcludeLabel,
     DeleteNode, ToggleCapable, ToggleConfig, EvictPods, CollectPods,
     KubeletTerminatesPods, SchedulePods, ChangeWorkload, Tick, writeNode,
     objects, local
<1>2. QED
  BY <1>1, SNRStays DEF SNRStep, SNRInv, LocalSNR, SNRFreshness

\* What is known of the SNRs is inductive.
LEMMA SNRNext == Typed /\ SNRInv /\ [Next]_vars => SNRStep /\ SNRInv'
<1> SUFFICES ASSUME Typed, SNRInv, [Next]_vars PROVE SNRStep /\ SNRInv'
  OBVIOUS
<1>0. SNRStep
  BY ClockStep, TypedNext DEF SNRStep
<1>1. CASE Manager
  BY <1>0, <1>1, SNRBegin, SNRPrepare, SNRFence, SNRRecover, SNREnd
     DEF Manager
<1>2. CASE Runtime \/ RestartManager
  BY <1>0, <1>2, SNRRuntime
<1>3. CASE Environment
  BY <1>0, <1>3, SNRWriters, SNRWorld DEF Environment
<1>4. CASE UNCHANGED vars
  BY <1>0, <1>4, SNRStays DEF vars, objects, local, SNRStep, SNRInv, LocalSNR,
     SNRFreshness
<1>5. QED
  BY <1>0, <1>1, <1>2, <1>3, <1>4 DEF Next

----------------------------------------------------------------------------
\* Windows of Nodes.

\* NodeInv by windows: what holds of the versions, ...
LayeredWindow(w) ==
    /\ \A i \in 1 .. Len(w) : Layered(w[i])
    /\ \A i, j \in 1 .. Len(w) : i <= j /\ w[j].exists => w[i].exists

OutOfServiceWindow(w) ==
    \A i, j \in 1 .. Len(w) : i <= j =>
        /\ Lost(w[i], w[j]) => AllMarked(w)
        /\ Gained(w[i], w[j]) => Cordoned(w[i])

Seen(w, phases) == \E i \in 1 .. Len(w) : w[i].phase \in phases

Fencing == {PreRebootCompleted, RebootCompleted}

NodesOK(w, s) ==
    /\ LayeredWindow(w) /\ OutOfServiceWindow(w)
    /\ Seen(s, Fencing) => AllMarked(w)
    /\ Seen(s, {FencingCompleted}) => Fading(w)
    /\ ~Server(s).finalizer => NonePrepared(w)
    /\ Server(w).exists /\ ~Server(s).finalizer
         => /\ ~Server(w).unschedulable
            /\ NodeNoExecuteTaint \notin Server(w).taints

\* ... of a copy of the SNR that can still be stored, ...
StorableOK(s, w) ==
    /\ s.phase \in Fencing => AllMarked(w)
    /\ s.phase = FencingCompleted => Fading(w)

\* ... and of the copy of the Node, inside the handlers.
HandlerOK(point, s, n, fresh, w) ==
    /\ fresh => n = Server(w)
    /\ fresh /\ point = "remediate" => Len(w) = 1
    /\ n.exists
    /\ point = "cordon" => NodeNoExecuteTaint \in n.taints
    /\ point = "untaint" => ~n.unschedulable
    /\ s.phase \in Fencing => AllMarked(w) /\ Marked(n)
    /\ point = "remediate" /\ s.phase = FencingCompleted
         => \A i \in 1 .. Len(w) : MarksWithin(w[i], n)
    /\ point = "untaint" => MarksWithin(Server(w), n)
    /\ point \in {"untaint", "unfinalize"} => ~Server(w).unschedulable
    /\ point = "unfinalize" => NodeNoExecuteTaint \notin Server(w).taints
    /\ point = "untaint" /\ NodeUnschedulableTaint \notin n.taints
         => NonePrepared(w)
    /\ point = "unfinalize" => NonePrepared(w)
    /\ point \in {"remediate", "cordon"} /\ s.phase = FencingStarted
       /\ isUnschedulable(n)
         => AllMarked(w)
    /\ Lost(n, Server(w)) => AllMarked(w) /\ Cordoned(n)
    /\ Gained(n, Server(w)) => Cordoned(n)

Completed(point, s, w) ==
    \/ Seen(w, {FencingCompleted})
    \/ point \in Handlers /\ s.phase = FencingCompleted

\* The same said in parts.
NodeParts ==
    /\ NodesOK(nodes, snrs) /\ Layered(node)
    /\ snrFresh => StorableOK(snr, nodes)
    /\ pc \in Handlers => HandlerOK(pc, snr, node, nodeFresh, nodes)
    /\ pc \notin Handlers => ~nodeFresh
    /\ ~Completed(pc, snr, snrs) => PreparedStay(nodes)

LEMMA NodeInvParts == NodeInv <=> NodeParts
<1>1. ASSUME NodeInv PROVE NodeParts
  <2>1. NodesOK(nodes, snrs) /\ Layered(node)
    BY <1>1 DEF NodeInv, NodesOK, LayeredWindow, OutOfServiceWindow, Seen,
       Fencing, Layers, Fenced, Recovering, Preparation, FinalizerGuardsNode,
       OutOfService
  <2>2. /\ snrFresh => StorableOK(snr, nodes)
        /\ pc \notin Handlers => ~nodeFresh
    BY <1>1 DEF NodeInv, StorableOK, Fencing, Fenced, Recovering, NodeFreshness
  <2>3. pc \in Handlers => HandlerOK(pc, snr, node, nodeFresh, nodes)
    BY <1>1 DEF NodeInv, HandlerOK, Fencing, NodeFreshness, LocalNode, Fenced,
       Recovering, Preparation, OutOfService
  <2>4. ~Completed(pc, snr, snrs) => PreparedStay(nodes)
    BY <1>1 DEF NodeInv, Completed, Seen, Preparation
  <2>5. QED
    BY <2>1, <2>2, <2>3, <2>4 DEF NodeParts
<1>2. ASSUME NodeParts PROVE NodeInv
  <2>0. {"cordon", "remediate", "untaint", "unfinalize"} \subseteq Handlers
    BY DEF Handlers
  <2>1. NodeFreshness /\ LocalNode
    BY <1>2, <2>0 DEF NodeParts, NodeFreshness, LocalNode, HandlerOK
  <2>2. Layers /\ FinalizerGuardsNode
    BY <1>2 DEF NodeParts, NodesOK, Layers, LayeredWindow, FinalizerGuardsNode
  <2>3. Fenced
    BY <1>2 DEF NodeParts, NodesOK, Fenced, Seen, Fencing, StorableOK,
       HandlerOK
  <2>4. Recovering
    BY <1>2, <2>0 DEF NodeParts, NodesOK, Recovering, Seen, StorableOK,
       HandlerOK
  <2>5. Preparation
    BY <1>2, <2>0 DEF NodeParts, NodesOK, Preparation, Seen, HandlerOK,
       Completed
  <2>6. OutOfService
    BY <1>2 DEF NodeParts, NodesOK, OutOfService, OutOfServiceWindow, HandlerOK
  <2>7. QED
    BY <2>1, <2>2, <2>3, <2>4, <2>5, <2>6 DEF NodeInv
<1>3. QED
  BY <1>1, <1>2

\* The server's version among the others.
LEMMA NodeVersions ==
    ASSUME NEW w \in Windows(Nodes)
    PROVE  /\ Len(w) \in Nat /\ Len(w) >= 1 /\ Len(w) \in 1 .. Len(w)
           /\ 1 \in 1 .. Len(w) /\ Cached(w) = w[1] /\ Server(w) = w[Len(w)]
           /\ \A i \in 1 .. Len(w) : w[i] \in Nodes /\ 1 <= i /\ i <= Len(w)
           /\ Server(w) \in Nodes /\ Cached(w) \in Nodes
           /\ Len(w) = 1 => \A i \in 1 .. Len(w) : w[i] = Server(w)
BY BoundsAssumption DEF Windows, Server, Cached

\* What is known of the windows says about the server's version.
LEMMA ServerNode ==
    ASSUME NEW w \in Windows(Nodes)
    PROVE  /\ LayeredWindow(w) =>
                /\ Layered(Server(w)) /\ Layered(Cached(w))
                /\ Server(w).exists => \A i \in 1 .. Len(w) : w[i].exists
           /\ AllMarked(w) => Marked(Server(w)) /\ Marked(Cached(w))
           /\ NonePrepared(w) => ~isUnschedulable(Server(w))
           /\ Fading(w) =>
                \A i \in 1 .. Len(w) : /\ MarksWithin(Server(w), w[i])
                                       /\ MarksWithin(w[i], Cached(w))
           /\ PreparedStay(w) =>
                /\ \A i \in 1 .. Len(w) :
                     isUnschedulable(w[i]) => Marked(Server(w))
                /\ isUnschedulable(Cached(w)) => AllMarked(w)
           /\ OutOfServiceWindow(w) =>
                \A i \in 1 .. Len(w) :
                  /\ Lost(w[i], Server(w)) => AllMarked(w)
                  /\ Gained(w[i], Server(w)) => Cordoned(w[i])
<1> USE NodeVersions
<1>1. LayeredWindow(w) =>
        /\ Layered(Server(w)) /\ Layered(Cached(w))
        /\ Server(w).exists => \A i \in 1 .. Len(w) : w[i].exists
  BY DEF LayeredWindow
<1>2. /\ AllMarked(w) => Marked(Server(w)) /\ Marked(Cached(w))
      /\ NonePrepared(w) => ~isUnschedulable(Server(w))
  BY DEF AllMarked, NonePrepared
<1>3. Fading(w) => \A i \in 1 .. Len(w) : /\ MarksWithin(Server(w), w[i])
                                          /\ MarksWithin(w[i], Cached(w))
  BY DEF Fading
<1>4. PreparedStay(w) =>
        /\ \A i \in 1 .. Len(w) : isUnschedulable(w[i]) => Marked(Server(w))
        /\ isUnschedulable(Cached(w)) => AllMarked(w)
  BY DEF PreparedStay, AllMarked
<1>5. OutOfServiceWindow(w) =>
        \A i \in 1 .. Len(w) : /\ Lost(w[i], Server(w)) => AllMarked(w)
                               /\ Gained(w[i], Server(w)) => Cordoned(w[i])
  BY DEF OutOfServiceWindow
<1>6. QED
  BY <1>1, <1>2, <1>3, <1>4, <1>5

\* A write of version v.
LEMMA WriteFacts ==
    ASSUME NEW w \in Windows(Nodes), NEW v \in Nodes,
           NEW x \in {Append(w, v), Store(w, v)}
    PROVE  /\ Server(x) = v
           /\ \A i \in 1 .. Len(w) : i \in 1 .. Len(x) /\ x[i] = w[i]
           /\ \A i \in 1 .. Len(x) : (i \in 1 .. Len(w) /\ x[i] = w[i])
                                     \/ (i = Len(w) + 1 /\ x[i] = v)
<1>1. w \in Seq(Nodes) /\ Len(w) \in Nat /\ Len(w) >= 1
  BY NodeVersions DEF Windows
<1>2. /\ Server(x) = v /\ Len(x) \in {Len(w), Len(w) + 1}
      /\ \A i \in 1 .. Len(w) : x[i] = w[i]
      /\ \A i \in 1 .. Len(x) : i > Len(w) => x[i] = v
  <2>1. CASE x = Append(w, v)
    BY <1>1, <2>1, AppendFacts
  <2>2. CASE x = Store(w, v)
    BY <1>1, <2>1, <2>2 DEF Store
  <2>3. QED
    BY <2>1, <2>2
<1> HIDE DEF Server
<1>3. \A i \in 1 .. Len(w) : i \in 1 .. Len(x) /\ x[i] = w[i]
  BY <1>1, <1>2
<1>4. \A i \in 1 .. Len(x) : (i \in 1 .. Len(w) /\ x[i] = w[i])
                             \/ (i = Len(w) + 1 /\ x[i] = v)
  BY <1>1, <1>2
<1>5. QED
  BY <1>2, <1>3, <1>4

\* Two versions, one after the other, after the write.
LEMMA WritePairs ==
    ASSUME NEW w \in Windows(Nodes), NEW v \in Nodes,
           NEW x \in {Append(w, v), Store(w, v)},
           NEW i \in 1 .. Len(x), NEW j \in 1 .. Len(x), i <= j
    PROVE  \/ /\ i \in 1 .. Len(w) /\ j \in 1 .. Len(w)
              /\ x[i] = w[i] /\ x[j] = w[j]
           \/ i \in 1 .. Len(w) /\ x[i] = w[i] /\ x[j] = v
           \/ x[i] = v /\ x[j] = v
<1>1. /\ (i \in 1 .. Len(w) /\ x[i] = w[i]) \/ (i = Len(w) + 1 /\ x[i] = v)
      /\ (j \in 1 .. Len(w) /\ x[j] = w[j]) \/ (j = Len(w) + 1 /\ x[j] = v)
  BY WriteFacts
<1>2. Len(w) \in Nat
  BY NodeVersions
<1>3. i = Len(w) + 1 => j \notin 1 .. Len(w)
  BY <1>2
<1>4. QED
  BY <1>1, <1>3

\* What holds of the windows holds after the write if v fits.
LEMMA WriteOK ==
    ASSUME NEW w \in Windows(Nodes), NEW v \in Nodes,
           NEW x \in {Append(w, v), Store(w, v)}
    PROVE  /\ Server(x) = v
           /\ LayeredWindow(w) /\ Layered(v) /\ (v.exists => Server(w).exists)
                => LayeredWindow(x)
           /\ AllMarked(w) /\ Marked(v) => AllMarked(x)
           /\ NonePrepared(w) /\ ~isUnschedulable(v) => NonePrepared(x)
           /\ Fading(w) /\ (\A i \in 1 .. Len(w) : MarksWithin(v, w[i]))
                => Fading(x)
           /\ \A n : (\A i \in 1 .. Len(w) : MarksWithin(w[i], n))
                     /\ MarksWithin(v, n)
                       => \A i \in 1 .. Len(x) : MarksWithin(x[i], n)
           /\ /\ PreparedStay(w)
              /\ \A i \in 1 .. Len(w) : isUnschedulable(w[i]) => Marked(v)
              /\ isUnschedulable(v) => Marked(v)
              => PreparedStay(x)
           /\ /\ OutOfServiceWindow(w)
              /\ AllMarked(w) => AllMarked(x)
              /\ \A i \in 1 .. Len(w) : /\ Lost(w[i], v) => AllMarked(x)
                                        /\ Gained(w[i], v) => Cordoned(w[i])
              => OutOfServiceWindow(x)
<1>0. Server(x) = v
  <2>1. w \in Seq(Nodes) /\ Len(w) >= 1
    BY NodeVersions DEF Windows
  <2>2. Server(Append(w, v)) = v
    BY <2>1, AppendFacts
  <2>3. QED
    BY <2>2 DEF Store
<1>9. \A i \in 1 .. Len(x) : (i \in 1 .. Len(w) /\ x[i] = w[i]) \/ x[i] = v
  BY WriteFacts
<1>10. \A i, j \in 1 .. Len(x) : i <= j =>
         \/ /\ i \in 1 .. Len(w) /\ j \in 1 .. Len(w)
            /\ x[i] = w[i] /\ x[j] = w[j]
         \/ i \in 1 .. Len(w) /\ x[i] = w[i] /\ x[j] = v
         \/ x[i] = v /\ x[j] = v
  BY WritePairs
<1>1. LayeredWindow(w) /\ Layered(v) /\ (v.exists => Server(w).exists)
        => LayeredWindow(x)
  <2> SUFFICES ASSUME LayeredWindow(w), Layered(v), v.exists => Server(w).exists
               PROVE  LayeredWindow(x)
    OBVIOUS
  <2>1. v.exists => \A i \in 1 .. Len(w) : w[i].exists
    BY ServerNode
  <2>2. \A i \in 1 .. Len(x) : Layered(x[i])
    BY <1>9 DEF LayeredWindow
  <2>3. ASSUME NEW i \in 1 .. Len(x), NEW j \in 1 .. Len(x), i <= j, x[j].exists
        PROVE  x[i].exists
    <3>1. \/ /\ i \in 1 .. Len(w) /\ j \in 1 .. Len(w)
             /\ x[i] = w[i] /\ x[j] = w[j]
          \/ i \in 1 .. Len(w) /\ x[i] = w[i] /\ x[j] = v
          \/ x[i] = v /\ x[j] = v
      BY <1>10, <2>3
    <3>2. QED
      BY <2>1, <2>3, <3>1 DEF LayeredWindow
  <2>4. QED
    BY <2>2, <2>3 DEF LayeredWindow
<1>2. AllMarked(w) /\ Marked(v) => AllMarked(x)
  BY <1>9 DEF AllMarked
<1>3. NonePrepared(w) /\ ~isUnschedulable(v) => NonePrepared(x)
  BY <1>9 DEF NonePrepared
<1>4. Fading(w) /\ (\A i \in 1 .. Len(w) : MarksWithin(v, w[i])) => Fading(x)
  <2>1. MarksWithin(v, v)
    BY DEF MarksWithin
  <2>2. SUFFICES ASSUME Fading(w), \A i \in 1 .. Len(w) : MarksWithin(v, w[i]),
                        NEW i \in 1 .. Len(x), NEW j \in 1 .. Len(x), i <= j
                 PROVE  MarksWithin(x[j], x[i])
    BY DEF Fading
  <2>3. \/ /\ i \in 1 .. Len(w) /\ j \in 1 .. Len(w)
           /\ x[i] = w[i] /\ x[j] = w[j]
        \/ i \in 1 .. Len(w) /\ x[i] = w[i] /\ x[j] = v
        \/ x[i] = v /\ x[j] = v
    BY <1>10, <2>2
  <2>4. QED
    BY <2>1, <2>2, <2>3 DEF Fading
<1>5. ASSUME NEW n, \A i \in 1 .. Len(w) : MarksWithin(w[i], n),
             MarksWithin(v, n), NEW i \in 1 .. Len(x)
      PROVE  MarksWithin(x[i], n)
  BY <1>5, <1>9
<1>6. /\ PreparedStay(w)
      /\ \A i \in 1 .. Len(w) : isUnschedulable(w[i]) => Marked(v)
      /\ isUnschedulable(v) => Marked(v)
      => PreparedStay(x)
  <2>1. SUFFICES ASSUME PreparedStay(w),
                        \A i \in 1 .. Len(w) : isUnschedulable(w[i]) => Marked(v),
                        isUnschedulable(v) => Marked(v),
                        NEW i \in 1 .. Len(x), NEW j \in 1 .. Len(x), i <= j,
                        isUnschedulable(x[i])
                 PROVE  Marked(x[j])
    BY DEF PreparedStay
  <2>2. \/ /\ i \in 1 .. Len(w) /\ j \in 1 .. Len(w)
           /\ x[i] = w[i] /\ x[j] = w[j]
        \/ i \in 1 .. Len(w) /\ x[i] = w[i] /\ x[j] = v
        \/ x[i] = v /\ x[j] = v
    BY <1>10, <2>1
  <2>3. QED
    BY <2>1, <2>2 DEF PreparedStay
<1>7. /\ OutOfServiceWindow(w)
      /\ AllMarked(w) => AllMarked(x)
      /\ \A i \in 1 .. Len(w) : /\ Lost(w[i], v) => AllMarked(x)
                                /\ Gained(w[i], v) => Cordoned(w[i])
      => OutOfServiceWindow(x)
  <2>1. ~Lost(v, v) /\ ~Gained(v, v)
    BY DEF Lost, Gained
  <2>2. SUFFICES ASSUME OutOfServiceWindow(w), AllMarked(w) => AllMarked(x),
                        \A i \in 1 .. Len(w) :
                          /\ Lost(w[i], v) => AllMarked(x)
                          /\ Gained(w[i], v) => Cordoned(w[i]),
                        NEW i \in 1 .. Len(x), NEW j \in 1 .. Len(x), i <= j
                 PROVE  /\ Lost(x[i], x[j]) => AllMarked(x)
                        /\ Gained(x[i], x[j]) => Cordoned(x[i])
    BY DEF OutOfServiceWindow
  <2>3. \/ /\ i \in 1 .. Len(w) /\ j \in 1 .. Len(w)
           /\ x[i] = w[i] /\ x[j] = w[j]
        \/ i \in 1 .. Len(w) /\ x[i] = w[i] /\ x[j] = v
        \/ x[i] = v /\ x[j] = v
    BY <1>10, <2>2
  <2>4. QED
    BY <2>1, <2>2, <2>3 DEF OutOfServiceWindow
<1>8. QED
  BY <1>0, <1>1, <1>2, <1>3, <1>4, <1>5, <1>6, <1>7

\* What holds of the windows holds of their later parts.
LEMMA LaterPart ==
    ASSUME NEW w \in Windows(Nodes),
           NEW x, (x = Tail(w) /\ Len(w) > 1) \/ x = <<Server(w)>>
    PROVE  /\ Server(x) = Server(w)
           /\ \A i \in 1 .. Len(x) : \E j \in 1 .. Len(w) : x[i] = w[j]
           /\ LayeredWindow(w) => LayeredWindow(x)
           /\ OutOfServiceWindow(w) => OutOfServiceWindow(x)
           /\ AllMarked(w) => AllMarked(x)
           /\ NonePrepared(w) => NonePrepared(x)
           /\ Fading(w) => Fading(x)
           /\ PreparedStay(w) => PreparedStay(x)
<1>1. PICK d \in Nat : /\ Len(x) = Len(w) - d /\ Len(x) \in Nat
                       /\ \A i \in 1 .. Len(x) : x[i] = w[i + d]
  <2>1. CASE x = Tail(w) /\ Len(w) > 1
    <3>1. Len(x) = Len(w) - 1 /\ \A i \in 1 .. Len(x) : x[i] = w[i + 1]
      BY <2>1, TailFacts DEF Windows
    <3>2. QED
      BY <3>1, NodeVersions, <2>1
  <2>2. CASE x = <<Server(w)>>
    <3>1. Len(x) = 1 /\ x[1] = Server(w)
      BY <2>2
    <3> DEFINE e == Len(w) - 1
    <3>2. e \in Nat /\ 1 + e = Len(w) /\ Len(x) = Len(w) - e
      BY <3>1, NodeVersions
    <3> HIDE DEF e
    <3>3. \A i \in 1 .. Len(x) : x[i] = w[i + e]
      BY <3>1, <3>2, NodeVersions
    <3>4. QED
      BY <3>1, <3>2, <3>3
  <2>3. QED
    BY <2>1, <2>2
<1>2. Server(x) = Server(w)
  BY TailFacts, WindowFacts, NodeVersions DEF Windows
<1>3. /\ \A i \in 1 .. Len(x) : i + d \in 1 .. Len(w)
      /\ \A i, j \in 1 .. Len(x) : i <= j => i + d <= j + d
  BY <1>1, NodeVersions
<1>4. \A i \in 1 .. Len(x) : \E j \in 1 .. Len(w) : x[i] = w[j]
  BY <1>1, <1>3
<1>5. AllMarked(w) => AllMarked(x)
  BY <1>1, <1>3 DEF AllMarked
<1>6. LayeredWindow(w) => LayeredWindow(x)
  BY <1>1, <1>3 DEF LayeredWindow
<1>7. OutOfServiceWindow(w) => OutOfServiceWindow(x)
  BY <1>1, <1>3, <1>5 DEF OutOfServiceWindow
<1>8. /\ NonePrepared(w) => NonePrepared(x)
      /\ Fading(w) => Fading(x)
  BY <1>1, <1>3 DEF NonePrepared, Fading
<1>9. PreparedStay(w) => PreparedStay(x)
  BY <1>1, <1>3 DEF PreparedStay
<1>10. QED
  BY <1>2, <1>4, <1>5, <1>6, <1>7, <1>8, <1>9

----------------------------------------------------------------------------
\* What the SNRs of a step have to do with those before it.

\* Version v comes from the server's SNR or from the copy that may be stored.
From(v) ==
    /\ \/ v.phase = FencingStarted \/ v.phase = Server(snrs).phase
       \/ snrFresh /\ v.phase = snr.phase
    /\ Server(snrs).finalizer => v.finalizer \/ pc = "unfinalize"
    /\ v.condition = "finished" =>
         \/ /\ Server(snrs).condition = "finished"
            /\ Server(snrs).strategy = v.strategy
         \/ snrFresh /\ snr.condition = "finished" /\ snr.strategy = v.strategy

\* The phases of the versions come from the versions and the copy before, and
\* the server's phase is not forgotten.
History ==
    /\ \A i \in 1 .. Len(snrs') :
         \/ snrs'[i].phase = FencingStarted
         \/ \E j \in 1 .. Len(snrs) : snrs'[i].phase = snrs[j].phase
         \/ snrFresh /\ snrs'[i].phase = snr.phase
    /\ \E i \in 1 .. Len(snrs') : snrs'[i].phase = Server(snrs).phase
    /\ From(Server(snrs'))

LEMMA HistoryKept == ASSUME Typed, UNCHANGED snrs PROVE History
<1>1. Server(snrs) = snrs[Len(snrs)] /\ Len(snrs) \in 1 .. Len(snrs)
  BY BoundsAssumption DEF Typed, Windows, Server
<1>2. From(Server(snrs))
  BY DEF From
<1>3. QED
  BY <1>1, <1>2 DEF History

LEMMA HistoryWritten ==
    ASSUME Typed, NEW v \in SNRs, From(v),
           snrs' \in {Append(snrs, v), Store(snrs, v)}
    PROVE  History
<1>1. /\ snrs \in Seq(SNRs) /\ Len(snrs) \in Nat /\ Len(snrs) >= 1
      /\ Server(snrs) = snrs[Len(snrs)] /\ Len(snrs) \in 1 .. Len(snrs)
  BY BoundsAssumption DEF Typed, Windows, Server
<1>2. CASE snrs' = snrs
  BY <1>2, HistoryKept
<1>3. CASE snrs' = Append(snrs, v)
  <2>1. /\ Len(snrs') = Len(snrs) + 1 /\ Server(snrs') = v
        /\ \A i \in 1 .. Len(snrs) : snrs'[i] = snrs[i]
        /\ \A i \in 1 .. Len(snrs') : i > Len(snrs) => snrs'[i] = v
    BY <1>1, <1>3, AppendFacts
  <2>2. \A i \in 1 .. Len(snrs') :
          snrs'[i] = v \/ (i \in 1 .. Len(snrs) /\ snrs'[i] = snrs[i])
    BY <1>1, <2>1
  <2>3. Len(snrs) \in 1 .. Len(snrs') /\ snrs'[Len(snrs)] = Server(snrs)
    BY <1>1, <2>1
  <2>4. \A i \in 1 .. Len(snrs') :
          \/ snrs'[i].phase = FencingStarted
          \/ \E j \in 1 .. Len(snrs) : snrs'[i].phase = snrs[j].phase
          \/ snrFresh /\ snrs'[i].phase = snr.phase
    BY <1>1, <2>2 DEF From
  <2>5. QED
    BY <2>1, <2>3, <2>4 DEF History
<1>4. QED
  BY <1>2, <1>3 DEF Store

LEMMA HistoryDropped ==
    ASSUME Typed,
           (snrs' = Tail(snrs) /\ Len(snrs) > 1) \/ snrs' = <<Server(snrs)>>
    PROVE  History
<1>1. /\ snrs \in Seq(SNRs) /\ Len(snrs) \in Nat /\ Len(snrs) >= 1
      /\ Server(snrs) = snrs[Len(snrs)] /\ Len(snrs) \in 1 .. Len(snrs)
  BY BoundsAssumption DEF Typed, Windows, Server
<1>2. /\ Server(snrs') = Server(snrs)
      /\ Len(snrs') \in 1 .. Len(snrs') /\ Server(snrs') = snrs'[Len(snrs')]
      /\ \A i \in 1 .. Len(snrs') :
           \E j \in 1 .. Len(snrs) : snrs'[i] = snrs[j]
  <2>1. CASE snrs' = Tail(snrs) /\ Len(snrs) > 1
    <3>1. /\ Len(snrs') = Len(snrs) - 1 /\ Server(snrs') = Server(snrs)
          /\ \A i \in 1 .. Len(snrs') : snrs'[i] = snrs[i + 1]
      BY <1>1, <2>1, TailFacts
    <3>2. \A i \in 1 .. Len(snrs') : i + 1 \in 1 .. Len(snrs)
      BY <1>1, <3>1
    <3>3. Len(snrs') \in 1 .. Len(snrs')
      BY <1>1, <2>1, <3>1
    <3>4. QED
      BY <3>1, <3>2, <3>3 DEF Server
  <2>2. CASE snrs' = <<Server(snrs)>>
    <3>1. /\ Len(snrs') = 1 /\ snrs'[1] = Server(snrs)
          /\ Server(snrs') = Server(snrs)
      BY <1>1, <2>2, WindowFacts
    <3>2. QED
      BY <1>1, <3>1
  <2>3. QED
    BY <2>1, <2>2
<1>3. From(Server(snrs'))
  BY <1>2 DEF From
<1>4. QED
  BY <1>2, <1>3 DEF History

\* Every step has a history.
LEMMA HistoryNext == ASSUME SNRStep, [Next]_vars PROVE History
<1> DEFINE old == Server(snrs)
<1>0. /\ Typed /\ old \in SNRs /\ SNRShape(old, now) /\ snr \in SNRs
      /\ SNRShape(snr, now)
  BY SNRFacts DEF SNRStep
<1>1. ASSUME NEW f \in BOOLEAN, updateFinalizer(f), f \/ pc = "unfinalize"
      PROVE  History
  <2> DEFINE v == [old EXCEPT !.finalizer = f]
  <2>1. v \in SNRs /\ reap(v) \in SNRs
    BY <1>0, ObjectTypes
  <2>2. /\ v.phase = old.phase /\ v.strategy = old.strategy
        /\ v.condition = old.condition /\ v.finalizer = f
    BY <1>0 DEF SNRs
  <2> HIDE DEF v
  <2>3. From(reap(v))
    BY <1>1, <2>2 DEF From, reap, NoSNR
  <2>4. snrs' = Store(snrs, reap(v))
    BY <1>1 DEF updateFinalizer, v
  <2>5. QED
    BY <1>0, <2>1, <2>3, <2>4, HistoryWritten
<1>2. ASSUME NEW v \in SNRs, snrs' = Append(snrs, reap(v)), Exists(old),
             v.phase = old.phase, v.strategy = old.strategy,
             v.condition = old.condition, v.finalizer = old.finalizer
      PROVE  History
  <2>1. From(reap(v)) /\ reap(v) \in SNRs
    BY <1>2, ObjectTypes DEF From, reap, NoSNR
  <2>2. QED
    BY <1>0, <1>2, <2>1, HistoryWritten
<1>3. CASE AddFinalizer
  <2>1. CASE updateFinalizer(TRUE)
    BY <1>1, <2>1
  <2>2. CASE ~updateFinalizer(TRUE)
    BY <1>0, <1>3, <2>2, HistoryKept
       DEF AddFinalizer, snrConflict, apiError, objects
  <2>3. QED
    BY <2>1, <2>2
<1>4. CASE RemoveFinalizer
  <2>1. CASE updateFinalizer(FALSE)
    BY <1>1, <1>4, <2>1 DEF RemoveFinalizer
  <2>2. CASE ~updateFinalizer(FALSE)
    BY <1>0, <1>4, <2>2, HistoryKept
       DEF RemoveFinalizer, snrConflict, apiError, objects
  <2>3. QED
    BY <2>1, <2>2
<1>5. CASE UpdateSnrStatusLastError
  <2>1. CASE UNCHANGED snrs
    BY <1>0, <2>1, HistoryKept
  <2>2. CASE ~UNCHANGED snrs
    <3> DEFINE v == [old EXCEPT !.lastError = failed]
    <3>1. snrs' = Append(snrs, v)
      BY <1>5, <2>2 DEF UpdateSnrStatusLastError
    <3>2. v \in SNRs
      BY <1>0, ObjectTypes DEF Typed
    <3>3. From(v)
      BY <1>0 DEF From, SNRs
    <3>4. QED
      BY <1>0, <3>1, <3>2, <3>3, HistoryWritten
  <2>3. QED
    BY <2>1, <2>2
<1>6. CASE UpdateSnrStatus
  <2>1. CASE UNCHANGED snrs
    BY <1>0, <2>1, HistoryKept
  <2>2. CASE ~UNCHANGED snrs
    <3> DEFINE v == withStatusOf(snr, old)
    <3>1. snrs' = Store(snrs, v) /\ snrFresh
      BY <1>6, <2>2 DEF UpdateSnrStatus, statusUpdateAccepted
    <3>2. v \in SNRs
      BY <1>0, ObjectTypes
    <3>3. /\ v.phase = snr.phase /\ v.condition = snr.condition
          /\ v.finalizer = old.finalizer /\ v.strategy = old.strategy
      BY <1>0 DEF withStatusOf, SNRs
    <3>4. snr.strategy = old.strategy
      BY <3>1 DEF SNRStep, SNRInv, SNRFreshness
    <3> HIDE DEF v
    <3>5. From(v)
      BY <3>1, <3>3, <3>4 DEF From
    <3>6. QED
      BY <1>0, <3>1, <3>2, <3>5, HistoryWritten
  <2>3. QED
    BY <2>1, <2>2
<1>7. CASE DeliverSNR \/ RestartManager
  BY <1>0, <1>7, HistoryDropped DEF DeliverSNR, RestartManager
<1>8. CASE SetCRsEnabledStatus
  <2>1. CASE UNCHANGED snrs
    BY <1>0, <2>1, HistoryKept
  <2>2. CASE ~UNCHANGED snrs
    <3> DEFINE v == [old EXCEPT !.disabled = FALSE]
    <3>1. snrs' = Append(snrs, v)
      BY <1>8, <2>2, SNRFacts DEF SetCRsEnabledStatus, SNRStep
    <3>2. v \in SNRs
      BY <1>0, ObjectTypes
    <3>3. From(v)
      BY <1>0 DEF From, SNRs
    <3>4. QED
      BY <1>0, <3>1, <3>2, <3>3, HistoryWritten
  <2>3. QED
    BY <2>1, <2>2
<1>9. CASE \E strategy \in Strategies, held \in BOOLEAN : CreateSNR(strategy, held)
  <2>1. PICK strategy \in Strategies, held \in BOOLEAN : CreateSNR(strategy, held)
    BY <1>9
  <2> DEFINE v == [NoSNR EXCEPT !.uid = born + 1, !.strategy = strategy,
                                !.held = held]
  <2>2. NoSNR \in SNRs /\ strategy \in AllStrategies /\ born + 1 \in Nat
    BY <1>0, ObjectTypes, StrategiesAssumption DEF Typed
  <2>3. v \in SNRs /\ v.phase = FencingStarted /\ v.condition = "none"
    BY <2>2 DEF SNRs, NoSNR
  <2>4. snrs' = Append(snrs, v) /\ ~old.finalizer
    BY <1>0, <2>1 DEF CreateSNR, writeSNR, SNRShape
  <2> HIDE DEF v
  <2>5. From(v)
    BY <2>3, <2>4 DEF From
  <2>6. QED
    BY <1>0, <2>3, <2>4, <2>5, HistoryWritten
<1>10. CASE DeleteSNR
  <2> DEFINE v == [old EXCEPT !.deleted = TRUE]
  <2>1. v \in SNRs
    BY <1>0, ObjectTypes
  <2>2. /\ v.phase = old.phase /\ v.strategy = old.strategy
        /\ v.condition = old.condition /\ v.finalizer = old.finalizer
    BY <1>0 DEF SNRs
  <2>3. snrs' = Append(snrs, reap(v)) /\ Exists(old)
    BY <1>10 DEF DeleteSNR, writeSNR
  <2> HIDE DEF v
  <2>4. QED
    BY <1>2, <2>1, <2>2, <2>3
<1>11. CASE ReleaseSNR
  <2> DEFINE v == [old EXCEPT !.held = FALSE]
  <2>1. v \in SNRs
    BY <1>0, ObjectTypes
  <2>2. /\ v.phase = old.phase /\ v.strategy = old.strategy
        /\ v.condition = old.condition /\ v.finalizer = old.finalizer
    BY <1>0 DEF SNRs
  <2>3. snrs' = Append(snrs, reap(v)) /\ Exists(old)
    BY <1>11 DEF ReleaseSNR, writeSNR
  <2> HIDE DEF v
  <2>4. QED
    BY <1>2, <2>1, <2>2, <2>3
<1>12. CASE TimeOutSNR
  <2> DEFINE v == [old EXCEPT !.timedOut = TRUE]
  <2>1. v \in SNRs
    BY <1>0, ObjectTypes
  <2>2. From(v)
    BY <1>0 DEF From, SNRs
  <2>3. snrs' = Append(snrs, v)
    BY <1>12 DEF TimeOutSNR, writeSNR
  <2>4. QED
    BY <1>0, <2>1, <2>2, <2>3, HistoryWritten
<1>13. CASE UNCHANGED snrs
  BY <1>0, <1>13, HistoryKept
<1>14. CASE Manager
  <2>1. CASE \/ SNRAlreadyDeleted \/ ConfigurationNotFound \/ StoppedByNHC
             \/ TargetNodeNotFound \/ SkipExcludedNode \/ Remediate
    BY <1>13, <2>1 DEF SNRAlreadyDeleted, ConfigurationNotFound, StoppedByNHC,
       TargetNodeNotFound, SkipExcludedNode, Remediate, Begin, objects
  <2>2. CASE \/ NodeNotRebootCapable \/ AddNoExecuteTaint
             \/ MarkNodeAsUnschedulable \/ CompletePreReboot
             \/ WaitForNodeRebooted \/ DeletePods \/ AddOutOfServiceTaint
             \/ WaitForResourceDeletion \/ RemoveOutOfServiceTaint
             \/ WaitForDeletion \/ MarkNodeAsSchedulable
             \/ RemoveNoExecuteTaint
    BY <1>13, <2>2 DEF NodeNotRebootCapable, AddNoExecuteTaint,
       MarkNodeAsUnschedulable, CompletePreReboot, WaitForNodeRebooted,
       DeletePods, AddOutOfServiceTaint, WaitForResourceDeletion,
       RemoveOutOfServiceTaint, WaitForDeletion, MarkNodeAsSchedulable,
       RemoveNoExecuteTaint, objects
  <2>3. QED
    BY <1>3, <1>4, <1>5, <1>6, <1>14, <2>1, <2>2 DEF Manager
<1>15. CASE Runtime
  BY <1>7, <1>8, <1>13, <1>15
     DEF Runtime, DeliverNode, TimerFires, objects
<1>16. CASE Environment
  <2>1. CASE \/ SyncUnschedulableTaint \/ ToggleForeignTaint
             \/ ToggleExcludeLabel \/ DeleteNode \/ ToggleCapable
             \/ ToggleConfig \/ EvictPods \/ CollectPods
             \/ KubeletTerminatesPods \/ SchedulePods \/ Tick
    BY <1>13, <2>1 DEF SyncUnschedulableTaint, ToggleForeignTaint,
       ToggleExcludeLabel, DeleteNode, ToggleCapable, ToggleConfig, EvictPods,
       CollectPods, KubeletTerminatesPods, SchedulePods, ChangeWorkload, Tick,
       writeNode, objects
  <2>2. QED
    BY <1>9, <1>10, <1>11, <1>12, <1>16, <2>1 DEF Environment
<1>17. QED
  BY <1>7, <1>13, <1>14, <1>15, <1>16 DEF Next, vars, objects

----------------------------------------------------------------------------
\* What is known of the Nodes, by the kinds of steps.

\* A step between states in which all is well with the SNRs.
NodeStep == SNRStep /\ SNRInv' /\ NodeParts /\ History

\* The typed state in the terms of the lemmas above.
LEMMA NodeFacts ==
    ASSUME NodeStep
    PROVE  /\ Typed /\ SNRInv /\ Typed' /\ NodeParts
           /\ nodes \in Windows(Nodes) /\ nodes' \in Windows(Nodes)
           /\ node \in Nodes /\ node' \in Nodes
           /\ Server(nodes) \in Nodes /\ Cached(nodes) \in Nodes
           /\ Layered(Server(nodes)) /\ Layered(Cached(nodes)) /\ Layered(node)
BY VersionTypes, ServerNode DEF NodeStep, SNRStep, Typed, NodeParts, NodesOK

\* The phases that can be seen from a copy's phase on.
LEMMA SeenFrom ==
    ASSUME SNRStep, pc \in Handlers
    PROVE  /\ snr.phase = FencingStarted => ~Seen(snrs, {FencingCompleted})
           /\ snr.phase = FencingCompleted => ~Seen(snrs, Fencing)
           /\ snr.finalizer /\ snr.phase # FencingCompleted
                => Server(snrs).finalizer
<1>1. CopyOK(snr, snrs)
  BY SNRFacts DEF SNRStep
<1>2. QED
  BY <1>1 DEF CopyOK, Seen, Fencing, Follows, Guarding

\* Once Fencing-Completed is seen, the server's SNR is in that phase or has
\* lost its finalizer.
LEMMA AfterCompleted ==
    ASSUME SNRStep, Completed(pc, snr, snrs)
    PROVE  Server(snrs).phase = FencingCompleted \/ ~Server(snrs).finalizer
<1>1. /\ WindowOK(snrs, now) /\ Len(snrs) \in 1 .. Len(snrs)
      /\ Server(snrs) = snrs[Len(snrs)] /\ Server(snrs) \in SNRs
      /\ \A i \in 1 .. Len(snrs) : i <= Len(snrs)
  BY SNRFacts, VersionsOK DEF SNRStep
<1>1a. Server(snrs).phase \in 0 .. 3
  BY <1>1 DEF SNRs, Phases
<1>2. CASE Seen(snrs, {FencingCompleted})
  <2>1. PICK i \in 1 .. Len(snrs) : snrs[i].phase = FencingCompleted
    BY <1>2 DEF Seen
  <2>2. Follows(snrs[i], Server(snrs))
    BY <1>1 DEF WindowOK
  <2>3. QED
    BY <1>1a, <2>1, <2>2 DEF Follows
<1>3. CASE pc \in Handlers /\ snr.phase = FencingCompleted
  <2>1. Follows(snr, Server(snrs))
    BY <1>1, <1>3, SNRFacts DEF CopyOK, SNRStep
  <2>2. QED
    BY <1>1a, <1>3, <2>1 DEF Follows
<1>4. QED
  BY <1>2, <1>3 DEF Completed

\* The versions of the Node before a step fit the SNRs after it.
LEMMA NodesStay ==
    ASSUME NodeStep
    PROVE  /\ NodesOK(nodes, snrs')
           /\ ~Completed(pc', snr', snrs') => PreparedStay(nodes)
<1>1. NodesOK(nodes, snrs) /\ (snrFresh => StorableOK(snr, nodes))
  BY DEF NodeStep, NodeParts
<1>2. Seen(snrs', Fencing) => AllMarked(nodes)
  BY <1>1 DEF NodeStep, History, Seen, NodesOK, StorableOK, Fencing
<1>3. Seen(snrs', {FencingCompleted}) => Fading(nodes)
  BY <1>1 DEF NodeStep, History, Seen, NodesOK, StorableOK
<1>4. ~Server(snrs').finalizer =>
        /\ NonePrepared(nodes)
        /\ Server(nodes).exists =>
             /\ ~Server(nodes).unschedulable
             /\ NodeNoExecuteTaint \notin Server(nodes).taints
  <2>1. CASE ~Server(snrs).finalizer
    BY <1>1, <2>1 DEF NodesOK
  <2>2. CASE pc = "unfinalize"
    BY <2>2 DEF NodeStep, NodeParts, HandlerOK, Handlers
  <2>3. QED
    BY <2>1, <2>2 DEF NodeStep, History, From
<1>5. NodesOK(nodes, snrs')
  BY <1>1, <1>2, <1>3, <1>4 DEF NodesOK
<1>6. ASSUME ~Completed(pc', snr', snrs') PROVE PreparedStay(nodes)
  <2>1. Server(snrs).phase # FencingCompleted
    BY <1>6 DEF NodeStep, History, Completed, Seen
  <2>2. CASE Completed(pc, snr, snrs)
    <3>1. NonePrepared(nodes)
      BY <1>1, <2>1, <2>2, AfterCompleted DEF NodeStep, NodesOK
    <3>2. QED
      BY <3>1 DEF NonePrepared, PreparedStay
  <2>3. CASE ~Completed(pc, snr, snrs)
    BY <2>3 DEF NodeStep, NodeParts
  <2>4. QED
    BY <2>2, <2>3
<1>7. QED
  BY <1>5, <1>6

\* The copies, when the Node is not written.
LEMMA NodeStays ==
    ASSUME NodeStep, UNCHANGED nodes, Layered(node'),
           snrFresh' => StorableOK(snr', nodes),
           pc' \in Handlers => HandlerOK(pc', snr', node', nodeFresh', nodes),
           pc' \notin Handlers => ~nodeFresh'
    PROVE  NodeParts'
BY NodesStay DEF NodeParts

\* Nothing happens to the copies.
LEMMA NodeQuiet ==
    ASSUME NodeStep, UNCHANGED <<nodes, pc, snr, node, nodeFresh>>,
           snrFresh' => snrFresh
    PROVE  NodeParts'
BY NodeStays DEF NodeStep, NodeParts

\* The handlers are left with a copy that may be stored.
LEMMA NodeReturn ==
    ASSUME NodeStep, UNCHANGED nodes, NEW err, NEW again, Return(err, again),
           snrFresh' => StorableOK(snr', nodes)
    PROVE  NodeParts'
<1>1. pc' \notin Handlers /\ ~nodeFresh' /\ node' = NoNode
  BY DEF Return, Handlers
<1>2. Layered(NoNode)
  BY DEF Layered, NoNode
<1>3. QED
  BY <1>1, <1>2, NodeStays

\* The same without a change of the SNR.
LEMMA NodeReturnQuiet ==
    ASSUME NodeStep, UNCHANGED <<nodes, snr, snrFresh>>,
           \/ apiError
           \/ \E err, again \in BOOLEAN : Return(err, again)
    PROVE  NodeParts'
<1>1. snrFresh' => StorableOK(snr', nodes)
  BY DEF NodeStep, NodeParts
<1>2. QED
  BY <1>1, NodeReturn DEF apiError

----------------------------------------------------------------------------
\* What is known of the Nodes, action by action.

\* A reconcile starts from the cached Node.
LEMMA NodeBegin ==
    ASSUME NodeStep,
           SNRAlreadyDeleted \/ ConfigurationNotFound \/ StoppedByNHC
           \/ TargetNodeNotFound \/ SkipExcludedNode \/ Remediate
    PROVE  NodeParts'
<1> DEFINE c == Cached(snrs)
           n == Cached(nodes)
<1>1. CASE SNRAlreadyDeleted
  BY <1>1, NodeQuiet DEF SNRAlreadyDeleted, objects, local
<1>2. CASE ~SNRAlreadyDeleted
  <2>1. /\ UNCHANGED nodes /\ pc = "idle" /\ snr'.phase = c.phase
        /\ pc' \in {"status", "lastError", "remediate"}
    <3>1. c \in SNRs
      BY SNRFacts DEF NodeStep, SNRStep
    <3>2. QED
      BY <1>2, <3>1 DEF ConfigurationNotFound, StoppedByNHC, TargetNodeNotFound,
         SkipExcludedNode, Remediate, Begin, objects, startCondition, SNRs
  <2>2. /\ c = snrs[1] /\ 1 \in 1 .. Len(snrs)
        /\ Seen(snrs, {c.phase})
    <3>1. c = snrs[1] /\ Len(snrs) \in Nat /\ Len(snrs) >= 1
      BY SNRFacts, VersionsOK DEF NodeStep, SNRStep
    <3>2. QED
      BY <3>1 DEF Seen
  <2>3. StorableOK(snr', nodes)
    BY <2>1, <2>2 DEF StorableOK, NodeStep, NodeParts, NodesOK, Seen
  <2>4. CASE ~Remediate
    <3>1. pc' \notin Handlers /\ UNCHANGED <<node, nodeFresh>>
      BY <1>2, <2>4 DEF ConfigurationNotFound, StoppedByNHC,
         TargetNodeNotFound, SkipExcludedNode, Begin, Handlers
    <3>2. pc \notin Handlers
      BY <2>1 DEF Handlers
    <3>3. QED
      BY <2>1, <2>3, <3>1, <3>2, NodeStays DEF NodeStep, NodeParts
  <2>5. CASE Remediate
    <3>1. /\ node' = n /\ nodeFresh' = (Len(nodes) = 1)
          /\ n.exists /\ pc' = "remediate"
      BY <2>5 DEF Remediate, Begin
    <3>2. NodesOK(nodes, snrs) /\ Layered(n) /\ nodes \in Windows(Nodes)
      BY NodeFacts DEF NodeStep, NodeParts
    <3>3. /\ n = nodes[1] /\ 1 \in 1 .. Len(nodes)
          /\ Len(nodes) = 1 => n = Server(nodes)
      BY <3>2, NodeVersions
    <3>4. snr'.phase \in Fencing => AllMarked(nodes) /\ Marked(n)
      BY <2>3, <3>2, ServerNode DEF StorableOK
    <3>5. snr'.phase = FencingCompleted
            => \A i \in 1 .. Len(nodes) : MarksWithin(nodes[i], n)
      BY <2>3, <3>2, ServerNode DEF StorableOK
    <3>6. snr'.phase = FencingStarted /\ isUnschedulable(n)
            => AllMarked(nodes)
      <4> SUFFICES ASSUME snr'.phase = FencingStarted, isUnschedulable(n)
                   PROVE  AllMarked(nodes)
        OBVIOUS
      <4>1. \A i \in 1 .. Len(snrs) : Follows(snrs[1], snrs[i])
        BY <2>2, SNRFacts, VersionsOK DEF WindowOK, NodeStep, SNRStep
      <4>2. ~Completed(pc, snr, snrs)
        BY <2>1, <2>2, <4>1 DEF Completed, Seen, Follows, Handlers
      <4>3. PreparedStay(nodes)
        BY <4>2 DEF NodeStep, NodeParts
      <4>4. QED
        BY <3>2, <4>3, ServerNode
    <3>7. /\ Lost(n, Server(nodes)) => AllMarked(nodes) /\ Cordoned(n)
          /\ Gained(n, Server(nodes)) => Cordoned(n)
      BY <3>1, <3>2, <3>3, ServerNode DEF NodesOK, Marked
    <3>8. HandlerOK(pc', snr', node', nodeFresh', nodes)
      BY <3>1, <3>3, <3>4, <3>5, <3>6, <3>7 DEF HandlerOK
    <3>9. QED
      BY <2>1, <2>3, <3>1, <3>2, <3>8, NodeStays DEF Handlers
  <2>6. QED
    BY <2>4, <2>5
<1>3. QED
  BY <1>1, <1>2

----------------------------------------------------------------------------
\* Writes of the Node.

\* Version v has the marks of version m, ...
KeepsMarks(m, v) ==
    v.exists => /\ m.exists
                /\ v.unschedulable <=> m.unschedulable
                /\ NodeNoExecuteTaint \in v.taints
                     <=> NodeNoExecuteTaint \in m.taints

\* ... and its out-of-service taint.
KeepsOutOfService(m, v) ==
    v.exists => (OutOfServiceTaint \in v.taints
                   <=> OutOfServiceTaint \in m.taints)

\* Marks that are all there fade, and stay.
LEMMA AllMarkedFacts ==
    ASSUME NEW w, LayeredWindow(w), AllMarked(w)
    PROVE  Fading(w) /\ PreparedStay(w)
<1>1. PreparedStay(w)
  BY DEF PreparedStay, AllMarked
<1>2. ASSUME NEW i \in 1 .. Len(w), NEW j \in 1 .. Len(w), i <= j
      PROVE  MarksWithin(w[j], w[i])
  <2>1. CASE w[j].exists
    <3>1. w[i].exists
      BY <1>2, <2>1 DEF LayeredWindow
    <3>2. QED
      BY <3>1 DEF AllMarked, Marked, Cordoned, MarksWithin
  <2>2. CASE ~w[j].exists
    BY <2>2 DEF LayeredWindow, Layered, MarksWithin
  <2>3. QED
    BY <2>1, <2>2
<1>3. QED
  BY <1>1, <1>2 DEF Fading

\* A write that keeps the marks, and the out-of-service taint unless all
\* versions are marked.
LEMMA NodeKept ==
    ASSUME NodeStep, UNCHANGED snrs, NEW v \in Nodes, Layered(v),
           nodes' \in {Append(nodes, v), Store(nodes, v)},
           KeepsMarks(Server(nodes), v),
           KeepsOutOfService(Server(nodes), v) \/ AllMarked(nodes)
    PROVE  /\ NodesOK(nodes', snrs') /\ Server(nodes') = v
           /\ AllMarked(nodes) => AllMarked(nodes')
           /\ NonePrepared(nodes) /\ ~Server(nodes).unschedulable
                => NonePrepared(nodes')
           /\ Fading(nodes) => Fading(nodes')
           /\ PreparedStay(nodes) => PreparedStay(nodes')
           /\ \A n : (\A i \in 1 .. Len(nodes) : MarksWithin(nodes[i], n))
                       => \A i \in 1 .. Len(nodes') : MarksWithin(nodes'[i], n)
           /\ MarksWithin(v, Server(nodes))
<1> DEFINE old == Server(nodes)
<1>1. /\ nodes \in Windows(Nodes) /\ NodesOK(nodes, snrs) /\ Layered(old)
      /\ LayeredWindow(nodes) /\ OutOfServiceWindow(nodes)
  BY NodeFacts DEF NodeParts, NodesOK
<1>2. Server(nodes') = v
  BY <1>1, WriteOK
<1>3. /\ Marked(old) => Marked(v)
      /\ MarksWithin(v, old)
      /\ isUnschedulable(v) => Marked(v)
      /\ ~old.unschedulable => ~isUnschedulable(v)
  BY <1>1 DEF KeepsMarks, Marked, Cordoned, MarksWithin, isUnschedulable,
     Layered
<1> HIDE DEF old
<1>4. LayeredWindow(nodes')
  BY <1>1, WriteOK DEF KeepsMarks
<1>5. AllMarked(nodes) => AllMarked(nodes')
  BY <1>1, <1>3, ServerNode, WriteOK DEF old
<1>6. NonePrepared(nodes) /\ ~old.unschedulable => NonePrepared(nodes')
  BY <1>1, <1>3, WriteOK
<1>7. ASSUME Fading(nodes) PROVE Fading(nodes')
  <2>1. \A i \in 1 .. Len(nodes) : MarksWithin(old, nodes[i])
    BY <1>1, <1>7, ServerNode DEF old
  <2>2. \A i \in 1 .. Len(nodes) : MarksWithin(v, nodes[i])
    BY <1>3, <2>1 DEF MarksWithin
  <2>3. QED
    BY <1>1, <1>7, <2>2, WriteOK
<1>8. ASSUME PreparedStay(nodes) PROVE PreparedStay(nodes')
  <2>1. \A i \in 1 .. Len(nodes) : isUnschedulable(nodes[i]) => Marked(v)
    BY <1>1, <1>3, <1>8, ServerNode DEF old
  <2>2. QED
    BY <1>1, <1>3, <1>8, <2>1, WriteOK
<1>9. ASSUME NEW n, \A i \in 1 .. Len(nodes) : MarksWithin(nodes[i], n)
      PROVE  \A i \in 1 .. Len(nodes') : MarksWithin(nodes'[i], n)
  <2>1. MarksWithin(old, n)
    BY <1>1, <1>9, NodeVersions DEF old
  <2>2. MarksWithin(v, n)
    BY <1>3, <2>1 DEF MarksWithin
  <2>3. QED
    BY <1>1, <1>9, <2>2, WriteOK
<1>10. OutOfServiceWindow(nodes')
  <2>1. ASSUME NEW i \in 1 .. Len(nodes)
        PROVE  /\ Lost(nodes[i], v) => AllMarked(nodes)
               /\ Gained(nodes[i], v) => Cordoned(nodes[i])
    <3>1. CASE KeepsOutOfService(old, v)
      <4>1. /\ Lost(nodes[i], v) => Lost(nodes[i], old)
            /\ Gained(nodes[i], v) => Gained(nodes[i], old)
        BY <3>1 DEF KeepsOutOfService, KeepsMarks, Lost, Gained, Layered, old
      <4>2. QED
        BY <1>1, <4>1, ServerNode DEF old
    <3>2. CASE AllMarked(nodes)
      <4>1. Gained(nodes[i], v) => v.exists
        BY DEF Gained, Layered
      <4>2. v.exists => nodes[i].exists
        BY <1>1, ServerNode DEF KeepsMarks
      <4>3. nodes[i].exists => Cordoned(nodes[i])
        BY <3>2 DEF AllMarked, Marked
      <4>4. QED
        BY <3>2, <4>1, <4>2, <4>3
    <3>3. QED
      BY <3>1, <3>2 DEF old
  <2>2. QED
    BY <1>1, <1>5, <2>1, WriteOK
<1>11. ~Server(snrs).finalizer =>
         /\ NonePrepared(nodes')
         /\ v.exists => /\ ~v.unschedulable
                        /\ NodeNoExecuteTaint \notin v.taints
  <2> SUFFICES ASSUME ~Server(snrs).finalizer
               PROVE  /\ NonePrepared(nodes')
                      /\ v.exists => /\ ~v.unschedulable
                                     /\ NodeNoExecuteTaint \notin v.taints
    OBVIOUS
  <2>1. /\ NonePrepared(nodes)
        /\ old.exists => /\ ~old.unschedulable
                         /\ NodeNoExecuteTaint \notin old.taints
    BY <1>1 DEF NodesOK, old
  <2>2. ~old.unschedulable
    BY <1>1, <2>1 DEF Layered
  <2>3. QED
    BY <1>6, <2>1, <2>2 DEF KeepsMarks, old
<1>12. NodesOK(nodes', snrs')
  BY <1>1, <1>2, <1>4, <1>5, <1>7, <1>10, <1>11 DEF NodesOK
<1>13. QED
  BY <1>2, <1>3, <1>5, <1>6, <1>7, <1>8, <1>9, <1>12 DEF old

\* Somebody else writes the Node.
LEMMA NodeForeign ==
    ASSUME NodeStep, NEW v \in Nodes, Layered(v), writeNode(v),
           KeepsMarks(Server(nodes), v), KeepsOutOfService(Server(nodes), v)
    PROVE  NodeParts'
<1> DEFINE old == Server(nodes)
<1>1. /\ UNCHANGED <<snrs, pc, snr, snrFresh, node>> /\ nodeFresh' = FALSE
      /\ nodes' = Append(nodes, v)
  BY DEF writeNode
<1>2. /\ NodesOK(nodes', snrs') /\ Server(nodes') = v
      /\ AllMarked(nodes) => AllMarked(nodes')
      /\ NonePrepared(nodes) /\ ~Server(nodes).unschedulable
           => NonePrepared(nodes')
      /\ Fading(nodes) => Fading(nodes')
      /\ PreparedStay(nodes) => PreparedStay(nodes')
      /\ \A n : (\A i \in 1 .. Len(nodes) : MarksWithin(nodes[i], n))
                  => \A i \in 1 .. Len(nodes') : MarksWithin(nodes'[i], n)
      /\ MarksWithin(v, Server(nodes))
  BY <1>1, NodeKept
<1>3. snrFresh' => StorableOK(snr', nodes')
  BY <1>1, <1>2 DEF NodeStep, NodeParts, StorableOK
<1>4. ASSUME pc \in Handlers PROVE HandlerOK(pc, snr, node, FALSE, nodes')
  <2>1. HandlerOK(pc, snr, node, nodeFresh, nodes)
    BY <1>4 DEF NodeStep, NodeParts
  <2>2. /\ Lost(node, v) => Lost(node, old)
        /\ Gained(node, v) => Gained(node, old)
    BY DEF KeepsOutOfService, KeepsMarks, Lost, Gained, Layered
  <2>3. /\ ~old.unschedulable => ~v.unschedulable
        /\ NodeNoExecuteTaint \notin old.taints
             => NodeNoExecuteTaint \notin v.taints
        /\ MarksWithin(old, node) => MarksWithin(v, node)
    BY <1>2 DEF MarksWithin
  <2> HIDE DEF old
  <2>4. QED
    BY <1>2, <2>1, <2>2, <2>3 DEF HandlerOK, old
<1>5. QED
  BY <1>1, <1>2, <1>3, <1>4 DEF NodeStep, NodeParts

\* The node lifecycle controller and other clients.
LEMMA NodeWriters ==
    ASSUME NodeStep,
           SyncUnschedulableTaint \/ ToggleForeignTaint \/ ToggleExcludeLabel
           \/ DeleteNode
    PROVE  NodeParts'
<1> DEFINE old == Server(nodes)
<1>1. old \in Nodes /\ Layered(old)
  BY NodeFacts
<1>2. ASSUME NEW v \in Nodes, writeNode(v), v.exists = old.exists,
             v.unschedulable = old.unschedulable, old.exists,
             \A t \in {NodeNoExecuteTaint, OutOfServiceTaint} :
               t \in v.taints <=> t \in old.taints,
             NodeUnschedulableTaint \in v.taints
               => old.unschedulable \/ NodeUnschedulableTaint \in old.taints
      PROVE  NodeParts'
  <2>1. Layered(v) /\ KeepsMarks(old, v) /\ KeepsOutOfService(old, v)
    BY <1>1, <1>2 DEF Layered, KeepsMarks, KeepsOutOfService
  <2>2. QED
    BY <1>2, <2>1, NodeForeign
<1>3. CASE SyncUnschedulableTaint
  <2> DEFINE v == [old EXCEPT !.taints =
                     IF old.unschedulable THEN @ \union {NodeUnschedulableTaint}
                     ELSE @ \ {NodeUnschedulableTaint}]
  <2>1. writeNode(v) /\ old.exists
    BY <1>3 DEF SyncUnschedulableTaint
  <2>2. v \in Nodes
    BY <1>1 DEF Nodes, Taints
  <2>3. /\ v.exists = old.exists /\ v.unschedulable = old.unschedulable
        /\ v.taints = IF old.unschedulable
                      THEN old.taints \union {NodeUnschedulableTaint}
                      ELSE old.taints \ {NodeUnschedulableTaint}
    BY <1>1 DEF Nodes
  <2> HIDE DEF v
  <2>4. /\ \A t \in {NodeNoExecuteTaint, OutOfServiceTaint} :
             t \in v.taints <=> t \in old.taints
        /\ NodeUnschedulableTaint \in v.taints
             => old.unschedulable \/ NodeUnschedulableTaint \in old.taints
    BY <2>3 DEF NodeNoExecuteTaint, OutOfServiceTaint, NodeUnschedulableTaint
  <2>5. QED
    BY <1>2, <2>1, <2>2, <2>3, <2>4
<1>4. CASE ToggleForeignTaint
  <2> DEFINE v == [old EXCEPT !.taints =
                     IF ForeignTaint \in @ THEN @ \ {ForeignTaint}
                                           ELSE @ \union {ForeignTaint}]
  <2>1. writeNode(v) /\ old.exists
    BY <1>4 DEF ToggleForeignTaint
  <2>2. v \in Nodes
    BY <1>1 DEF Nodes, Taints
  <2>3. /\ v.exists = old.exists /\ v.unschedulable = old.unschedulable
        /\ v.taints = IF ForeignTaint \in old.taints
                      THEN old.taints \ {ForeignTaint}
                      ELSE old.taints \union {ForeignTaint}
    BY <1>1 DEF Nodes
  <2> HIDE DEF v
  <2>4. /\ \A t \in {NodeNoExecuteTaint, OutOfServiceTaint} :
             t \in v.taints <=> t \in old.taints
        /\ NodeUnschedulableTaint \in v.taints
             => old.unschedulable \/ NodeUnschedulableTaint \in old.taints
    BY <2>3 DEF NodeNoExecuteTaint, OutOfServiceTaint, NodeUnschedulableTaint,
       ForeignTaint
  <2>5. QED
    BY <1>2, <2>1, <2>2, <2>3, <2>4
<1>5. CASE ToggleExcludeLabel
  <2> DEFINE v == [old EXCEPT !.excluded = ~@]
  <2>1. writeNode(v) /\ old.exists
    BY <1>5 DEF ToggleExcludeLabel
  <2>2. v \in Nodes
    BY <1>1 DEF Nodes
  <2>3. /\ v.exists = old.exists /\ v.unschedulable = old.unschedulable
        /\ v.taints = old.taints
    BY <1>1 DEF Nodes
  <2> HIDE DEF v
  <2>4. QED
    BY <1>2, <2>1, <2>2, <2>3
<1>6. CASE DeleteNode
  <2>1. writeNode(NoNode)
    BY <1>6 DEF DeleteNode
  <2>2. /\ NoNode \in Nodes /\ Layered(NoNode) /\ KeepsMarks(old, NoNode)
        /\ KeepsOutOfService(old, NoNode)
    BY ObjectTypes DEF NoNode, Layered, KeepsMarks, KeepsOutOfService
  <2>3. QED
    BY <2>1, <2>2, NodeForeign
<1>7. QED
  BY <1>3, <1>4, <1>5, <1>6

\* A patch of the taints from the copy keeps the out-of-service taint of the
\* server's Node, unless the copy is cordoned.
LEMMA PatchKeepsOutOfService ==
    ASSUME NodeStep, pc \in Handlers, ~Cordoned(node), Server(nodes).exists
    PROVE  OutOfServiceTaint \in node.taints
             <=> OutOfServiceTaint \in Server(nodes).taints
<1>1. HandlerOK(pc, snr, node, nodeFresh, nodes)
  BY DEF NodeStep, NodeParts
<1>2. QED
  BY <1>1 DEF HandlerOK, Lost, Gained

\* The node is marked, in Fencing-Started.
LEMMA NodeGetsMarks ==
    ASSUME NodeStep, UNCHANGED snrs, pc \in Handlers, snr.finalizer,
           snr.phase = FencingStarted, NEW v \in Nodes, Layered(v), v.exists,
           nodes' \in {Append(nodes, v), Store(nodes, v)},
           Server(nodes).exists, MarksWithin(Server(nodes), v),
           KeepsOutOfService(Server(nodes), v)
    PROVE  /\ NodesOK(nodes', snrs') /\ Server(nodes') = v
           /\ PreparedStay(nodes')
<1> DEFINE old == Server(nodes)
<1>1. /\ nodes \in Windows(Nodes) /\ NodesOK(nodes, snrs) /\ Layered(old)
      /\ LayeredWindow(nodes) /\ OutOfServiceWindow(nodes)
  BY NodeFacts DEF NodeParts, NodesOK
<1>2. ~Seen(snrs, {FencingCompleted}) /\ Server(snrs).finalizer
  BY SeenFrom DEF NodeStep
<1>3. PreparedStay(nodes)
  BY <1>2 DEF NodeStep, NodeParts, Completed
<1>4. /\ Marked(old) => Marked(v)
      /\ isUnschedulable(v) => Marked(v)
  BY DEF Marked, Cordoned, MarksWithin, isUnschedulable, Layered
<1> HIDE DEF old
<1>5. Server(nodes') = v /\ LayeredWindow(nodes')
  BY <1>1, WriteOK
<1>6. AllMarked(nodes) => AllMarked(nodes')
  BY <1>1, <1>4, ServerNode, WriteOK DEF old
<1>7. PreparedStay(nodes')
  <2>1. \A i \in 1 .. Len(nodes) : isUnschedulable(nodes[i]) => Marked(v)
    BY <1>1, <1>3, <1>4, ServerNode DEF old
  <2>2. QED
    BY <1>1, <1>3, <1>4, <2>1, WriteOK
<1>8. OutOfServiceWindow(nodes')
  <2>1. ASSUME NEW i \in 1 .. Len(nodes)
        PROVE  /\ Lost(nodes[i], v) => AllMarked(nodes)
               /\ Gained(nodes[i], v) => Cordoned(nodes[i])
    <3>1. /\ Lost(nodes[i], v) => Lost(nodes[i], old)
          /\ Gained(nodes[i], v) => Gained(nodes[i], old)
      BY DEF KeepsOutOfService, Lost, Gained, old
    <3>2. QED
      BY <1>1, <3>1, ServerNode DEF old
  <2>2. QED
    BY <1>1, <1>6, <2>1, WriteOK
<1>9. NodesOK(nodes', snrs')
  BY <1>1, <1>2, <1>5, <1>6, <1>8 DEF NodesOK
<1>10. QED
  BY <1>5, <1>7, <1>9

\* Fencing-Started.
LEMMA NodePrepare ==
    ASSUME NodeStep,
           NodeNotRebootCapable \/ AddFinalizer \/ AddNoExecuteTaint
           \/ MarkNodeAsUnschedulable \/ CompletePreReboot
    PROVE  NodeParts'
<1> DEFINE old == Server(nodes)
<1>0. /\ nodes \in Windows(Nodes) /\ old \in Nodes /\ node \in Nodes
      /\ Layered(old) /\ Layered(node)
  BY NodeFacts
<1>1. CASE NodeNotRebootCapable
  BY <1>1, NodeReturnQuiet DEF NodeNotRebootCapable, objects
<1>2. CASE AddFinalizer
  <2>1. UNCHANGED nodes /\ snr.phase = FencingStarted
    BY <1>2 DEF AddFinalizer, preparing
  <2>2. CASE updateFinalizer(TRUE) /\ Return(FALSE, TRUE)
    <3>1. snr'.phase = FencingStarted
      <4>1. snrFresh /\ snr' = [Server(snrs) EXCEPT !.finalizer = TRUE]
        BY <2>2 DEF updateFinalizer
      <4>2. pc \in Handlers
        BY <1>2 DEF AddFinalizer, preparing, Handlers
      <4>3. Server(snrs).phase = snr.phase /\ Server(snrs) \in SNRs
        BY <4>1, <4>2, SNRFacts DEF NodeStep, SNRStep, SNRInv, SNRFreshness
      <4>4. QED
        BY <2>1, <4>1, <4>3 DEF SNRs
    <3>2. StorableOK(snr', nodes)
      BY <3>1 DEF StorableOK, Fencing
    <3>3. QED
      BY <2>1, <2>2, <3>2, NodeReturn
  <2>3. CASE ~(updateFinalizer(TRUE) /\ Return(FALSE, TRUE))
    BY <1>2, <2>3, NodeReturnQuiet DEF AddFinalizer, snrConflict, apiError
  <2>4. QED
    BY <2>2, <2>3
<1>3. CASE AddNoExecuteTaint
  <2>1. /\ UNCHANGED <<snrs, snr, snrFresh>> /\ pc = "remediate"
        /\ snr.phase = FencingStarted /\ snr.finalizer
    BY <1>3 DEF AddNoExecuteTaint, preparing
  <2>2. HandlerOK(pc, snr, node, nodeFresh, nodes) /\ pc \in Handlers
    BY <2>1 DEF NodeStep, NodeParts, Handlers
  <2>3. CASE Skip("cordon") /\ NodeNoExecuteTaint \in node.taints
    <3>1. pc' = "cordon" /\ UNCHANGED <<nodes, node, nodeFresh>>
      BY <2>3 DEF Skip
    <3>2. HandlerOK("cordon", snr, node, nodeFresh, nodes)
      BY <2>1, <2>2, <2>3 DEF HandlerOK
    <3>3. QED
      BY <1>0, <2>1, <3>1, <3>2, NodeStays
         DEF Handlers, NodeStep, NodeParts
  <2>4. CASE /\ patchTaints(node.taints \union {NodeNoExecuteTaint})
             /\ GoOn("cordon") /\ NodeNoExecuteTaint \notin node.taints
    <3> DEFINE v == [old EXCEPT !.taints = node.taints
                                           \union {NodeNoExecuteTaint}]
    <3>1. old.exists /\ nodes' = Store(nodes, v)
      BY <2>4 DEF patchTaints
    <3>2. v \in Nodes
      BY <1>0 DEF Nodes, Taints
    <3>3. /\ v.exists = old.exists /\ v.unschedulable = old.unschedulable
          /\ v.taints = node.taints \union {NodeNoExecuteTaint}
      BY <1>0 DEF Nodes
    <3> HIDE DEF v
    <3>4. /\ Layered(v) /\ MarksWithin(old, v) /\ v.exists
          /\ ~isUnschedulable(v)
      BY <1>0, <2>4, <3>1, <3>3
         DEF Layered, MarksWithin, isUnschedulable, NodeNoExecuteTaint,
             NodeUnschedulableTaint
    <3>5. KeepsOutOfService(old, v)
      <4>1. ~Cordoned(node)
        BY <2>4 DEF Cordoned
      <4>2. OutOfServiceTaint \in v.taints <=> OutOfServiceTaint \in node.taints
        BY <3>3 DEF OutOfServiceTaint, NodeNoExecuteTaint
      <4>3. QED
        BY <2>2, <3>1, <4>1, <4>2, PatchKeepsOutOfService
           DEF KeepsOutOfService
    <3>6. /\ NodesOK(nodes', snrs') /\ Server(nodes') = v
          /\ PreparedStay(nodes')
      BY <2>1, <2>2, <3>1, <3>2, <3>4, <3>5, NodeGetsMarks
    <3>7. pc' = "cordon" /\ node' = v /\ nodeFresh' = TRUE
      BY <2>4, <3>6 DEF GoOn
    <3>8. HandlerOK("cordon", snr, v, TRUE, nodes')
      BY <2>1, <3>3, <3>4, <3>6 DEF HandlerOK, Fencing, Lost, Gained
    <3>9. StorableOK(snr', nodes')
      BY <2>1 DEF StorableOK, Fencing
    <3>10. QED
      BY <2>1, <3>4, <3>6, <3>7, <3>8, <3>9 DEF NodeParts, Handlers
  <2>5. CASE \/ nodeNotFound /\ Return(TRUE, FALSE)
             \/ apiError
    BY <2>1, <2>5, NodeReturnQuiet DEF nodeNotFound, apiError, objects
  <2>6. QED
    BY <1>3, <2>3, <2>4, <2>5 DEF AddNoExecuteTaint
<1>4. CASE MarkNodeAsUnschedulable
  <2>1. /\ UNCHANGED <<snrs, snr, snrFresh>> /\ pc = "cordon"
        /\ pc \in Handlers
    BY <1>4 DEF MarkNodeAsUnschedulable, Handlers
  <2>2. HandlerOK(pc, snr, node, nodeFresh, nodes)
    BY <2>1 DEF NodeStep, NodeParts
  <2>3. CASE updateUnschedulable(TRUE) /\ Return(FALSE, TRUE)
    <3> DEFINE v == [node EXCEPT !.unschedulable = TRUE]
    <3>1. /\ nodes' = Store(nodes, v) /\ node = old /\ node.exists
          /\ NodeNoExecuteTaint \in node.taints
      BY <2>1, <2>2, <2>3 DEF updateUnschedulable, HandlerOK
    <3>2. v \in Nodes
      BY <1>0 DEF Nodes
    <3>3. v.exists = old.exists /\ v.unschedulable /\ v.taints = old.taints
      BY <1>0, <3>1 DEF Nodes
    <3> HIDE DEF v
    <3>4. /\ Layered(v) /\ MarksWithin(old, v) /\ v.exists
          /\ KeepsOutOfService(old, v)
      BY <3>1, <3>3 DEF Layered, MarksWithin, KeepsOutOfService
    <3>5. snr.phase = FencingStarted /\ snr.finalizer
      BY <2>1 DEF NodeStep, SNRStep, SNRInv, LocalSNR
    <3>6. NodesOK(nodes', snrs') /\ PreparedStay(nodes')
      BY <2>1, <3>1, <3>2, <3>4, <3>5, NodeGetsMarks
    <3>7. StorableOK(snr', nodes')
      BY <2>1, <3>5 DEF StorableOK, Fencing
    <3>8. /\ pc' \notin Handlers /\ node' = NoNode /\ ~nodeFresh'
          /\ Layered(NoNode)
      BY <2>3 DEF Return, Handlers, Layered, NoNode
    <3>9. QED
      BY <3>6, <3>7, <3>8 DEF NodeParts
  <2>4. CASE ~(updateUnschedulable(TRUE) /\ Return(FALSE, TRUE))
    BY <1>4, <2>1, <2>4, NodeReturnQuiet
       DEF MarkNodeAsUnschedulable, nodeConflict, nodeNotFound, apiError,
           objects
  <2>5. QED
    BY <2>3, <2>4
<1>5. CASE CompletePreReboot
  <2>1. UNCHANGED nodes /\ pc = "cordon" /\ isUnschedulable(node)
    BY <1>5 DEF CompletePreReboot, objects
  <2>2. CASE apiError
    BY <1>5, <2>2, NodeReturnQuiet DEF CompletePreReboot, apiError, objects
  <2>3. CASE ~apiError
    <3>1. /\ snr' = [setTimeAssumedRebooted(snr) EXCEPT
                       !.phase = PreRebootCompleted]
          /\ Return(FALSE, FALSE)
      BY <1>5, <2>3 DEF CompletePreReboot
    <3>2. snr'.phase = PreRebootCompleted
      BY <3>1, NodeFacts DEF setTimeAssumedRebooted, Typed, SNRs
    <3>3. snr.phase = FencingStarted
      BY <2>1 DEF NodeStep, SNRStep, SNRInv, LocalSNR
    <3>4. AllMarked(nodes)
      BY <2>1, <3>3 DEF NodeStep, NodeParts, HandlerOK, Handlers
    <3>5. StorableOK(snr', nodes)
      BY <3>2, <3>4 DEF StorableOK
    <3>6. QED
      BY <2>1, <3>1, <3>5, NodeReturn
  <2>4. QED
    BY <2>2, <2>3
<1>6. QED
  BY <1>1, <1>2, <1>3, <1>4, <1>5

\* The out-of-service taint is written by a handler of Reboot-Completed.
LEMMA NodeOutOfService ==
    ASSUME NodeStep, UNCHANGED snrs, pc \in Handlers,
           snr.phase = RebootCompleted, NEW t \in SUBSET Taints, patchTaints(t),
           NodeNoExecuteTaint \in node.taints => NodeNoExecuteTaint \in t
    PROVE  /\ NodesOK(nodes', snrs') /\ AllMarked(nodes')
           /\ LayeredWindow(nodes')
           /\ Layered(Server(nodes')) /\ Marked(Server(nodes'))
           /\ Server(nodes').exists
<1> DEFINE old == Server(nodes)
           v == [old EXCEPT !.taints = t]
<1>0. /\ nodes \in Windows(Nodes) /\ old \in Nodes /\ node \in Nodes
      /\ nodes' \in Windows(Nodes)
  BY NodeFacts
<1>1. AllMarked(nodes) /\ Marked(node) /\ node.exists
  BY DEF NodeStep, NodeParts, HandlerOK, Fencing
<1>2. old.exists /\ nodes' = Store(nodes, v)
  BY DEF patchTaints
<1>3. Marked(old)
  BY <1>0, <1>1, ServerNode
<1>4. v \in Nodes
  BY <1>0 DEF Nodes
<1>5. /\ v.exists = old.exists /\ v.unschedulable = old.unschedulable
      /\ v.taints = t
  BY <1>0 DEF Nodes
<1> HIDE DEF v, old
<1>6. Layered(v) /\ KeepsMarks(old, v) /\ Marked(v)
  BY <1>1, <1>2, <1>3, <1>5 DEF Layered, KeepsMarks, Marked, Cordoned
<1>7. NodesOK(nodes', snrs') /\ AllMarked(nodes') /\ Server(nodes') = v
  BY <1>1, <1>2, <1>4, <1>6, NodeKept DEF old
<1>8. QED
  BY <1>2, <1>5, <1>6, <1>7 DEF NodesOK

\* Pre-Reboot-Completed and Reboot-Completed.
LEMMA NodeFence ==
    ASSUME NodeStep,
           WaitForNodeRebooted \/ DeletePods \/ AddOutOfServiceTaint
           \/ WaitForResourceDeletion \/ RemoveOutOfServiceTaint
    PROVE  NodeParts'
<1>0. /\ nodes \in Windows(Nodes) /\ node \in Nodes /\ snr \in SNRs
      /\ LayeredWindow(nodes) /\ Layered(node)
  BY NodeFacts DEF Typed, NodeParts, NodesOK
<1>1. ASSUME pc \in Handlers, snr.phase \in Fencing
      PROVE  AllMarked(nodes) /\ Fading(nodes) /\ PreparedStay(nodes)
  <2>1. AllMarked(nodes)
    BY <1>1 DEF NodeStep, NodeParts, HandlerOK
  <2>2. QED
    BY <1>0, <2>1, AllMarkedFacts
<1>2. CASE WaitForNodeRebooted
  <2>1. UNCHANGED <<nodes, snrFresh>> /\ pc = "remediate"
        /\ snr.phase = PreRebootCompleted
    BY <1>2 DEF WaitForNodeRebooted, objects
  <2>2. AllMarked(nodes)
    BY <1>1, <2>1 DEF Handlers, Fencing
  <2>3. snr'.phase \in Fencing
    BY <1>0, <1>2, <2>1 DEF WaitForNodeRebooted, SNRs, Fencing
  <2>4. StorableOK(snr', nodes)
    BY <2>2, <2>3 DEF StorableOK, Fencing
  <2>5. Return(FALSE, FALSE) \/ Return(FALSE, TRUE)
    BY <1>2 DEF WaitForNodeRebooted
  <2>6. QED
    BY <2>1, <2>4, <2>5, NodeReturn
<1>3. CASE DeletePods
  <2>1. UNCHANGED <<nodes, snrFresh>> /\ pc = "remediate"
        /\ snr.phase = RebootCompleted
    BY <1>3 DEF DeletePods, removing, objects
  <2>2. CASE apiError
    BY <2>1, <2>2, NodeReturnQuiet DEF apiError, objects
  <2>3. CASE ~apiError
    <3>1. snr' = finished(snr) /\ Return(FALSE, FALSE)
      BY <1>3, <2>3 DEF DeletePods
    <3>2. snr'.phase = FencingCompleted
      BY <1>0, <3>1 DEF finished, SNRs
    <3>3. StorableOK(snr', nodes)
      BY <1>1, <2>1, <3>2 DEF StorableOK, Handlers, Fencing
    <3>4. QED
      BY <2>1, <3>1, <3>3, NodeReturn
  <2>4. QED
    BY <2>2, <2>3
<1>4. CASE AddOutOfServiceTaint
  <2>1. /\ UNCHANGED <<snrs, snr, snrFresh>> /\ pc = "remediate"
        /\ snr.phase = RebootCompleted /\ pc \in Handlers
    BY <1>4 DEF AddOutOfServiceTaint, removing, Handlers
  <2>2. HandlerOK(pc, snr, node, nodeFresh, nodes)
    BY <2>1 DEF NodeStep, NodeParts
  <2>3. CASE Skip("drain")
    <3>1. pc' = "drain" /\ UNCHANGED <<nodes, node, nodeFresh>>
      BY <2>3 DEF Skip
    <3>2. HandlerOK("drain", snr, node, nodeFresh, nodes)
      BY <2>1, <2>2 DEF HandlerOK
    <3>3. QED
      BY <1>0, <2>1, <3>1, <3>2, NodeStays DEF Handlers, NodeStep, NodeParts
  <2>4. CASE /\ patchTaints(node.taints \union {OutOfServiceTaint})
             /\ GoOn("drain")
    <3> DEFINE t == node.taints \union {OutOfServiceTaint}
    <3>1. t \in SUBSET Taints /\ node.taints \subseteq t
      BY <1>0 DEF Nodes, Taints
    <3>2. patchTaints(t)
      BY <2>4
    <3> HIDE DEF t
    <3>3. /\ NodesOK(nodes', snrs') /\ AllMarked(nodes')
          /\ LayeredWindow(nodes')
          /\ Layered(Server(nodes')) /\ Marked(Server(nodes'))
          /\ Server(nodes').exists
      BY <2>1, <3>1, <3>2, NodeOutOfService
    <3>4. Fading(nodes') /\ PreparedStay(nodes')
      BY <3>3, AllMarkedFacts
    <3>5. pc' = "drain" /\ node' = Server(nodes') /\ nodeFresh' = TRUE
      BY <2>4 DEF GoOn
    <3>6. HandlerOK(pc', snr', node', nodeFresh', nodes')
      BY <2>1, <3>3, <3>5 DEF HandlerOK, Lost, Gained
    <3>7. StorableOK(snr', nodes')
      BY <3>3, <3>4 DEF StorableOK
    <3>8. QED
      BY <3>3, <3>4, <3>5, <3>6, <3>7 DEF NodeParts, Handlers
  <2>5. CASE \/ nodeNotFound /\ Return(TRUE, FALSE)
             \/ apiError
    BY <2>1, <2>5, NodeReturnQuiet DEF nodeNotFound, apiError, objects
  <2>6. QED
    BY <1>4, <2>3, <2>4, <2>5 DEF AddOutOfServiceTaint
<1>5. CASE WaitForResourceDeletion
  BY <1>5, NodeReturnQuiet DEF WaitForResourceDeletion, objects
<1>6. CASE RemoveOutOfServiceTaint
  <2>1. /\ UNCHANGED <<snrs, snrFresh>> /\ pc = "drain" /\ pc \in Handlers
        /\ snr.phase = RebootCompleted
    BY <1>6 DEF RemoveOutOfServiceTaint, NodeStep, SNRStep, SNRInv, LocalSNR,
       Handlers
  <2>2. CASE /\ patchTaints(DeleteTaint(node.taints, OutOfServiceTaint))
             /\ snr' = finished(snr) /\ Return(FALSE, FALSE)
    <3> DEFINE t == DeleteTaint(node.taints, OutOfServiceTaint)
    <3>1. /\ t \in SUBSET Taints
          /\ NodeNoExecuteTaint \in node.taints => NodeNoExecuteTaint \in t
      BY <1>0 DEF Nodes, DeleteTaint, NodeNoExecuteTaint, OutOfServiceTaint
    <3>2. patchTaints(t)
      BY <2>2
    <3> HIDE DEF t
    <3>3. /\ NodesOK(nodes', snrs') /\ AllMarked(nodes')
          /\ LayeredWindow(nodes')
      BY <2>1, <3>1, <3>2, NodeOutOfService
    <3>4. Fading(nodes') /\ PreparedStay(nodes')
      BY <3>3, AllMarkedFacts
    <3>5. StorableOK(snr', nodes')
      BY <3>3, <3>4 DEF StorableOK
    <3>6. /\ pc' \notin Handlers /\ node' = NoNode /\ ~nodeFresh'
          /\ Layered(NoNode)
      BY <2>2 DEF Return, Handlers, Layered, NoNode
    <3>7. QED
      BY <3>3, <3>4, <3>5, <3>6 DEF NodeParts
  <2>3. CASE \/ nodeNotFound /\ Return(TRUE, FALSE) /\ UNCHANGED snr
             \/ apiError
    BY <2>1, <2>3, NodeReturnQuiet DEF nodeNotFound, apiError, objects
  <2>4. QED
    BY <1>6, <2>2, <2>3 DEF RemoveOutOfServiceTaint
<1>7. QED
  BY <1>2, <1>3, <1>4, <1>5, <1>6

\* Fencing-Completed.
LEMMA NodeRecover ==
    ASSUME NodeStep, WaitForDeletion \/ MarkNodeAsSchedulable
                     \/ RemoveNoExecuteTaint \/ RemoveFinalizer
    PROVE  NodeParts'
<1> DEFINE old == Server(nodes)
<1>0. /\ nodes \in Windows(Nodes) /\ node \in Nodes /\ old \in Nodes
      /\ LayeredWindow(nodes) /\ OutOfServiceWindow(nodes)
      /\ NodesOK(nodes, snrs)
      /\ Layered(node) /\ Layered(old)
  BY NodeFacts DEF NodeParts, NodesOK
<1>1. CASE WaitForDeletion
  BY <1>1, NodeReturnQuiet DEF WaitForDeletion, objects
<1>2. ASSUME pc \in Handlers, snr.phase = FencingCompleted, UNCHANGED snrs,
             NEW v \in Nodes, Layered(v), v.exists, old.exists,
             ~v.unschedulable, MarksWithin(v, old),
             nodes' \in {Append(nodes, v), Store(nodes, v)},
             KeepsOutOfService(old, v),
             ~Server(snrs).finalizer
               => /\ NonePrepared(nodes')
                  /\ NodeNoExecuteTaint \notin v.taints,
             ~old.unschedulable \/ Len(nodes) = 1
      PROVE  /\ NodesOK(nodes', snrs') /\ Server(nodes') = v
             /\ Fading(nodes) => Fading(nodes')
  <2>1. ~Seen(snrs, Fencing)
    BY <1>2, SeenFrom DEF NodeStep
  <2>2. Server(nodes') = v /\ LayeredWindow(nodes')
    BY <1>0, <1>2, WriteOK
  <2>3. ASSUME Fading(nodes) PROVE Fading(nodes')
    <3>1. \A i \in 1 .. Len(nodes) : MarksWithin(old, nodes[i])
      BY <1>0, <2>3, ServerNode
    <3>2. \A i \in 1 .. Len(nodes) : MarksWithin(v, nodes[i])
      BY <1>2, <3>1 DEF MarksWithin
    <3>3. QED
      BY <1>0, <1>2, <2>3, <3>2, WriteOK
  <2>4. OutOfServiceWindow(nodes')
    <3>1. AllMarked(nodes) => old.unschedulable
      BY <1>0, <1>2, ServerNode DEF Marked, Cordoned
    <3>2. ASSUME NEW i \in 1 .. Len(nodes)
          PROVE  /\ ~Lost(nodes[i], v)
                 /\ Gained(nodes[i], v) => Cordoned(nodes[i])
      <4>1. /\ Lost(nodes[i], v) => Lost(nodes[i], old)
            /\ Gained(nodes[i], v) => Gained(nodes[i], old)
        BY <1>2 DEF KeepsOutOfService, Lost, Gained
      <4>2. Len(nodes) = 1 => ~Lost(nodes[i], old)
        BY <1>0, NodeVersions DEF Lost
      <4>3. QED
        BY <1>0, <1>2, <3>1, <4>1, <4>2, ServerNode
    <3>3. ASSUME NEW i \in 1 .. Len(nodes), NEW j \in 1 .. Len(nodes), i <= j
          PROVE  ~Lost(nodes[i], nodes[j])
      <4>1. CASE Len(nodes) = 1
        BY <1>0, <4>1, NodeVersions DEF Lost
      <4>2. CASE ~old.unschedulable
        BY <1>0, <3>1, <3>3, <4>2 DEF OutOfServiceWindow
      <4>3. QED
        BY <1>2, <4>1, <4>2
    <3> DEFINE x == nodes'
    <3>4. nodes \in Windows(Nodes) /\ x \in {Append(nodes, v), Store(nodes, v)}
      BY <1>0, <1>2
    <3> HIDE DEF x
    <3>5. \A i, j \in 1 .. Len(x) : i <= j =>
            \/ /\ i \in 1 .. Len(nodes) /\ j \in 1 .. Len(nodes)
               /\ x[i] = nodes[i] /\ x[j] = nodes[j]
            \/ i \in 1 .. Len(nodes) /\ x[i] = nodes[i] /\ x[j] = v
            \/ x[i] = v /\ x[j] = v
      BY <1>2, <3>4, WritePairs
    <3>6. ASSUME NEW i \in 1 .. Len(x), NEW j \in 1 .. Len(x), i <= j
          PROVE  /\ ~Lost(x[i], x[j])
                 /\ Gained(x[i], x[j]) => Cordoned(x[i])
      <4>1. \/ /\ i \in 1 .. Len(nodes) /\ j \in 1 .. Len(nodes)
               /\ x[i] = nodes[i] /\ x[j] = nodes[j]
            \/ i \in 1 .. Len(nodes) /\ x[i] = nodes[i] /\ x[j] = v
            \/ x[i] = v /\ x[j] = v
        BY <3>5, <3>6
      <4>2. ~Lost(v, v) /\ ~Gained(v, v)
        BY DEF Lost, Gained
      <4>3. QED
        BY <1>0, <3>2, <3>3, <3>6, <4>1, <4>2 DEF OutOfServiceWindow
    <3>7. QED
      BY <3>6 DEF OutOfServiceWindow, x
  <2>5. QED
    BY <1>0, <1>2, <2>1, <2>2, <2>3, <2>4 DEF NodesOK
<1>3. CASE MarkNodeAsSchedulable
  <2>1. /\ UNCHANGED <<snrs, snr, snrFresh>> /\ pc = "remediate"
        /\ snr.phase = FencingCompleted /\ pc \in Handlers
    BY <1>3 DEF MarkNodeAsSchedulable, completed, Handlers
  <2>2. HandlerOK(pc, snr, node, nodeFresh, nodes)
    BY <2>1 DEF NodeStep, NodeParts
  <2>3. CASE Skip("untaint") /\ ~node.unschedulable
    <3>1. pc' = "untaint" /\ UNCHANGED <<nodes, node, nodeFresh>>
      BY <2>3 DEF Skip
    <3>2. \A i \in 1 .. Len(nodes) : MarksWithin(nodes[i], node)
      BY <2>1, <2>2 DEF HandlerOK
    <3>3. MarksWithin(old, node) /\ NonePrepared(nodes)
      BY <1>0, <2>3, <3>2, NodeVersions
         DEF NonePrepared, isUnschedulable, MarksWithin
    <3>4. HandlerOK("untaint", snr, node, nodeFresh, nodes)
      BY <2>1, <2>2, <2>3, <3>3 DEF HandlerOK, MarksWithin
    <3>5. QED
      BY <1>0, <2>1, <3>1, <3>4, NodeStays DEF Handlers, NodeStep, NodeParts
  <2>4. CASE /\ updateUnschedulable(FALSE) /\ GoOn("untaint")
             /\ node.unschedulable
    <3> DEFINE v == [node EXCEPT !.unschedulable = FALSE]
    <3>1. /\ nodes' = Store(nodes, v) /\ node = old /\ old.exists
          /\ Len(nodes) = 1
      BY <2>1, <2>2, <2>4 DEF updateUnschedulable, HandlerOK
    <3>2. v \in Nodes
      BY <1>0 DEF Nodes
    <3>3. v.exists = old.exists /\ ~v.unschedulable /\ v.taints = old.taints
      BY <1>0, <3>1 DEF Nodes
    <3> HIDE DEF v
    <3>4. /\ Layered(v) /\ MarksWithin(v, old) /\ v.exists
          /\ KeepsOutOfService(old, v)
      BY <1>0, <3>1, <3>3 DEF Layered, MarksWithin, KeepsOutOfService
    <3>5. Server(snrs).finalizer
      BY <1>0, <2>4, <3>1 DEF NodesOK
    <3>6. /\ NodesOK(nodes', snrs') /\ Server(nodes') = v
          /\ Fading(nodes) => Fading(nodes')
      BY <1>2, <2>1, <3>1, <3>2, <3>3, <3>4, <3>5
    <3>7. pc' = "untaint" /\ node' = v /\ nodeFresh' = TRUE
      BY <2>4, <3>6 DEF GoOn
    <3>8. NodeUnschedulableTaint \notin v.taints => NonePrepared(nodes')
      <4> SUFFICES ASSUME NodeUnschedulableTaint \notin v.taints
                   PROVE  NonePrepared(nodes')
        OBVIOUS
      <4>1. NonePrepared(nodes) /\ ~isUnschedulable(v)
        BY <1>0, <3>1, <3>3, NodeVersions DEF NonePrepared, isUnschedulable
      <4>2. QED
        BY <1>0, <3>1, <3>2, <4>1, WriteOK
    <3>9. HandlerOK("untaint", snr, v, TRUE, nodes')
      BY <2>1, <3>1, <3>3, <3>6, <3>8
         DEF HandlerOK, Fencing, Lost, Gained, MarksWithin
    <3>10. snrFresh' => StorableOK(snr', nodes')
      BY <2>1, <3>6 DEF NodeStep, NodeParts, StorableOK, Fencing
    <3>11. Completed(pc', snr', snrs')
      BY <2>1, <3>7 DEF Completed, Handlers
    <3>12. QED
      BY <2>1, <3>4, <3>6, <3>7, <3>9, <3>10, <3>11 DEF NodeParts, Handlers
  <2>5. CASE \/ nodeConflict /\ Return(FALSE, TRUE)
             \/ nodeNotFound /\ Return(TRUE, FALSE)
             \/ apiError
    BY <2>1, <2>5, NodeReturnQuiet
       DEF nodeConflict, nodeNotFound, apiError, objects
  <2>6. QED
    BY <1>3, <2>3, <2>4, <2>5 DEF MarkNodeAsSchedulable
<1>4. CASE RemoveNoExecuteTaint
  <2>1. /\ UNCHANGED <<snrs, snr, snrFresh>> /\ pc = "untaint"
        /\ snr.phase = FencingCompleted /\ pc \in Handlers
    BY <1>4 DEF RemoveNoExecuteTaint, NodeStep, SNRStep, SNRInv, LocalSNR,
       Handlers
  <2>2. HandlerOK(pc, snr, node, nodeFresh, nodes)
    BY <2>1 DEF NodeStep, NodeParts
  <2>3. CASE /\ Skip("unfinalize") /\ NodeUnschedulableTaint \notin node.taints
             /\ NodeNoExecuteTaint \notin node.taints
    <3>1. pc' = "unfinalize" /\ UNCHANGED <<nodes, node, nodeFresh>>
      BY <2>3 DEF Skip
    <3>2. HandlerOK("unfinalize", snr, node, nodeFresh, nodes)
      BY <2>1, <2>2, <2>3 DEF HandlerOK, MarksWithin
    <3>3. QED
      BY <1>0, <2>1, <3>1, <3>2, NodeStays DEF Handlers, NodeStep, NodeParts
  <2>4. CASE /\ patchTaints(DeleteTaint(node.taints, NodeNoExecuteTaint))
             /\ GoOn("unfinalize")
             /\ NodeUnschedulableTaint \notin node.taints
    <3> DEFINE t == DeleteTaint(node.taints, NodeNoExecuteTaint)
               v == [old EXCEPT !.taints = t]
    <3>1. old.exists /\ nodes' = Store(nodes, v)
      BY <2>4 DEF patchTaints
    <3>2. t \in SUBSET Taints
      BY <1>0 DEF Nodes, DeleteTaint
    <3>3. v \in Nodes
      BY <1>0, <3>2 DEF Nodes
    <3>4. /\ v.exists = old.exists /\ v.unschedulable = old.unschedulable
          /\ v.taints = t
      BY <1>0 DEF Nodes
    <3>5. /\ NodeNoExecuteTaint \notin t /\ NodeUnschedulableTaint \notin t
          /\ OutOfServiceTaint \in t <=> OutOfServiceTaint \in node.taints
      BY <2>4 DEF DeleteTaint, NodeNoExecuteTaint, OutOfServiceTaint
    <3> HIDE DEF t, v
    <3>6. /\ ~old.unschedulable /\ NonePrepared(nodes)
          /\ ~node.unschedulable
      BY <2>1, <2>2, <2>4 DEF HandlerOK
    <3>7. /\ Layered(v) /\ MarksWithin(v, old) /\ v.exists
          /\ ~v.unschedulable /\ ~isUnschedulable(v)
          /\ NodeNoExecuteTaint \notin v.taints
      BY <3>1, <3>4, <3>5, <3>6 DEF Layered, MarksWithin, isUnschedulable
    <3>8. KeepsOutOfService(old, v)
      BY <2>1, <3>1, <3>4, <3>5, <3>6, PatchKeepsOutOfService
         DEF KeepsOutOfService, Cordoned
    <3>9. NonePrepared(nodes')
      BY <1>0, <3>1, <3>3, <3>6, <3>7, WriteOK
    <3>10. /\ NodesOK(nodes', snrs') /\ Server(nodes') = v
           /\ Fading(nodes) => Fading(nodes')
      BY <1>2, <2>1, <3>1, <3>3, <3>6, <3>7, <3>8, <3>9
    <3>11. pc' = "unfinalize" /\ node' = v /\ nodeFresh' = TRUE
      BY <2>4, <3>10 DEF GoOn
    <3>12. HandlerOK("unfinalize", snr, v, TRUE, nodes')
      BY <2>1, <3>7, <3>9, <3>10 DEF HandlerOK, Fencing, Lost, Gained
    <3>13. snrFresh' => StorableOK(snr', nodes')
      BY <2>1, <3>10 DEF NodeStep, NodeParts, StorableOK, Fencing
    <3>14. Completed(pc', snr', snrs')
      BY <2>1, <3>11 DEF Completed, Handlers
    <3>15. QED
      BY <2>1, <3>7, <3>10, <3>11, <3>12, <3>13, <3>14 DEF NodeParts, Handlers
  <2>5. CASE /\ UNCHANGED nodes
             /\ \/ Return(FALSE, TRUE) \/ Return(TRUE, FALSE) \/ apiError
    BY <2>1, <2>5, NodeReturnQuiet
  <2>6. QED
    BY <1>4, <2>3, <2>4, <2>5
       DEF RemoveNoExecuteTaint, nodeNotFound, apiError, objects
<1>5. CASE RemoveFinalizer
  <2>1. UNCHANGED nodes /\ pc = "unfinalize"
    BY <1>5 DEF RemoveFinalizer
  <2>2. CASE updateFinalizer(FALSE) /\ Return(FALSE, FALSE)
    <3>1. snrFresh /\ snr' = [Server(snrs) EXCEPT !.finalizer = FALSE]
      BY <2>2 DEF updateFinalizer
    <3>2. Server(snrs) \in SNRs /\ Server(snrs).phase = snr.phase
      BY <2>1, <3>1, SNRFacts
         DEF NodeStep, SNRStep, SNRInv, SNRFreshness, Handlers
    <3>3. snr'.phase = snr.phase
      BY <3>1, <3>2 DEF SNRs
    <3>4. StorableOK(snr', nodes)
      BY <3>1, <3>3 DEF StorableOK, NodeStep, NodeParts
    <3>5. QED
      BY <2>1, <2>2, <3>4, NodeReturn
  <2>3. CASE ~(updateFinalizer(FALSE) /\ Return(FALSE, FALSE))
    BY <1>5, <2>1, <2>3, NodeReturnQuiet
       DEF RemoveFinalizer, snrConflict, apiError
  <2>4. QED
    BY <2>2, <2>3
<1>6. QED
  BY <1>1, <1>3, <1>4, <1>5

\* The end of a reconcile.
LEMMA NodeEnd ==
    ASSUME NodeStep, UpdateSnrStatusLastError \/ UpdateSnrStatus
    PROVE  NodeParts'
<1>0. /\ Server(snrs) \in SNRs /\ snr \in SNRs /\ Layered(node)
      /\ Seen(snrs, {Server(snrs).phase})
  <2>1. /\ Server(snrs) = snrs[Len(snrs)] /\ Len(snrs) \in 1 .. Len(snrs)
        /\ Server(snrs) \in SNRs
    BY SNRFacts, VersionsOK DEF NodeStep, SNRStep
  <2>2. QED
    BY <2>1, NodeFacts DEF Seen, Typed
<1>1. /\ UNCHANGED <<nodes, node, nodeFresh>> /\ pc \notin Handlers
      /\ pc' \notin Handlers
  BY DEF UpdateSnrStatusLastError, UpdateSnrStatus, EndReconcile, Handlers
<1>2. snrFresh' => StorableOK(snr', nodes)
  <2>1. CASE snr' = [Server(snrs) EXCEPT !.lastError = failed]
    <3>1. snr'.phase = Server(snrs).phase
      BY <1>0, <2>1 DEF SNRs
    <3>2. QED
      BY <1>0, <3>1 DEF StorableOK, NodeStep, NodeParts, NodesOK, Seen
  <2>2. CASE UNCHANGED snrFresh /\ snr' \in {snr, [snr EXCEPT !.lastError = failed]}
    <3>1. snr'.phase = snr.phase
      BY <1>0, <2>2 DEF SNRs
    <3>2. QED
      BY <2>2, <3>1 DEF StorableOK, NodeStep, NodeParts
  <2>3. CASE ~snrFresh'
    BY <2>3
  <2>4. QED
    BY <2>1, <2>2, <2>3
       DEF UpdateSnrStatusLastError, UpdateSnrStatus, EndReconcile
<1>3. QED
  BY <1>0, <1>1, <1>2, NodeStays DEF NodeStep, NodeParts

\* The later part of a window fits the same SNRs.
LEMMA LaterNodesOK ==
    ASSUME NEW s, NEW w \in Windows(Nodes), NodesOK(w, s),
           NEW x, (x = Tail(w) /\ Len(w) > 1) \/ x = <<Server(w)>>
    PROVE  NodesOK(x, s)
BY LaterPart DEF NodesOK

\* Deliveries, timers, a restart and the configuration's reconciler.
LEMMA NodeRuntime ==
    ASSUME NodeStep, Runtime \/ RestartManager
    PROVE  NodeParts'
<1>0. /\ nodes \in Windows(Nodes) /\ Layered(node)
      /\ NodesOK(nodes, snrs')
      /\ ~Completed(pc', snr', snrs') => PreparedStay(nodes)
  BY NodeFacts, NodesStay
<1>1. CASE DeliverSNR \/ TimerFires \/ SetCRsEnabledStatus
  BY <1>1, NodeQuiet DEF DeliverSNR, TimerFires, SetCRsEnabledStatus, objects,
     local
<1>2. CASE DeliverNode
  <2>1. /\ nodes' = Tail(nodes) /\ Len(nodes) > 1 /\ Len(nodes) # 1
        /\ UNCHANGED <<snrs, pc, snr, snrFresh, node, nodeFresh>>
    <3>1. nodes' = Tail(nodes) /\ Len(nodes) > 1
      BY <1>2 DEF DeliverNode
    <3>2. UNCHANGED <<snrs, pc, snr, snrFresh, node, nodeFresh>>
      BY <1>2 DEF DeliverNode, local
    <3>3. Len(nodes) # 1
      BY <1>0, <3>1, NodeVersions
    <3>4. QED
      BY <3>1, <3>2, <3>3
  <2>2. /\ Server(nodes') = Server(nodes)
        /\ \A i \in 1 .. Len(nodes') :
             \E j \in 1 .. Len(nodes) : nodes'[i] = nodes[j]
        /\ AllMarked(nodes) => AllMarked(nodes')
        /\ NonePrepared(nodes) => NonePrepared(nodes')
        /\ Fading(nodes) => Fading(nodes')
        /\ PreparedStay(nodes) => PreparedStay(nodes')
    <3>1. nodes' = Tail(nodes) /\ Len(nodes) > 1
      BY <2>1
    <3>2. \A i \in 1 .. Len(nodes') :
            \E j \in 1 .. Len(nodes) : nodes'[i] = nodes[j]
      BY ONLY <1>0, <3>1, LaterPart
    <3>3. /\ Server(nodes') = Server(nodes)
          /\ AllMarked(nodes) => AllMarked(nodes')
          /\ NonePrepared(nodes) => NonePrepared(nodes')
          /\ Fading(nodes) => Fading(nodes')
          /\ PreparedStay(nodes) => PreparedStay(nodes')
      BY <1>0, <3>1, LaterPart
    <3>4. QED
      BY <3>2, <3>3
  <2>3. NodesOK(nodes', snrs')
    BY <1>0, <2>1, LaterNodesOK
  <2>4. snrFresh' => StorableOK(snr', nodes')
    BY <2>1, <2>2 DEF NodeStep, NodeParts, StorableOK
  <2>5. pc' \in Handlers => HandlerOK(pc', snr', node', nodeFresh', nodes')
    <3> SUFFICES ASSUME pc \in Handlers
                 PROVE  HandlerOK(pc, snr, node, nodeFresh, nodes')
      BY <2>1
    <3>1. HandlerOK(pc, snr, node, nodeFresh, nodes)
      BY DEF NodeStep, NodeParts
    <3>2. (\A i \in 1 .. Len(nodes) : MarksWithin(nodes[i], node))
            => \A i \in 1 .. Len(nodes') : MarksWithin(nodes'[i], node)
      BY <2>2
    <3>3. QED
      BY <2>1, <2>2, <3>1, <3>2 DEF HandlerOK
  <2>6. QED
    BY <1>0, <2>1, <2>2, <2>3, <2>4, <2>5 DEF NodeStep, NodeParts
<1>3. CASE RestartManager
  <2>1. /\ nodes' = <<Server(nodes)>> /\ node' = NoNode /\ ~nodeFresh'
        /\ pc' \notin Handlers /\ ~snrFresh'
    BY <1>3 DEF RestartManager, Handlers
  <2>2. /\ NodesOK(nodes', snrs')
        /\ PreparedStay(nodes) => PreparedStay(nodes')
    BY <1>0, <2>1, LaterNodesOK, LaterPart
  <2>3. Layered(NoNode)
    BY DEF Layered, NoNode
  <2>4. QED
    BY <1>0, <2>1, <2>2, <2>3 DEF NodeParts
<1>4. QED
  BY <1>1, <1>2, <1>3 DEF Runtime

\* The rest of the environment does not touch the Node.
LEMMA NodeWorld ==
    ASSUME NodeStep,
           \/ \E strategy \in Strategies, held \in BOOLEAN :
                CreateSNR(strategy, held)
           \/ DeleteSNR \/ ReleaseSNR \/ TimeOutSNR \/ ToggleCapable
           \/ ToggleConfig \/ EvictPods \/ CollectPods
           \/ KubeletTerminatesPods \/ SchedulePods \/ Tick
    PROVE  NodeParts'
<1>1. CASE \E strategy \in Strategies, held \in BOOLEAN : CreateSNR(strategy, held)
  <2>1. PICK strategy \in Strategies, held \in BOOLEAN : CreateSNR(strategy, held)
    BY <1>1
  <2>2. UNCHANGED <<nodes, pc, snr, node, nodeFresh>> /\ ~snrFresh'
    BY <2>1 DEF CreateSNR, writeSNR
  <2>3. QED
    BY <2>2, NodeQuiet
<1>2. CASE DeleteSNR \/ ReleaseSNR \/ TimeOutSNR
  <2>1. UNCHANGED <<nodes, pc, snr, node, nodeFresh>> /\ ~snrFresh'
    BY <1>2 DEF DeleteSNR, ReleaseSNR, TimeOutSNR, writeSNR
  <2>2. QED
    BY <2>1, NodeQuiet
<1>3. CASE \/ ToggleCapable \/ ToggleConfig \/ EvictPods \/ CollectPods
           \/ KubeletTerminatesPods \/ SchedulePods \/ Tick
  <2>1. UNCHANGED <<nodes, pc, snr, node, nodeFresh, snrFresh>>
    BY <1>3 DEF ToggleCapable, ToggleConfig, EvictPods, CollectPods,
       KubeletTerminatesPods, SchedulePods, ChangeWorkload, Tick, objects, local
  <2>2. QED
    BY <2>1, NodeQuiet
<1>4. QED
  BY <1>1, <1>2, <1>3

\* What is known of the Nodes is inductive, given what is known of the SNRs.
LEMMA NodeNext ==
    Typed /\ SNRInv /\ NodeParts /\ [Next]_vars => NodeStep /\ NodeParts'
<1> SUFFICES ASSUME Typed, SNRInv, NodeParts, [Next]_vars
             PROVE  NodeStep /\ NodeParts'
  OBVIOUS
<1>0. NodeStep
  BY SNRNext, HistoryNext DEF NodeStep
<1>1. CASE Manager
  BY <1>0, <1>1, NodeBegin, NodePrepare, NodeFence, NodeRecover, NodeEnd
     DEF Manager
<1>2. CASE Runtime \/ RestartManager
  BY <1>0, <1>2, NodeRuntime
<1>3. CASE Environment
  BY <1>0, <1>3, NodeWriters, NodeWorld DEF Environment
<1>4. CASE UNCHANGED vars
  BY <1>0, <1>4, NodeQuiet DEF vars, objects, local
<1>5. QED
  BY <1>0, <1>1, <1>2, <1>3, <1>4 DEF Next

----------------------------------------------------------------------------
\* What a step may do to the server's Node and to the pods.

\* The server's Node is cordoned by MarkNodeAsUnschedulable alone, and gets the
\* out-of-service taint from AddOutOfServiceTaint alone: no patch with an old
\* list of taints brings it back.
LEMMA ServerNodeStep ==
    ASSUME NodeStep, [Next]_vars
    PROVE  /\ Server(nodes').unschedulable
                => Server(nodes).unschedulable \/ MarkNodeAsUnschedulable
           /\ OutOfServiceTaint \in Server(nodes').taints
                => \/ OutOfServiceTaint \in Server(nodes).taints
                   \/ AddOutOfServiceTaint
<1> DEFINE old == Server(nodes)
           goal == /\ Server(nodes').unschedulable
                        => old.unschedulable \/ MarkNodeAsUnschedulable
                   /\ OutOfServiceTaint \in Server(nodes').taints
                        => OutOfServiceTaint \in old.taints \/ AddOutOfServiceTaint
<1>0. nodes \in Windows(Nodes) /\ old \in Nodes /\ node \in Nodes
  BY NodeFacts
<1>1. ASSUME NEW t \in SUBSET Taints, patchTaints(t)
      PROVE  /\ Server(nodes').unschedulable = old.unschedulable
             /\ Server(nodes').taints = t /\ old.exists
  <2> DEFINE v == [old EXCEPT !.taints = t]
  <2>1. v \in Nodes /\ v.unschedulable = old.unschedulable /\ v.taints = t
    BY <1>0 DEF Nodes
  <2>2. nodes' = Store(nodes, v) /\ old.exists
    BY <1>1 DEF patchTaints
  <2> HIDE DEF v
  <2>3. Server(nodes') = v
    BY <1>0, <2>1, <2>2, WriteFacts
  <2>4. QED
    BY <2>1, <2>2, <2>3
<1>2. ASSUME NEW u \in BOOLEAN, updateUnschedulable(u), pc \in Handlers
      PROVE  Server(nodes').taints = old.taints /\ Server(nodes').unschedulable = u
  <2> DEFINE v == [node EXCEPT !.unschedulable = u]
  <2>1. v \in Nodes /\ v.unschedulable = u /\ v.taints = node.taints
    BY <1>0 DEF Nodes
  <2>2. nodes' = Store(nodes, v) /\ nodeFresh
    BY <1>2 DEF updateUnschedulable
  <2>3. node = old
    BY <1>2, <2>2 DEF NodeStep, NodeParts, HandlerOK
  <2> HIDE DEF v
  <2>4. Server(nodes') = v
    BY <1>0, <2>1, <2>2, WriteFacts
  <2>5. QED
    BY <2>1, <2>3, <2>4
<1>3. ASSUME NEW v \in Nodes, writeNode(v), v.unschedulable => old.unschedulable,
             OutOfServiceTaint \in v.taints => OutOfServiceTaint \in old.taints
      PROVE  goal
  BY <1>0, <1>3, WriteFacts DEF writeNode
<1>4. CASE UNCHANGED nodes
  BY <1>4
<1>5. CASE DeliverNode \/ RestartManager
  <2>1. \/ nodes' = Tail(nodes) /\ Len(nodes) > 1
        \/ nodes' = <<Server(nodes)>>
    BY <1>5 DEF DeliverNode, RestartManager
  <2>2. Server(nodes') = old
    BY <1>0, <2>1, LaterPart
  <2>3. QED
    BY <2>2
<1>6. CASE AddNoExecuteTaint /\ ~UNCHANGED nodes
  <2>1. /\ patchTaints(node.taints \union {NodeNoExecuteTaint})
        /\ NodeNoExecuteTaint \notin node.taints /\ pc \in Handlers
    BY <1>6 DEF AddNoExecuteTaint, preparing, Handlers, Skip, nodeNotFound,
       apiError, objects
  <2>2. node.taints \union {NodeNoExecuteTaint} \in SUBSET Taints
    BY <1>0 DEF Nodes, Taints
  <2>3. ~Cordoned(node)
    BY <2>1 DEF Cordoned
  <2>4. /\ old.exists /\ Server(nodes').unschedulable = old.unschedulable
        /\ Server(nodes').taints = node.taints \union {NodeNoExecuteTaint}
    BY <1>1, <2>1, <2>2
  <2>5. OutOfServiceTaint \in node.taints <=> OutOfServiceTaint \in old.taints
    BY <2>1, <2>3, <2>4, PatchKeepsOutOfService
  <2>6. QED
    BY <2>4, <2>5 DEF OutOfServiceTaint, NodeNoExecuteTaint
<1>7. CASE RemoveNoExecuteTaint /\ ~UNCHANGED nodes
  <2>1. /\ patchTaints(DeleteTaint(node.taints, NodeNoExecuteTaint))
        /\ pc = "untaint" /\ pc \in Handlers
    BY <1>7 DEF RemoveNoExecuteTaint, Handlers, Skip, nodeNotFound,
       apiError, objects
  <2>2. DeleteTaint(node.taints, NodeNoExecuteTaint) \in SUBSET Taints
    BY <1>0 DEF Nodes, DeleteTaint
  <2>3. ~Cordoned(node)
    BY <2>1 DEF Cordoned, NodeStep, NodeParts, HandlerOK
  <2>4. /\ old.exists /\ Server(nodes').unschedulable = old.unschedulable
        /\ Server(nodes').taints = DeleteTaint(node.taints, NodeNoExecuteTaint)
    BY <1>1, <2>1, <2>2
  <2>5. OutOfServiceTaint \in node.taints <=> OutOfServiceTaint \in old.taints
    BY <2>1, <2>3, <2>4, PatchKeepsOutOfService
  <2>6. QED
    BY <2>4, <2>5 DEF DeleteTaint
<1>8. CASE AddOutOfServiceTaint /\ ~UNCHANGED nodes
  <2>1. patchTaints(node.taints \union {OutOfServiceTaint})
    BY <1>8 DEF AddOutOfServiceTaint, Skip, nodeNotFound, apiError, objects
  <2>2. node.taints \union {OutOfServiceTaint} \in SUBSET Taints
    BY <1>0 DEF Nodes, Taints
  <2>3. QED
    BY <1>1, <1>8, <2>1, <2>2
<1>9. CASE RemoveOutOfServiceTaint /\ ~UNCHANGED nodes
  <2>1. patchTaints(DeleteTaint(node.taints, OutOfServiceTaint))
    BY <1>9 DEF RemoveOutOfServiceTaint, nodeNotFound, apiError, objects
  <2>2. DeleteTaint(node.taints, OutOfServiceTaint) \in SUBSET Taints
    BY <1>0 DEF Nodes, DeleteTaint
  <2>3. QED
    BY <1>1, <2>1, <2>2 DEF DeleteTaint
<1>10. CASE MarkNodeAsUnschedulable /\ ~UNCHANGED nodes
  <2>1. updateUnschedulable(TRUE) /\ pc \in Handlers
    BY <1>10 DEF MarkNodeAsUnschedulable, Handlers, nodeConflict, nodeNotFound,
       apiError, objects
  <2>2. QED
    BY <1>2, <1>10, <2>1
<1>11. CASE MarkNodeAsSchedulable /\ ~UNCHANGED nodes
  <2>1. updateUnschedulable(FALSE) /\ pc \in Handlers
    BY <1>11 DEF MarkNodeAsSchedulable, completed, Handlers, Skip, nodeConflict,
       nodeNotFound, apiError, objects
  <2>2. QED
    BY <1>2, <2>1
<1>12. CASE SyncUnschedulableTaint
  <2> DEFINE v == [old EXCEPT !.taints =
                     IF old.unschedulable THEN @ \union {NodeUnschedulableTaint}
                     ELSE @ \ {NodeUnschedulableTaint}]
  <2>1. v \in Nodes
    BY <1>0 DEF Nodes, Taints
  <2>2. /\ v.unschedulable = old.unschedulable
        /\ OutOfServiceTaint \in v.taints => OutOfServiceTaint \in old.taints
    BY <1>0 DEF Nodes, OutOfServiceTaint, NodeUnschedulableTaint
  <2>3. writeNode(v)
    BY <1>12 DEF SyncUnschedulableTaint
  <2> HIDE DEF v
  <2>4. QED
    BY <1>3, <2>1, <2>2, <2>3
<1>13. CASE ToggleForeignTaint
  <2> DEFINE v == [old EXCEPT !.taints =
                     IF ForeignTaint \in @ THEN @ \ {ForeignTaint}
                                           ELSE @ \union {ForeignTaint}]
  <2>1. v \in Nodes
    BY <1>0 DEF Nodes, Taints
  <2>2. /\ v.unschedulable = old.unschedulable
        /\ OutOfServiceTaint \in v.taints => OutOfServiceTaint \in old.taints
    BY <1>0 DEF Nodes, OutOfServiceTaint, ForeignTaint
  <2>3. writeNode(v)
    BY <1>13 DEF ToggleForeignTaint
  <2> HIDE DEF v
  <2>4. QED
    BY <1>3, <2>1, <2>2, <2>3
<1>14. CASE ToggleExcludeLabel
  <2> DEFINE v == [old EXCEPT !.excluded = ~@]
  <2>1. /\ v \in Nodes /\ v.unschedulable = old.unschedulable
        /\ v.taints = old.taints
    BY <1>0 DEF Nodes
  <2>2. writeNode(v)
    BY <1>14 DEF ToggleExcludeLabel
  <2> HIDE DEF v
  <2>3. QED
    BY <1>3, <2>1, <2>2
<1>15. CASE DeleteNode
  BY <1>3, <1>15, ObjectTypes DEF DeleteNode, NoNode
<1>16. CASE Manager
  BY <1>16, <1>4, <1>6, <1>7, <1>8, <1>9, <1>10, <1>11 DEF Manager,
     SNRAlreadyDeleted, ConfigurationNotFound, StoppedByNHC, TargetNodeNotFound,
     SkipExcludedNode, Remediate, Begin, NodeNotRebootCapable, AddFinalizer,
     CompletePreReboot, WaitForNodeRebooted, DeletePods,
     WaitForResourceDeletion, WaitForDeletion, RemoveFinalizer,
     UpdateSnrStatusLastError, UpdateSnrStatus, EndReconcile, objects
<1>17. CASE Runtime \/ RestartManager
  BY <1>17, <1>4, <1>5 DEF Runtime, DeliverSNR, TimerFires,
     SetCRsEnabledStatus, objects
<1>18. CASE Environment
  <2>1. CASE \/ SyncUnschedulableTaint \/ ToggleForeignTaint
             \/ ToggleExcludeLabel \/ DeleteNode
    BY <2>1, <1>12, <1>13, <1>14, <1>15
  <2>2. CASE \/ \E strategy \in Strategies, held \in BOOLEAN :
                  CreateSNR(strategy, held)
             \/ DeleteSNR \/ ReleaseSNR \/ TimeOutSNR
    <3>1. UNCHANGED nodes
      BY <2>2 DEF CreateSNR, DeleteSNR, ReleaseSNR, TimeOutSNR, writeSNR
    <3>2. QED
      BY <1>4, <3>1
  <2>3. CASE \/ ToggleCapable \/ ToggleConfig \/ EvictPods \/ CollectPods
             \/ KubeletTerminatesPods \/ SchedulePods \/ Tick
    BY <2>3, <1>4 DEF ToggleCapable, ToggleConfig, EvictPods, CollectPods,
       KubeletTerminatesPods, SchedulePods, ChangeWorkload, Tick, objects
  <2>4. QED
    BY <1>18, <2>1, <2>2, <2>3 DEF Environment
<1>19. QED
  BY <1>4, <1>16, <1>17, <1>18 DEF Next, vars, objects


\* Pods come back only by SchedulePods; running pods are removed at once only
\* by DeletePods.
LEMMA WorkloadStep ==
    ASSUME [Next]_vars
    PROVE  /\ workload = "gone" => workload' = "gone" \/ SchedulePods
           /\ workload = "running" /\ workload' = "gone" => DeletePods
<1> DEFINE goal == /\ workload = "gone" => workload' = "gone" \/ SchedulePods
                   /\ workload = "running" /\ workload' = "gone" => DeletePods
<1>1. CASE UNCHANGED workload
  BY <1>1
<1>2. CASE DeletePods
  BY <1>2 DEF DeletePods
<1>3. CASE Manager
  BY <1>1, <1>2, <1>3 DEF Manager, SNRAlreadyDeleted, ConfigurationNotFound,
     StoppedByNHC, TargetNodeNotFound, SkipExcludedNode, Remediate, Begin,
     NodeNotRebootCapable, AddFinalizer, AddNoExecuteTaint,
     MarkNodeAsUnschedulable, CompletePreReboot, WaitForNodeRebooted,
     AddOutOfServiceTaint, WaitForResourceDeletion, RemoveOutOfServiceTaint,
     WaitForDeletion, MarkNodeAsSchedulable, RemoveNoExecuteTaint,
     RemoveFinalizer, UpdateSnrStatusLastError, UpdateSnrStatus, EndReconcile,
     world
<1>4. CASE Runtime \/ RestartManager
  BY <1>1, <1>4 DEF Runtime, RestartManager, DeliverSNR, DeliverNode,
     TimerFires, SetCRsEnabledStatus, world
<1>5. CASE \/ \E strategy \in Strategies, held \in BOOLEAN :
                CreateSNR(strategy, held)
           \/ DeleteSNR \/ ReleaseSNR \/ TimeOutSNR
           \/ SyncUnschedulableTaint \/ ToggleForeignTaint \/ ToggleExcludeLabel
           \/ DeleteNode \/ ToggleCapable \/ ToggleConfig \/ Tick
  <2>1. UNCHANGED workload
    BY <1>5 DEF CreateSNR, DeleteSNR, ReleaseSNR, TimeOutSNR,
       SyncUnschedulableTaint, ToggleForeignTaint, ToggleExcludeLabel,
       DeleteNode, ToggleCapable, ToggleConfig, Tick, world
  <2>2. QED
    BY <1>1, <2>1
<1>6. CASE EvictPods \/ CollectPods \/ KubeletTerminatesPods \/ SchedulePods
  BY <1>6 DEF EvictPods, CollectPods, KubeletTerminatesPods, SchedulePods,
     ChangeWorkload
<1>7. QED
  BY <1>1, <1>3, <1>4, <1>5, <1>6 DEF Next, Environment, vars, world

\* What the copy claims after a step was claimed before, or is true.
Claimed(s) ==
    \/ /\ Server(snrs).condition = "finished"
       /\ Server(snrs).strategy = s.strategy
    \/ snrFresh /\ snr.condition = "finished" /\ snr.strategy = s.strategy

LEMMA CopyStep ==
    ASSUME SNRStep, [Next]_vars, snrFresh', snr'.condition = "finished"
    PROVE  \/ Claimed(snr')
           \/ DeletePods /\ workload' = "gone"
           \/ /\ RemoveOutOfServiceTaint /\ UNCHANGED workload
              /\ Stateful => workload = "gone"
              /\ snr'.strategy = "OutOfServiceTaint"
<1> DEFINE goal == \/ Claimed(snr')
                   \/ DeletePods /\ workload' = "gone"
                   \/ /\ RemoveOutOfServiceTaint /\ UNCHANGED workload
                      /\ Stateful => workload = "gone"
                      /\ snr'.strategy = "OutOfServiceTaint"
           c == Cached(snrs)
<1>0. /\ snr \in SNRs /\ Server(snrs) \in SNRs /\ c \in SNRs
      /\ Len(snrs) = 1 => c = Server(snrs)
      /\ Typed /\ Typed' /\ snrFresh' = TRUE
  BY SNRFacts DEF SNRStep, Typed
<1>1. CASE UNCHANGED <<snr, snrFresh>>
  BY <1>0, <1>1 DEF Claimed
<1>2. ASSUME NEW f \in BOOLEAN, updateFinalizer(f) PROVE goal
  BY <1>0, <1>2 DEF updateFinalizer, Claimed, SNRs
<1>3. ASSUME NEW s, NEW point, NEW err, Begin(s, point, err),
             s.strategy = c.strategy,
             s.condition = "finished" => c.condition = "finished"
      PROVE  goal
  BY <1>0, <1>3 DEF Begin, Claimed
<1>4. CASE \/ ConfigurationNotFound \/ StoppedByNHC \/ TargetNodeNotFound
           \/ SkipExcludedNode \/ Remediate
  <2>1. \A s \in {[c EXCEPT !.disabled = TRUE], [c EXCEPT !.condition = "failed"],
                  startCondition(c)} :
          /\ s.strategy = c.strategy
          /\ s.condition = "finished" => c.condition = "finished"
    BY <1>0 DEF startCondition, SNRs
  <2>2. QED
    BY <1>3, <1>4, <2>1 DEF ConfigurationNotFound, StoppedByNHC,
       TargetNodeNotFound, SkipExcludedNode, Remediate
<1>5. CASE CompletePreReboot \/ WaitForNodeRebooted
  BY <1>0, <1>1, <1>5 DEF CompletePreReboot, WaitForNodeRebooted, apiError,
     setTimeAssumedRebooted, SNRs, Claimed
<1>6. CASE DeletePods
  BY <1>0, <1>1, <1>6 DEF DeletePods, apiError
<1>7. CASE RemoveOutOfServiceTaint
  <2>1. CASE UNCHANGED snr
    BY <1>1, <1>7, <2>1 DEF RemoveOutOfServiceTaint
  <2>2. CASE snr' = finished(snr)
    <3>1. snr.strategy = "OutOfServiceTaint" /\ snr'.strategy = snr.strategy
      BY <1>0, <1>7, <2>2 DEF SNRStep, SNRInv, LocalSNR, Handlers, finished,
         RemoveOutOfServiceTaint, SNRs
    <3>2. Stateful => workload = "gone"
      BY <1>7 DEF RemoveOutOfServiceTaint, seesDeletionCompleted,
         isResourceDeletionCompleted
    <3>3. QED
      BY <1>7, <3>1, <3>2 DEF RemoveOutOfServiceTaint
  <2>3. QED
    BY <1>7, <2>1, <2>2 DEF RemoveOutOfServiceTaint, apiError
<1>8. CASE AddFinalizer \/ RemoveFinalizer
  BY <1>1, <1>2, <1>8 DEF AddFinalizer, RemoveFinalizer, snrConflict, apiError
<1>9. CASE UpdateSnrStatusLastError
  <2>1. CASE snr' = [Server(snrs) EXCEPT !.lastError = failed]
    BY <1>0, <2>1 DEF Claimed, SNRs
  <2>2. CASE UNCHANGED snrFresh /\ snr' \in {snr, [snr EXCEPT !.lastError = failed]}
    BY <1>0, <2>2 DEF Claimed, SNRs
  <2>3. QED
    BY <1>9, <2>1, <2>2 DEF UpdateSnrStatusLastError
<1>10. CASE \/ SNRAlreadyDeleted \/ NodeNotRebootCapable \/ AddNoExecuteTaint
            \/ MarkNodeAsUnschedulable \/ AddOutOfServiceTaint
            \/ WaitForResourceDeletion \/ WaitForDeletion
            \/ MarkNodeAsSchedulable \/ RemoveNoExecuteTaint \/ UpdateSnrStatus
  BY <1>0, <1>1, <1>10 DEF SNRAlreadyDeleted, NodeNotRebootCapable,
     AddNoExecuteTaint, MarkNodeAsUnschedulable, AddOutOfServiceTaint,
     WaitForResourceDeletion, WaitForDeletion, MarkNodeAsSchedulable,
     RemoveNoExecuteTaint, UpdateSnrStatus, EndReconcile, local
<1>11. CASE Runtime \/ RestartManager
  BY <1>0, <1>1, <1>11 DEF Runtime, RestartManager, DeliverSNR, DeliverNode,
     TimerFires, SetCRsEnabledStatus, local
<1>12. CASE Environment
  <2>1. CASE \/ \E strategy \in Strategies, held \in BOOLEAN :
                  CreateSNR(strategy, held)
             \/ DeleteSNR \/ ReleaseSNR \/ TimeOutSNR
    <3>1. snrFresh' = FALSE
      BY <2>1 DEF CreateSNR, DeleteSNR, ReleaseSNR, TimeOutSNR, writeSNR
    <3>2. QED
      BY <1>0, <3>1
  <2>2. CASE ~\/ \E strategy \in Strategies, held \in BOOLEAN :
                   CreateSNR(strategy, held)
              \/ DeleteSNR \/ ReleaseSNR \/ TimeOutSNR
    BY <1>1, <1>12, <2>2 DEF Environment, SyncUnschedulableTaint,
       ToggleForeignTaint, ToggleExcludeLabel, DeleteNode, writeNode,
       ToggleCapable, ToggleConfig, EvictPods, CollectPods,
       KubeletTerminatesPods, SchedulePods, ChangeWorkload, Tick, local
  <2>3. QED
    BY <2>1, <2>2
<1>13. QED
  BY <1>1, <1>4, <1>5, <1>6, <1>7, <1>8, <1>9, <1>10, <1>11, <1>12
     DEF Next, Manager, vars, local

\* What the SNR claims stays true.
LEMMA SuccessNext == ASSUME NodeStep, Success, [Next]_vars PROVE Success'
<1> DEFINE lasts == /\ Server(nodes').unschedulable => Server(nodes).unschedulable
                    /\ workload = "gone" => workload' = "gone"
<1>0. SNRStep /\ From(Server(snrs'))
  BY DEF NodeStep, History
<1>1. CASE MarkNodeAsUnschedulable
  <2>1. /\ UNCHANGED <<snrs, snr, snrFresh>> /\ pc = "cordon" /\ pc \in Handlers
    BY <1>1 DEF MarkNodeAsUnschedulable, Handlers
  <2>2. /\ snr.phase = FencingStarted /\ SNRShape(snr, now)
        /\ CopyOK(snr, snrs) /\ SNRShape(Server(snrs), now)
        /\ Server(snrs) = snrs[Len(snrs)] /\ Len(snrs) \in 1 .. Len(snrs)
    BY <1>0, <2>1, SNRFacts, VersionsOK DEF SNRStep, SNRInv, LocalSNR
  <2>3. Follows(snr, Server(snrs))
    BY <2>2 DEF CopyOK
  <2>4. snr.condition # "finished" /\ Server(snrs).condition # "finished"
    BY <2>2, <2>3 DEF SNRShape, Follows
  <2>5. QED
    BY <2>1, <2>4 DEF Success, ClaimsSuccess
<1>2. CASE SchedulePods
  BY <1>2 DEF SchedulePods, ChangeWorkload, objects, Success, ClaimsSuccess,
     CleanNode
<1>3. CASE ~MarkNodeAsUnschedulable /\ ~SchedulePods
  <2>1. lasts
    BY <1>3, ServerNodeStep, WorkloadStep
  <2>2. ASSUME NEW s, Claimed(s), Stateful \/ s.strategy = "ResourceDeletion",
               Server(nodes').unschedulable
        PROVE  workload' = "gone"
    BY <2>1, <2>2 DEF Claimed, Success, ClaimsSuccess
  <2>3. ClaimsSuccess(Server(snrs))' => workload' = "gone"
    BY <1>0, <2>2 DEF From, Claimed, ClaimsSuccess
  <2>4. (snrFresh /\ ClaimsSuccess(snr))' => workload' = "gone"
    BY <1>0, <2>2, CopyStep DEF ClaimsSuccess
  <2>5. QED
    BY <2>3, <2>4 DEF Success
<1>4. QED
  BY <1>1, <1>2, <1>3


----------------------------------------------------------------------------
\* The theorems.

LEMMA SafetyInit == Init => SafetyInv
<1> SUFFICES ASSUME Init PROVE SafetyInv
  OBVIOUS
<1>1. /\ Server(snrs) = NoSNR /\ Len(snrs) = 1 /\ snrs[1] = NoSNR
      /\ Server(nodes) = CleanNode /\ Len(nodes) = 1 /\ nodes[1] = CleanNode
      /\ \A i \in 1 .. Len(snrs) : snrs[i] = NoSNR
      /\ \A i \in 1 .. Len(nodes) : nodes[i] = CleanNode
  BY DEF Init, Server
<1>2. /\ pc = "idle" /\ pc \notin Handlers /\ snr = NoSNR /\ ~snrFresh
      /\ node = NoNode /\ ~nodeFresh /\ now = 0
  BY DEF Init, Handlers
<1>3. SNRShape(NoSNR, 0) /\ Follows(NoSNR, NoSNR) /\ ~Guarding(NoSNR)
  BY DEF SNRShape, Follows, Guarding, NoSNR, Exists
<1>4. SNRInv
  BY <1>1, <1>2, <1>3 DEF SNRInv, Shapes, SNROrder, Guards, SNRFreshness,
     LocalSNR
<1>5. /\ Layered(CleanNode) /\ Layered(NoNode) /\ ~isUnschedulable(CleanNode)
      /\ ~Lost(CleanNode, CleanNode) /\ ~Gained(CleanNode, CleanNode)
  BY DEF Layered, CleanNode, NoNode, isUnschedulable, Lost, Gained
<1>6. NodesOK(nodes, snrs)
  <2>1. LayeredWindow(nodes) /\ OutOfServiceWindow(nodes) /\ NonePrepared(nodes)
    BY <1>1, <1>5 DEF LayeredWindow, OutOfServiceWindow, NonePrepared
  <2>2. ~Seen(snrs, Fencing) /\ ~Seen(snrs, {FencingCompleted})
    BY <1>1 DEF Seen, Fencing, NoSNR
  <2>3. QED
    BY <1>1, <2>1, <2>2 DEF NodesOK, CleanNode
<1>7. PreparedStay(nodes)
  BY <1>1, <1>5 DEF PreparedStay
<1>8. NodeInv
  BY <1>2, <1>5, <1>6, <1>7, NodeInvParts DEF NodeParts
<1>9. Success
  BY <1>1, <1>2 DEF Success, ClaimsSuccess, NoSNR
<1>10. QED
  BY <1>4, <1>8, <1>9 DEF SafetyInv

\* One step from a state of the invariant.
LEMMA SafetyStep ==
    ASSUME Typed, SafetyInv, [Next]_vars
    PROVE  NodeStep /\ Typed' /\ SafetyInv'
<1>1. SNRStep /\ SNRInv'
  BY SNRNext DEF SafetyInv
<1>2. NodeParts
  BY NodeInvParts DEF SafetyInv
<1>3. NodeStep /\ NodeParts'
  BY <1>2, NodeNext DEF SafetyInv
<1>4. (NodeInv <=> NodeParts)'
  BY NodeInvParts, PTL
<1>5. Success'
  BY <1>3, SuccessNext DEF SafetyInv
<1>6. QED
  BY <1>1, <1>3, <1>4, <1>5 DEF SafetyInv, SNRStep

\* SafetyInv holds in every state that Remediation reaches: whatever versions
\* the reconciler reads, and whatever fails between two of its calls.
THEOREM SafetyInvHolds == Spec => []SafetyInv
<1>1. Init => Typed /\ SafetyInv
  BY SafetyInit, TypedInit
<1>2. Typed /\ SafetyInv /\ [Next]_vars => (Typed /\ SafetyInv)'
  BY SafetyStep
<1>3. QED
  BY <1>1, <1>2, PTL DEF Spec

\* The node carries marks of the manager only while the server's SNR carries
\* the finalizer (prepareReboot adds the finalizer first, recoverNode removes
\* it last).
THEOREM MarksNeedFinalizer == Spec => []FinalizerGuardsNode
<1>1. SafetyInv => FinalizerGuardsNode
  BY DEF SafetyInv, NodeInv
<1>2. QED
  BY <1>1, SafetyInvHolds, PTL

\* A Succeeded condition that the manager stored is true until the node is
\* schedulable again.
THEOREM SuccessIsReal == Spec => []SuccessMeansWorkloadGone
<1>1. SafetyInv => SuccessMeansWorkloadGone
  BY DEF SafetyInv, Success, ClaimsSuccess, SuccessMeansWorkloadGone
<1>2. QED
  BY <1>1, SafetyInvHolds, PTL

\* What a copy in Reboot-Completed says about the server's objects.
LEMMA RebootCompletedIsFenced ==
    ASSUME NodeStep, pc \in Handlers, snr.phase = RebootCompleted
    PROVE  NodeIsFenced
<1>1. /\ SNRShape(snr, now) /\ CopyOK(snr, snrs) /\ snr \in SNRs /\ now \in Nat
      /\ Server(snrs) = snrs[Len(snrs)] /\ Len(snrs) \in 1 .. Len(snrs)
  BY SNRFacts, VersionsOK DEF NodeStep, SNRStep
<1>2. Follows(snr, Server(snrs))
  BY <1>1 DEF CopyOK
<1>3. /\ Server(snrs).timeAssumedRebooted = snr.timeAssumedRebooted
      /\ snr.timeAssumedRebooted # NoTime /\ snr.timeAssumedRebooted <= now
  BY <1>1, <1>2 DEF Follows, SNRShape
<1>4. AllMarked(nodes)
  BY DEF NodeStep, NodeParts, HandlerOK, Fencing
<1>5. Marked(Server(nodes))
  BY <1>4, NodeFacts, ServerNode
<1>6. QED
  BY <1>1, <1>3, <1>5 DEF NodeIsFenced, Marked, Cordoned, SNRs

\* Pods are deleted and the out-of-service taint is added only after the time
\* the server's SNR announces and on a node that is cordoned and tainted,
\* although DeletePods and AddOutOfServiceTaint look at old copies only.
THEOREM FencedBeforeRemoval == Spec => RemovalOnlyWhenFenced
<1>1. Init => Typed /\ SafetyInv
  BY SafetyInit, TypedInit
<1>2. Typed /\ SafetyInv /\ [Next]_vars => (Typed /\ SafetyInv)'
  BY SafetyStep
<1>3. Typed /\ SafetyInv /\ [Next]_vars => (ResourcesRemoved => NodeIsFenced)
  <2> SUFFICES ASSUME Typed, SafetyInv, [Next]_vars, ResourcesRemoved
               PROVE  NodeIsFenced
    OBVIOUS
  <2>1. NodeStep
    BY SafetyStep
  <2>2. DeletePods \/ AddOutOfServiceTaint
    BY <2>1, ServerNodeStep, WorkloadStep DEF ResourcesRemoved
  <2>3. pc \in Handlers /\ snr.phase = RebootCompleted
    BY <2>2 DEF DeletePods, AddOutOfServiceTaint, removing, Handlers
  <2>4. QED
    BY <2>1, <2>3, RebootCompletedIsFenced
<1>4. QED
  BY <1>1, <1>2, <1>3, PTL DEF Spec, RemovalOnlyWhenFenced

============================================================================
