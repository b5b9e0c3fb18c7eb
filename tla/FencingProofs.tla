--------------------------- MODULE FencingProofs ----------------------------
(***************************************************************************)
(* Proofs about Fencing.                                                   *)
(***************************************************************************)
EXTENDS Fencing, BatchesProofs

----------------------------------------------------------------------------
\* The inductive invariants.

\* After its reconciler reset the machine, an agent finds itself rebooted as
\* long as the SNR is there.
LoopInv ==
    /\ resets \in 0 .. 1
    /\ resets = 1 => ~(machine = "expiring" /\ cause = "reconcile")
    /\ resets = 1 /\ snr.exists
         => IF machine = "down" THEN resetIn > 0 \/ ~snr.fresh ELSE rebooted

\* What the phases and the history of a remediation tell.
HistoryInv ==
    /\ snr.phase # FencingStarted => snr.finalizer /\ getNodeFromSnr
    /\ removed => snr.phase = FencingCompleted
    /\ machine = "expiring" => resetIn <= WatchdogTimeout
    /\ machine = "down" => agent = "off"
    /\ agent = "ask" => errorCount = settings.MaxApiErrorThreshold
    /\ snr.exists /\ ~stopped
         => /\ machine # "down"
            /\ ~rebooted
            /\ machine = "up" => agent # "off" \/ interrupted

\* What ends the manager's obligation to wait, and a remediation that is to
\* wait for the node.
fenced == stopped \/ interrupted \/ snr.deleted
waiting == snr.phase = PreRebootCompleted /\ ~fenced

\* The time that failed checks take before the one after which an agent that
\* has counted e errors asks its peers.
otherChecks(c, e) ==
    (AtLeast(1, c.MaxApiErrorThreshold - e) - 1) * apiCheckDuration(c)

\* The time left to a remediation is longer than what the node still needs
\* until it is reset: when its device expires,
ExpiringInv ==
    waiting /\ machine = "expiring" => snr.timeLeft > resetIn

\* while its agent could see the SNR, and may lose the API server before,
OnlineInv ==
    waiting /\ machine = "up" /\ api
      => snr.timeLeft > seeIn + detectDuration(settings) + WatchdogTimeout

\* and while its agent has no API server.  The peers are asked in time and,
\* as long as their silence is tolerated, there is time for another check and
\* another round when it is not tolerated any more.
OfflineInv ==
    waiting /\ machine = "up" /\ ~api
      => /\ agent = "wait"
              => snr.timeLeft > left + settings.ApiServerTimeout
                                  + otherChecks(settings, errorCount)
                                  + roundDuration(settings) + WatchdogTimeout
         /\ agent = "check"
              => snr.timeLeft > left + otherChecks(settings, errorCount)
                                  + roundDuration(settings) + WatchdogTimeout
         /\ agent = "ask" => snr.timeLeft > left + WatchdogTimeout
         /\ silence <= MaxTimeForNoPeersResponse
              => snr.timeLeft + silence
                   > MaxTimeForNoPeersResponse + apiCheckDuration(settings)
                       + roundDuration(settings) + WatchdogTimeout

\* No remediation goes on before the node is fenced.
FencedInv == snr.phase \in {RebootCompleted, FencingCompleted} => fenced

TimeInv == ExpiringInv /\ OnlineInv /\ OfflineInv /\ FencedInv

----------------------------------------------------------------------------
\* The durations.

\* The fields of a configuration are numbers.
LEMMA ConfigFacts ==
    ASSUME NEW c \in Configs
    PROVE  /\ c.MaxApiErrorThreshold \in Nat \ {0}
           /\ c.ApiCheckInterval \in Nat \ {0}
           /\ c.ApiServerTimeout \in Nat
           /\ c.PeerDialTimeout \in Nat
           /\ c.PeerRequestTimeout \in Nat
           /\ c.safeTime \in Nat
  BY ConfigsAssumption DEF ConfigSpecs

\* A product of numbers is a number.
LEMMA ProductType ==
    ASSUME NEW m \in Nat, NEW n \in Nat
    PROVE  m * n \in Nat
  OBVIOUS

\* The larger of two numbers is one.
LEMMA AtLeastFacts ==
    ASSUME NEW m \in Nat, NEW n \in Nat
    PROVE  AtLeast(m, n) \in Nat /\ AtLeast(m, n) >= m /\ AtLeast(m, n) >= n
  BY DEF AtLeast

\* The number of batches is one, of the peers and of all worker nodes.
LEMMA NrOfBatchesType ==
    GetNrOfBatches(Workers - 1) \in Nat /\ GetNrOfBatches(Workers) \in Nat
<1>1. Workers - 1 \in Nat /\ Workers \in Nat
  BY TimesAssumption
<1>2. ASSUME NEW n \in Nat PROVE GetNrOfBatches(n) \in Nat
  <2>1. n \in 0 .. n
    OBVIOUS
  <2>2. QED
    BY <2>1, NrOfBatchesFacts
<1>3. QED
  BY <1>1, <1>2

\* What a node needs, and what the manager waits for, are numbers.
LEMMA DurationFacts ==
    ASSUME NEW c \in Configs
    PROVE  /\ apiCheckDuration(c) \in Nat
           /\ roundDuration(c) \in Nat
           /\ c.MaxApiErrorThreshold * apiCheckDuration(c) \in Nat
           /\ detectDuration(c) \in Nat
           /\ \A a \in [capable : BOOLEAN, hasTimeout : BOOLEAN,
                        timeout : {0}] : GetRebootDuration(c, a) \in Nat
<1> DEFINE d == apiCheckDuration(c)
           p == peerRequestDuration(c)
           t == c.MaxApiErrorThreshold
           all == GetNrOfBatches(Workers)
<1>1. d \in Nat /\ p \in Nat /\ t \in Nat
  BY ConfigFacts DEF apiCheckDuration, peerRequestDuration
<1> HIDE DEF d, p, t
<1>2. t * d \in Nat
  BY <1>1
<1>3. roundDuration(c) \in Nat
  BY <1>1, NrOfBatchesType, ProductType DEF roundDuration, p
<1>4. MaxTimeForNoPeersResponse \in Nat
  BY TimesAssumption DEF MaxTimeForNoPeersResponse
<1>5. detectDuration(c) \in Nat
  <2>1. MaxTimeForNoPeersResponse + d \in Nat
    BY <1>1, <1>4
  <2>2. AtLeast(MaxTimeForNoPeersResponse + d, t * d) \in Nat
    BY <1>2, <2>1, AtLeastFacts
  <2>3. detectDuration(c)
          = AtLeast(MaxTimeForNoPeersResponse + d, t * d) + roundDuration(c)
    BY DEF detectDuration, d, t
  <2>4. QED
    BY <1>3, <2>2, <2>3
<1>6. ASSUME NEW a \in [capable : BOOLEAN, hasTimeout : BOOLEAN,
                        timeout : {0}]
      PROVE  GetRebootDuration(c, a) \in Nat
  <2>1. all * p \in Nat
    BY <1>1, NrOfBatchesType, ProductType
  <2>2. AtLeast(MaxTimeForNoPeersResponse, all * p) \in Nat
    BY <1>4, <2>1, AtLeastFacts
  <2>3. watchdogTimeout(a) \in Nat /\ rebootBuffer \in Nat
    BY TimesAssumption
       DEF watchdogTimeout, rebootBuffer, defaultWatchdogTimeout
  <2>4. calculateMinimumRebootDuration(c, a)
          = t * d + AtLeast(MaxTimeForNoPeersResponse, all * p)
              + watchdogTimeout(a) + rebootBuffer
    BY DEF calculateMinimumRebootDuration, calcNumOfBatches, all, d, p, t
  <2>5. calculateMinimumRebootDuration(c, a) \in Nat
    BY <1>2, <2>2, <2>3, <2>4
  <2>6. c.safeTime \in Nat
    BY ConfigFacts
  <2>7. QED
    BY <2>5, <2>6, AtLeastFacts DEF GetRebootDuration
<1>7. QED
  BY <1>1, <1>2, <1>3, <1>5, <1>6 DEF d, t

----------------------------------------------------------------------------
\* The type invariant.

\* NoSNR is one of the values of snr.
LEMMA NoSNRType == NoSNR \in SNRs
  BY DEF NoSNR, SNRs, SNRIdentities, NodeNames, None, FencingStarted,
         FencingCompleted

\* A step keeps the types.
LEMMA TypeKept ==
    ASSUME TypeOK, [Next]_vars
    PROVE  TypeOK'
<1> USE DEF manager, node, network, check, process, history
<1>0. /\ settings.ApiCheckInterval \in Nat /\ settings.ApiServerTimeout \in Nat
      /\ settings.MaxApiErrorThreshold \in Nat
      /\ roundDuration(settings) \in Nat /\ left \in Nat
      /\ MaxTimeForNoPeersResponse \in Nat
  <2>1. settings \in Configs
    BY DEF TypeOK
  <2>2. /\ settings.ApiCheckInterval \in Nat /\ settings.ApiServerTimeout \in Nat
        /\ settings.MaxApiErrorThreshold \in Nat
        /\ roundDuration(settings) \in Nat
    BY <2>1, ConfigFacts, DurationFacts
  <2>3. MaxTimeForNoPeersResponse \in Nat
    BY TimesAssumption DEF MaxTimeForNoPeersResponse
  <2>4. left \in Nat
    BY <2>2 DEF TypeOK
  <2>5. QED
    BY <2>2, <2>3, <2>4
<1>28. ASSUME ProcessGone, settings'.MaxApiErrorThreshold \in Nat
       PROVE  /\ agent' = "off"
              /\ left' = 0
              /\ errorCount' \in 0 .. settings'.MaxApiErrorThreshold
              /\ silence' \in 0 .. MaxTimeForNoPeersResponse + 1
              /\ seeIn' \in 0 .. AgentLag
  BY <1>0, <1>28, TimesAssumption DEF ProcessGone
<1>1. CASE CreateSNR
  <2>1. snr' \in SNRs
    <3>1. PICK id \in Identities :
            snr' = [NoSNR EXCEPT !.exists = TRUE, !.identity = id, !.fresh = TRUE]
      BY <1>1 DEF CreateSNR
    <3>2. id \in SNRIdentities
      BY IdentitiesAssumption
    <3>3. QED
      BY <3>1, <3>2, NoSNRType DEF SNRs
  <2>2. /\ UNCHANGED <<stored, annotation, configured, config, machine, resetIn,
                       api, peers, agent, settings, left, errorCount, silence,
                       seeIn, cause>>
        /\ rebooted' = FALSE /\ resets' = 0 /\ removed' = FALSE
        /\ stopped' \in BOOLEAN /\ interrupted' \in BOOLEAN
    BY <1>1 DEF CreateSNR
  <2>3. QED
    BY <2>1, <2>2 DEF TypeOK
<1>2. CASE DeleteSNR
  <2>1. snr' \in SNRs
    BY <1>2, NoSNRType DEF DeleteSNR, SNRs, TypeOK
  <2>2. QED
    BY <1>0, <1>2, <2>1 DEF TypeOK, DeleteSNR
<1>3. CASE AddFinalizer
  <2>1. snr' \in SNRs
    BY <1>3 DEF AddFinalizer, SNRs, TypeOK
  <2>2. QED
    BY <1>0, <1>3, <2>1 DEF TypeOK, AddFinalizer
<1>4. CASE CompletePreReboot
  <2>1. snr' \in SNRs
    <3>1. GetRebootDuration(config, annotation) \in Nat
      BY DurationFacts DEF TypeOK
    <3>2. QED
      <4> DEFINE d == GetRebootDuration(config, annotation)
      <4>1. /\ snr' = [snr EXCEPT !.phase = 1, !.timeLeft = d]
            /\ snr \in SNRs /\ d \in Nat
        BY <1>4, <3>1 DEF CompletePreReboot, TypeOK, PreRebootCompleted
      <4> HIDE DEF d
      <4>2. 1 \in FencingStarted .. FencingCompleted
        BY DEF FencingStarted, FencingCompleted
      <4>3. QED
        BY <4>1, <4>2 DEF SNRs
  <2>2. QED
    BY <1>0, <1>4, <2>1, TimesAssumption DEF TypeOK, CompletePreReboot
<1>5. CASE AssumeRebooted
  <2>1. snr' \in SNRs
    BY <1>5
       DEF AssumeRebooted, SNRs, TypeOK, FencingStarted, FencingCompleted,
           RebootCompleted
  <2>2. QED
    BY <1>0, <1>5, <2>1 DEF TypeOK, AssumeRebooted
<1>6. CASE RemoveResources
  <2>1. snr' \in SNRs
    BY <1>6 DEF RemoveResources, SNRs, TypeOK, FencingStarted, FencingCompleted
  <2>2. QED
    BY <1>0, <1>6, <2>1 DEF TypeOK, RemoveResources
<1>7. CASE RecoverNode
  <2>1. snr' \in SNRs
    BY <1>7, NoSNRType DEF RecoverNode
  <2>3. removed' \in BOOLEAN
    BY <1>7 DEF RecoverNode
  <2>2. QED
    BY <1>7, <2>1, <2>3 DEF TypeOK, RecoverNode
<1>8. CASE ChangeConfig
  BY <1>0, <1>8 DEF TypeOK, ChangeConfig
<1>9. CASE SetConfig
  BY <1>0, <1>9 DEF TypeOK, SetConfig
<1>10. CASE RestartManager
  <2>1. configured' \in BOOLEAN
    BY <1>10 DEF RestartManager
  <2>2. QED
    BY <1>10, <2>1 DEF TypeOK, RestartManager
<1>11. CASE ReconcileAgent
  BY <1>0, <1>11, TimesAssumption DEF TypeOK, ReconcileAgent, Reboot
<1>12. CASE StartAgent
  BY <1>0, <1>12, TimesAssumption, EnvAssumption
     DEF TypeOK, StartAgent, UpdateNodeAnnotations, GetTimeout
<1>13. CASE CrashAgent
  <2>1. /\ machine' \in {"up", "expiring", "down"} /\ resetIn' \in Nat
        /\ cause' \in {None, "reconcile", "check", "crash"}
        /\ interrupted' \in BOOLEAN
    BY <1>13, TimesAssumption DEF CrashAgent, Reboot, TypeOK
  <2>2. QED
    BY <1>0, <1>13, <1>28, <2>1 DEF TypeOK, CrashAgent
<1>14. CASE StopPod
  <2>1. settings' \in Configs /\ interrupted' \in BOOLEAN
    BY <1>14 DEF TypeOK, StopPod
  <2>2. settings'.MaxApiErrorThreshold \in Nat
    BY <2>1, ConfigFacts
  <2>3. QED
    BY <1>14, <1>28, <2>1, <2>2 DEF TypeOK, StopPod
<1>15. CASE StartCheck
  BY <1>0, <1>15 DEF TypeOK, StartCheck
<1>16. CASE CheckSucceeds
  BY <1>0, <1>16 DEF TypeOK, CheckSucceeds, WaitForInterval
<1>17. CASE CheckFails
  BY <1>0, <1>17 DEF TypeOK, CheckFails, WaitForInterval, AtMost
<1>18. CASE PeerAnswers
  BY <1>0, <1>18, TimesAssumption DEF TypeOK, PeerAnswers, WaitForInterval, Reboot
<1>19. CASE PeersAreSilent
  BY <1>0, <1>19, TimesAssumption DEF TypeOK, PeersAreSilent, WaitForInterval, Reboot
<1>20. CASE ResetMachine
  <2>1. /\ machine' = "down" /\ resetIn' \in Nat /\ cause' = None
        /\ resets' \in Nat /\ stopped' \in BOOLEAN
    BY <1>20 DEF ResetMachine, GoDown, TypeOK
  <2>2. QED
    BY <1>0, <1>20, <1>28, <2>1 DEF TypeOK, ResetMachine, GoDown
<1>21. CASE FailMachine
  <2>1. /\ machine' = "down" /\ resetIn' \in Nat /\ cause' = None
        /\ stopped' \in BOOLEAN
    BY <1>21 DEF FailMachine, GoDown
  <2>2. QED
    BY <1>0, <1>21, <1>28, <2>1 DEF TypeOK, FailMachine, GoDown
<1>22. CASE Boot
  BY <1>0, <1>22 DEF TypeOK, Boot
<1>23. CASE ChangeApi
  BY <1>0, <1>23 DEF TypeOK, ChangeApi
<1>24. CASE ChangePeers
  BY <1>0, <1>24 DEF TypeOK, ChangePeers
<1>25. CASE Tick
  <2>1. snr' \in SNRs
    <3>1. Less(snr.timeLeft) \in Nat /\ snr \in SNRs
      BY DEF Less, TypeOK, SNRs
    <3>2. snr' = [snr EXCEPT !.timeLeft = Less(snr.timeLeft), !.fresh = FALSE]
      BY <1>25 DEF Tick
    <3>3. QED
      BY <3>1, <3>2 DEF SNRs
  <2>2. QED
    <3>1. /\ left' \in Nat /\ left' <= left
          /\ resetIn' \in Nat /\ seeIn' \in 0 .. AgentLag
          /\ silence' \in 0 .. MaxTimeForNoPeersResponse + 1
      BY <1>0, <1>25, TimesAssumption DEF TypeOK, Tick, Less, AtMost
    <3>2. /\ agent = "off" => left' = 0
          /\ agent = "wait" => left' <= settings.ApiCheckInterval
          /\ agent = "check" => left' <= settings.ApiServerTimeout
          /\ agent = "ask" => left' <= roundDuration(settings)
      BY <1>0, <3>1 DEF TypeOK
    <3>3. QED
      BY <1>0, <1>25, <2>1, <3>1, <3>2 DEF TypeOK, Tick
<1>26. CASE UNCHANGED vars
  BY <1>26 DEF TypeOK, vars
<1>27. QED
  BY <1>1, <1>2, <1>3, <1>4, <1>5, <1>6, <1>7, <1>8, <1>9, <1>10, <1>11, <1>12, <1>13,
      <1>14, <1>15, <1>16, <1>17, <1>18, <1>19, <1>20, <1>21, <1>22, <1>23, <1>24,
      <1>25, <1>26 DEF Next, Manager, Agent, Machine, Environment

----------------------------------------------------------------------------
\* Reboots for one SNR.

\* A step keeps the invariant of the resets.
LEMMA LoopKept ==
    ASSUME TypeOK, LoopInv, HistoryInv, [Next]_vars
    PROVE  LoopInv'
<1> USE DEF manager, node, network, check, process, history
<1>0. snr \in SNRs
  BY DEF TypeOK
<1>1. CASE CreateSNR
  BY <1>0, <1>1 DEF LoopInv, SNRs, CreateSNR, NoSNR
<1>2. CASE DeleteSNR
  BY <1>0, <1>2 DEF LoopInv, SNRs, DeleteSNR, NoSNR
<1>3. CASE AddFinalizer
  BY <1>0, <1>3 DEF LoopInv, SNRs, AddFinalizer
<1>4. CASE CompletePreReboot
  BY <1>0, <1>4 DEF LoopInv, SNRs, CompletePreReboot
<1>5. CASE AssumeRebooted
  BY <1>0, <1>5 DEF LoopInv, SNRs, AssumeRebooted
<1>6. CASE RemoveResources
  BY <1>0, <1>6 DEF LoopInv, SNRs, RemoveResources
<1>7. CASE RecoverNode
  BY <1>0, <1>7 DEF LoopInv, SNRs, RecoverNode, NoSNR
<1>8. CASE ChangeConfig
  BY <1>0, <1>8 DEF LoopInv, SNRs, ChangeConfig
<1>9. CASE SetConfig
  BY <1>0, <1>9 DEF LoopInv, SNRs, SetConfig
<1>10. CASE RestartManager
  BY <1>0, <1>10 DEF LoopInv, SNRs, RestartManager
<1>11. CASE ReconcileAgent
  BY <1>0, <1>11
     DEF LoopInv, SNRs, ReconcileAgent, Reboot, rebootIfNeeded, didIRebootMyself, TypeOK
<1>12. CASE StartAgent
  BY <1>0, <1>12 DEF LoopInv, SNRs, StartAgent, UpdateNodeAnnotations, GetTimeout
<1>13. CASE CrashAgent
  BY <1>0, <1>13 DEF LoopInv, HistoryInv, SNRs, CrashAgent, ProcessGone, Reboot
<1>14. CASE StopPod
  BY <1>0, <1>14 DEF LoopInv, SNRs, StopPod, ProcessGone
<1>15. CASE StartCheck
  BY <1>0, <1>15 DEF LoopInv, SNRs, StartCheck
<1>16. CASE CheckSucceeds
  BY <1>0, <1>16 DEF LoopInv, SNRs, CheckSucceeds, WaitForInterval
<1>17. CASE CheckFails
  BY <1>0, <1>17 DEF LoopInv, SNRs, CheckFails, WaitForInterval, AtMost
<1>18. CASE PeerAnswers
  BY <1>0, <1>18 DEF LoopInv, HistoryInv, SNRs, PeerAnswers, WaitForInterval, Reboot
<1>19. CASE PeersAreSilent
  BY <1>0, <1>19 DEF LoopInv, HistoryInv, SNRs, PeersAreSilent, WaitForInterval, Reboot
<1>20. CASE ResetMachine
  BY <1>0, <1>20 DEF LoopInv, SNRs, ResetMachine, GoDown, ProcessGone, TypeOK
<1>21. CASE FailMachine
  BY <1>0, <1>21 DEF LoopInv, SNRs, FailMachine, GoDown, ProcessGone
<1>22. CASE Boot
  BY <1>0, <1>22 DEF LoopInv, SNRs, Boot, TypeOK
<1>23. CASE ChangeApi
  BY <1>0, <1>23 DEF LoopInv, SNRs, ChangeApi
<1>24. CASE ChangePeers
  BY <1>0, <1>24 DEF LoopInv, SNRs, ChangePeers
<1>25. CASE Tick
  BY <1>0, <1>25 DEF LoopInv, SNRs, Tick, Less, AtMost, TypeOK
<1>26. CASE UNCHANGED vars
  BY <1>26 DEF LoopInv, vars
<1>27. QED
  BY <1>1, <1>2, <1>3, <1>4, <1>5, <1>6, <1>7, <1>8, <1>9, <1>10, <1>11, <1>12, <1>13,
      <1>14, <1>15, <1>16, <1>17, <1>18, <1>19, <1>20, <1>21, <1>22, <1>23, <1>24,
      <1>25, <1>26 DEF Next, Manager, Agent, Machine, Environment

----------------------------------------------------------------------------
\* The phases and the history.

\* A step keeps the invariant of the history.
LEMMA HistoryKept ==
    ASSUME TypeOK, HistoryInv, [Next]_vars
    PROVE  HistoryInv'
<1> USE DEF manager, node, network, check, process, history,
            FencingStarted, PreRebootCompleted, RebootCompleted,
            FencingCompleted
<1>0. snr \in SNRs
  BY DEF TypeOK
<1>1. CASE CreateSNR
  BY <1>0, <1>1 DEF HistoryInv, getNodeFromSnr, SNRs, CreateSNR, NoSNR
<1>2. CASE DeleteSNR
  BY <1>0, <1>2 DEF HistoryInv, getNodeFromSnr, SNRs, DeleteSNR, NoSNR
<1>3. CASE AddFinalizer
  BY <1>0, <1>3 DEF HistoryInv, getNodeFromSnr, SNRs, AddFinalizer
<1>4. CASE CompletePreReboot
  BY <1>0, <1>4 DEF HistoryInv, getNodeFromSnr, SNRs, CompletePreReboot
<1>5. CASE AssumeRebooted
  BY <1>0, <1>5 DEF HistoryInv, getNodeFromSnr, SNRs, AssumeRebooted
<1>6. CASE RemoveResources
  BY <1>0, <1>6 DEF HistoryInv, getNodeFromSnr, SNRs, RemoveResources
<1>7. CASE RecoverNode
  BY <1>0, <1>7 DEF HistoryInv, getNodeFromSnr, SNRs, RecoverNode, NoSNR
<1>8. CASE ChangeConfig
  BY <1>0, <1>8 DEF HistoryInv, getNodeFromSnr, SNRs, ChangeConfig
<1>9. CASE SetConfig
  BY <1>0, <1>9 DEF HistoryInv, getNodeFromSnr, SNRs, SetConfig
<1>10. CASE RestartManager
  BY <1>0, <1>10 DEF HistoryInv, getNodeFromSnr, SNRs, RestartManager
<1>11. CASE ReconcileAgent
  BY <1>0, <1>11, TimesAssumption
     DEF HistoryInv, getNodeFromSnr, SNRs, ReconcileAgent, Reboot, TypeOK
<1>12. CASE StartAgent
  BY <1>0, <1>12, TimesAssumption
     DEF HistoryInv, getNodeFromSnr, SNRs, StartAgent, UpdateNodeAnnotations,
         GetTimeout, TypeOK
<1>13. CASE CrashAgent
  BY <1>0, <1>13, TimesAssumption
     DEF HistoryInv, getNodeFromSnr, SNRs, CrashAgent, ProcessGone, Reboot, TypeOK
<1>14. CASE StopPod
  BY <1>0, <1>14 DEF HistoryInv, getNodeFromSnr, SNRs, StopPod, ProcessGone, TypeOK
<1>15. CASE StartCheck
  BY <1>0, <1>15 DEF HistoryInv, getNodeFromSnr, SNRs, StartCheck
<1>16. CASE CheckSucceeds
  BY <1>0, <1>16 DEF HistoryInv, getNodeFromSnr, SNRs, CheckSucceeds, WaitForInterval
<1>17. CASE CheckFails
  BY <1>0, <1>17, ConfigFacts
     DEF HistoryInv, getNodeFromSnr, SNRs, CheckFails, WaitForInterval, AtMost, TypeOK,
         asks
<1>18. CASE PeerAnswers
  BY <1>0, <1>18, TimesAssumption
     DEF HistoryInv, getNodeFromSnr, SNRs, PeerAnswers, WaitForInterval, Reboot, TypeOK
<1>19. CASE PeersAreSilent
  BY <1>0, <1>19, TimesAssumption
     DEF HistoryInv, getNodeFromSnr, SNRs, PeersAreSilent, WaitForInterval, Reboot,
         TypeOK
<1>20. CASE ResetMachine
  BY <1>0, <1>20 DEF HistoryInv, getNodeFromSnr, SNRs, ResetMachine, GoDown, ProcessGone
<1>21. CASE FailMachine
  BY <1>0, <1>21 DEF HistoryInv, getNodeFromSnr, SNRs, FailMachine, GoDown, ProcessGone
<1>22. CASE Boot
  BY <1>0, <1>22 DEF HistoryInv, getNodeFromSnr, SNRs, Boot
<1>23. CASE ChangeApi
  BY <1>0, <1>23 DEF HistoryInv, getNodeFromSnr, SNRs, ChangeApi
<1>24. CASE ChangePeers
  BY <1>0, <1>24 DEF HistoryInv, getNodeFromSnr, SNRs, ChangePeers
<1>25. CASE Tick
  BY <1>0, <1>25, TimesAssumption
     DEF HistoryInv, getNodeFromSnr, SNRs, Tick, Less, AtMost, TypeOK
<1>26. CASE UNCHANGED vars
  BY <1>26 DEF HistoryInv, getNodeFromSnr, vars
<1>27. QED
  BY <1>1, <1>2, <1>3, <1>4, <1>5, <1>6, <1>7, <1>8, <1>9, <1>10, <1>11, <1>12, <1>13,
      <1>14, <1>15, <1>16, <1>17, <1>18, <1>19, <1>20, <1>21, <1>22, <1>23, <1>24,
      <1>25, <1>26 DEF Next, Manager, Agent, Machine, Environment

----------------------------------------------------------------------------
\* The time.

\* An error more is a check less, until the peers are asked; all checks are
\* as many as the threshold.
LEMMA ChecksFacts ==
    ASSUME NEW c \in Configs, NEW e \in 0 .. c.MaxApiErrorThreshold
    PROVE  /\ otherChecks(c, e) \in Nat
           /\ otherChecks(c, e) + apiCheckDuration(c)
                <= c.MaxApiErrorThreshold * apiCheckDuration(c)
           /\ e + 1 >= c.MaxApiErrorThreshold => otherChecks(c, e) = 0
           /\ e + 1 < c.MaxApiErrorThreshold
                => otherChecks(c, e)
                     = otherChecks(c, e + 1) + apiCheckDuration(c)
<1> DEFINE d == apiCheckDuration(c)
           t == c.MaxApiErrorThreshold
<1>1. d \in Nat /\ t \in Nat /\ t >= 1 /\ e \in Nat /\ e <= t
  BY ConfigFacts, DurationFacts
<1>2. ASSUME NEW n \in 0 .. t
      PROVE  otherChecks(c, n) = (AtLeast(1, t - n) - 1) * d
  BY DEF otherChecks
<1> HIDE DEF d, t
<1>3. CASE e + 1 >= t
  <2>1. AtLeast(1, t - e) - 1 = 0
    BY <1>1, <1>3 DEF AtLeast
  <2>2. otherChecks(c, e) = 0
    BY <1>1, <1>2, <2>1
  <2>3. d <= t * d
    BY <1>1
  <2>4. QED
    BY <1>1, <1>3, <2>2, <2>3 DEF d, t
<1>4. CASE e + 1 < t
  <2>1. PICK k \in Nat : t = e + 2 + k
    <3>1. t - e - 2 \in Nat /\ t = e + 2 + (t - e - 2)
      BY <1>1, <1>4
    <3>2. QED
      BY <3>1
  <2>2. AtLeast(1, t - e) - 1 = k + 1 /\ AtLeast(1, t - (e + 1)) - 1 = k
    BY <1>1, <2>1 DEF AtLeast
  <2>3. otherChecks(c, e) = (k + 1) * d
    BY <1>1, <1>2, <2>2
  <2>4. otherChecks(c, e + 1) = k * d
    BY <1>1, <1>2, <1>4, <2>2
  <2>5. (k + 1) * d = k * d + d /\ k * d \in Nat
    BY <1>1
  <2>6. t * d = (k + 1) * d + (e + 1) * d /\ d <= (e + 1) * d
    BY <1>1, <2>1
  <2>7. (e + 1) * d \in Nat
    BY <1>1
  <2>8. QED
    BY <1>1, <1>4, <2>3, <2>4, <2>5, <2>6, <2>7 DEF d, t
<1>5. QED
  BY <1>1, <1>3, <1>4

\* The types of the quantities that the clock relates.
LEMMA TimeTypes ==
    ASSUME TypeOK
    PROVE  /\ snr \in SNRs /\ snr.timeLeft \in Nat
           /\ left \in Nat /\ resetIn \in Nat /\ seeIn \in Nat
           /\ silence \in Nat
           /\ errorCount \in 0 .. settings.MaxApiErrorThreshold
           /\ settings.MaxApiErrorThreshold \in Nat
           /\ settings.ApiServerTimeout \in Nat
           /\ settings.ApiCheckInterval \in Nat
           /\ apiCheckDuration(settings)
                = settings.ApiCheckInterval + settings.ApiServerTimeout
           /\ roundDuration(settings) \in Nat
           /\ detectDuration(settings) \in Nat
           /\ otherChecks(settings, errorCount) \in Nat
           /\ MaxTimeForNoPeersResponse \in Nat /\ WatchdogTimeout \in Nat
           /\ AgentLag \in Nat
           /\ agent = "wait" => left <= settings.ApiCheckInterval
           /\ agent = "check" => left <= settings.ApiServerTimeout
           /\ agent = "ask" => left <= roundDuration(settings)
<1>1. settings \in Configs
  BY DEF TypeOK
<1>2. /\ settings.MaxApiErrorThreshold \in Nat
      /\ settings.ApiServerTimeout \in Nat
      /\ settings.ApiCheckInterval \in Nat
      /\ apiCheckDuration(settings)
           = settings.ApiCheckInterval + settings.ApiServerTimeout
  BY <1>1, ConfigFacts DEF apiCheckDuration
<1>3. roundDuration(settings) \in Nat /\ detectDuration(settings) \in Nat
  BY <1>1, DurationFacts
<1>4. /\ errorCount \in 0 .. settings.MaxApiErrorThreshold
      /\ otherChecks(settings, errorCount) \in Nat
  BY <1>1, ChecksFacts DEF TypeOK
<1>5. /\ MaxTimeForNoPeersResponse \in Nat /\ WatchdogTimeout \in Nat
      /\ AgentLag \in Nat
  BY TimesAssumption DEF MaxTimeForNoPeersResponse
<1>6. /\ left \in Nat /\ resetIn \in Nat /\ seeIn \in Nat /\ silence \in Nat
      /\ agent = "wait" => left <= settings.ApiCheckInterval
      /\ agent = "check" => left <= settings.ApiServerTimeout
      /\ agent = "ask" => left <= roundDuration(settings)
  BY <1>2, <1>3, <1>5 DEF TypeOK
<1>7. snr \in SNRs /\ snr.timeLeft \in Nat
  BY DEF TypeOK, SNRs
<1>8. QED
  BY <1>2, <1>3, <1>4, <1>5, <1>6, <1>7

\* What is enough for an agent that could see the SNR is enough for one that
\* has just lost the API server, whatever its check does.
LEMMA DetectIsEnough ==
    ASSUME TypeOK, NEW t \in Nat,
           t > detectDuration(settings) + WatchdogTimeout
    PROVE  /\ agent = "wait"
                => t > left + settings.ApiServerTimeout
                         + otherChecks(settings, errorCount)
                         + roundDuration(settings) + WatchdogTimeout
           /\ agent = "check"
                => t > left + otherChecks(settings, errorCount)
                         + roundDuration(settings) + WatchdogTimeout
           /\ agent = "ask" => t > left + WatchdogTimeout
           /\ t > MaxTimeForNoPeersResponse + apiCheckDuration(settings)
                    + roundDuration(settings) + WatchdogTimeout
           /\ t > WatchdogTimeout
<1> DEFINE d == apiCheckDuration(settings)
           all == settings.MaxApiErrorThreshold * d
           m == MaxTimeForNoPeersResponse
           o == otherChecks(settings, errorCount)
           r == roundDuration(settings)
<1>1. d \in Nat /\ all \in Nat /\ m \in Nat /\ r \in Nat /\ o \in Nat
  BY TimeTypes, DurationFacts DEF TypeOK
<1>2. o + d <= all
  BY ChecksFacts DEF TypeOK
<1>3. detectDuration(settings) = AtLeast(m + d, all) + r
  BY DEF detectDuration
<1>4. d = settings.ApiCheckInterval + settings.ApiServerTimeout
  BY TimeTypes
<1> HIDE DEF d, all, m, o, r
<1>5. /\ AtLeast(m + d, all) \in Nat
      /\ AtLeast(m + d, all) >= m + d /\ AtLeast(m + d, all) >= all
  BY <1>1 DEF AtLeast
<1>6. t > m + d + r + WatchdogTimeout /\ t > o + d + r + WatchdogTimeout
  BY <1>1, <1>2, <1>3, <1>5, TimesAssumption
<1>7. t > r + WatchdogTimeout /\ t > WatchdogTimeout
  BY <1>1, <1>6, TimesAssumption
<1>8. /\ agent = "wait" => left <= settings.ApiCheckInterval
      /\ agent = "check" => left <= settings.ApiServerTimeout
      /\ agent = "ask" => left <= r
      /\ left \in Nat /\ settings.ApiCheckInterval \in Nat
      /\ settings.ApiServerTimeout \in Nat
  BY TimeTypes DEF r
<1>9. agent = "wait"
        => t > left + settings.ApiServerTimeout + o + r + WatchdogTimeout
  BY <1>1, <1>4, <1>6, <1>8, TimesAssumption
<1>10. agent = "check" => t > left + o + r + WatchdogTimeout
  BY <1>1, <1>4, <1>6, <1>8, TimesAssumption
<1>11. agent = "ask" => t > left + WatchdogTimeout
  BY <1>1, <1>7, <1>8, TimesAssumption
<1>12. QED
  BY <1>6, <1>7, <1>9, <1>10, <1>11 DEF d, m, o, r

\* A step keeps the time that is left ahead of the node.
LEMMA TimeKept ==
    ASSUME SafeTimeCovers, TypeOK, HistoryInv, TimeInv, [Next]_vars
    PROVE  TimeInv'
<1> USE DEF manager, node, network, check, process, history, waiting, fenced,
            FencingStarted, PreRebootCompleted, RebootCompleted,
            FencingCompleted
<1> DEFINE wd == WatchdogTimeout
           o == otherChecks(settings, errorCount)
           r == roundDuration(settings)
           d == apiCheckDuration(settings)
           m == MaxTimeForNoPeersResponse
<1>0. /\ snr \in SNRs /\ snr.timeLeft \in Nat
      /\ left \in Nat /\ resetIn \in Nat /\ seeIn \in Nat /\ silence \in Nat
      /\ settings.ApiServerTimeout \in Nat
      /\ settings.ApiCheckInterval \in Nat
      /\ d = settings.ApiCheckInterval + settings.ApiServerTimeout
      /\ r \in Nat /\ detectDuration(settings) \in Nat /\ o \in Nat
      /\ m \in Nat /\ wd \in Nat
  BY TimeTypes
<1>21. ASSUME waiting, agent # "off"
       PROVE  snr.timeLeft > IF machine = "expiring" THEN resetIn ELSE wd
  <2>1. machine \in {"up", "expiring"}
    BY <1>21 DEF HistoryInv, TypeOK
  <2>2. CASE machine = "expiring"
    BY <1>21, <2>2 DEF TimeInv, ExpiringInv
  <2>3. CASE machine = "up" /\ api
    BY <1>0, <1>21, <2>3 DEF TimeInv, OnlineInv
  <2>4. CASE machine = "up" /\ ~api
    <3>1. agent \in {"wait", "check", "ask"}
      BY <1>21 DEF TypeOK
    <3>2. QED
      BY <1>0, <1>21, <2>4, <3>1 DEF TimeInv, OfflineInv
  <2>5. QED
    BY <2>1, <2>2, <2>3, <2>4
<1>1. CASE CreateSNR \/ RecoverNode
  <2>1. snr'.phase = 0
    <3>1. CASE CreateSNR
      <4>1. PICK id \in Identities :
              snr' = [NoSNR EXCEPT !.exists = TRUE, !.identity = id,
                                   !.fresh = TRUE]
        BY <3>1 DEF CreateSNR
      <4>2. QED
        BY <4>1 DEF NoSNR
    <3>2. CASE RecoverNode
      BY <3>2 DEF RecoverNode, NoSNR
    <3>3. QED
      BY <1>1, <3>1, <3>2
  <2>2. QED
    BY <2>1 DEF TimeInv, ExpiringInv, OnlineInv, OfflineInv, FencedInv
<1>2. CASE DeleteSNR \/ AddFinalizer
  BY <1>0, <1>2
     DEF DeleteSNR, AddFinalizer, NoSNR, SNRs, TimeInv, ExpiringInv, OnlineInv,
         OfflineInv, FencedInv
<1>3. CASE CompletePreReboot
  <2>1. /\ snr'.phase = 1 /\ snr'.deleted = snr.deleted /\ snr'.exists
        /\ snr'.timeLeft = GetRebootDuration(config, annotation)
        /\ seeIn' = IF agent = "off" THEN 0 ELSE AgentLag
        /\ UNCHANGED <<machine, resetIn, api, agent, settings, left,
                       errorCount, silence, stopped, interrupted>>
    BY <1>0, <1>3 DEF CompletePreReboot, SNRs, getNodeFromSnr
  <2>2. /\ snr'.timeLeft > AgentLag + detectDuration(settings) + wd
        /\ AgentLag \in Nat /\ snr'.timeLeft \in Nat
    <3>1. GetRebootDuration(config, annotation) > stopDuration(settings)
      BY DEF SafeTimeCovers, TypeOK
    <3>2. GetRebootDuration(config, annotation) \in Nat
      BY DurationFacts DEF TypeOK
    <3>3. QED
      BY <2>1, <3>1, <3>2, TimesAssumption DEF stopDuration
  <2>3. snr'.timeLeft > detectDuration(settings) + wd
    BY <1>0, <2>2
  <2>4. seeIn' <= AgentLag /\ seeIn' \in Nat
    BY <2>1, <2>2
  <2>5. OnlineInv'
    BY <1>0, <2>1, <2>2, <2>4 DEF OnlineInv
  <2>6. ExpiringInv'
    BY <1>0, <2>1, <2>2, <2>3, DetectIsEnough DEF ExpiringInv, HistoryInv
  <2>7. OfflineInv'
    <3> HIDE DEF o, r, d, m, wd
    <3>1. snr'.timeLeft + silence > m + d + r + wd
      BY <1>0, <2>2, <2>3, DetectIsEnough DEF m, d, r, wd
    <3>2. QED
      BY <2>1, <2>2, <2>3, <3>1, DetectIsEnough DEF OfflineInv, m, d, r, wd
  <2>8. QED
    BY <2>1, <2>5, <2>6, <2>7 DEF TimeInv, FencedInv
<1>4. CASE AssumeRebooted \/ RemoveResources
  <2>1. CASE RemoveResources
    BY <1>0, <2>1
       DEF RemoveResources, SNRs, TimeInv, ExpiringInv, OnlineInv, OfflineInv, FencedInv
  <2>2. CASE AssumeRebooted
    <3>1. snr.phase = 1 /\ snr.timeLeft = 0 /\ snr.exists
      BY <2>2 DEF AssumeRebooted, wasNodeRebooted, getNodeFromSnr
    <3>2. fenced
      <4> SUFFICES ASSUME ~fenced PROVE FALSE
        OBVIOUS
      <4>1. machine \in {"up", "expiring"} /\ (machine = "up" => agent # "off")
        BY <3>1 DEF HistoryInv, TypeOK
      <4>2. CASE machine = "expiring"
        BY <1>0, <3>1, <4>2 DEF TimeInv, ExpiringInv
      <4>3. CASE machine = "up" /\ api
        BY <1>0, <3>1, <4>3 DEF TimeInv, OnlineInv
      <4>4. CASE machine = "up" /\ ~api
        <5>1. agent \in {"wait", "check", "ask"}
          BY <4>1, <4>4 DEF TypeOK
        <5>2. QED
          BY <1>0, <3>1, <4>4, <5>1 DEF TimeInv, OfflineInv
      <4>5. QED
        BY <4>1, <4>2, <4>3, <4>4
    <3>3. QED
      BY <1>0, <2>2, <3>2
         DEF AssumeRebooted, SNRs, TimeInv, ExpiringInv, OnlineInv, OfflineInv,
             FencedInv
  <2>3. QED
    BY <1>4, <2>1, <2>2
<1>5. CASE ChangeConfig \/ SetConfig \/ RestartManager \/ ChangePeers
  BY <1>5
     DEF ChangeConfig, SetConfig, RestartManager, ChangePeers, TimeInv, ExpiringInv,
         OnlineInv, OfflineInv, FencedInv
<1>6. CASE ReconcileAgent
  <2>1. /\ machine = "up" /\ api /\ machine' = "expiring" /\ resetIn' = wd
        /\ UNCHANGED <<snr, stopped, interrupted>>
    BY <1>6 DEF ReconcileAgent, rebootIfNeeded, Reboot
  <2>2. QED
    BY <1>0, <2>1 DEF TimeInv, ExpiringInv, OnlineInv, OfflineInv, FencedInv
<1>7. CASE StartAgent
  BY <1>7
     DEF StartAgent, HistoryInv, getNodeFromSnr, TypeOK, TimeInv, ExpiringInv,
         OnlineInv, OfflineInv, FencedInv
<1>8. CASE CrashAgent
  <2>1. UNCHANGED <<snr, stopped, api>> /\ agent # "off"
    BY <1>8 DEF CrashAgent
  <2>2. CASE wd > 0
    <3>1. machine' = "expiring" /\ UNCHANGED interrupted
      BY <1>8, <2>2 DEF CrashAgent, Reboot
    <3>2. resetIn' = IF machine = "expiring" THEN resetIn ELSE wd
      BY <1>8, <2>2 DEF CrashAgent, Reboot
    <3>3. QED
      BY <1>0, <1>21, <2>1, <3>1, <3>2
         DEF TimeInv, ExpiringInv, OnlineInv, OfflineInv, FencedInv
  <2>3. CASE wd = 0
    BY <1>8, <2>1, <2>3
       DEF CrashAgent, TimeInv, ExpiringInv, OnlineInv, OfflineInv, FencedInv
  <2>4. QED
    BY <1>0, <2>2, <2>3
<1>9. CASE StopPod
  BY <1>9
     DEF StopPod, ProcessGone, TimeInv, ExpiringInv, OnlineInv, OfflineInv, FencedInv
<1>10. CASE StartCheck
  <2>1. /\ agent = "wait" /\ left = 0 /\ agent' = "check"
        /\ left' = settings.ApiServerTimeout
        /\ UNCHANGED <<snr, machine, resetIn, api, settings, errorCount,
                       silence, seeIn, stopped, interrupted>>
    BY <1>10 DEF StartCheck
  <2> HIDE DEF o, r, d, m, wd
  <2>2. OfflineInv'
    BY <1>0, <2>1 DEF TimeInv, OfflineInv, o, r, d, m, wd
  <2>3. QED
    BY <2>1, <2>2 DEF TimeInv, ExpiringInv, OnlineInv, FencedInv
<1>11. CASE CheckSucceeds
  BY <1>11 DEF CheckSucceeds, TimeInv, ExpiringInv, OnlineInv, OfflineInv, FencedInv
<1>12. CASE CheckFails
  <2>1. /\ agent = "check" /\ ~api
        /\ errorCount' = AtMost(settings.MaxApiErrorThreshold, errorCount + 1)
        /\ IF asks THEN agent' = "ask" /\ left' = r
           ELSE agent' = "wait" /\ left' = settings.ApiCheckInterval
        /\ UNCHANGED <<snr, machine, resetIn, api, settings, silence, seeIn,
                       stopped, interrupted>>
    BY <1>12 DEF CheckFails, WaitForInterval
  <2>2. asks \/ (/\ errorCount' = errorCount + 1
                 /\ o = otherChecks(settings, errorCount') + d
                 /\ otherChecks(settings, errorCount') \in Nat)
    <3>1. /\ errorCount \in 0 .. settings.MaxApiErrorThreshold
          /\ settings.MaxApiErrorThreshold \in Nat /\ settings \in Configs
      BY TimeTypes DEF TypeOK
    <3>2. SUFFICES ASSUME errorCount + 1 < settings.MaxApiErrorThreshold
                   PROVE  /\ errorCount' = errorCount + 1
                          /\ o = otherChecks(settings, errorCount') + d
                          /\ otherChecks(settings, errorCount') \in Nat
      BY <3>1 DEF SafeTimeCovers, asks
    <3>3. /\ errorCount' = errorCount + 1
          /\ errorCount' \in 0 .. settings.MaxApiErrorThreshold
      BY <2>1, <3>1, <3>2 DEF AtMost
    <3>4. QED
      BY <3>1, <3>2, <3>3, ChecksFacts
  <2> HIDE DEF o, r, d, m, wd
  <2>3. OfflineInv'
    <3>1. CASE asks
      BY <1>0, <2>1, <3>1 DEF TimeInv, OfflineInv, o, r, d, m, wd
    <3>2. CASE ~asks
      BY <1>0, <2>1, <2>2, <3>2 DEF TimeInv, OfflineInv, o, r, d, m, wd
    <3>3. QED
      BY <3>1, <3>2
  <2>4. QED
    BY <2>1, <2>3 DEF TimeInv, ExpiringInv, OnlineInv, FencedInv
<1>13. CASE PeerAnswers
  <2>1. /\ agent = "ask"
        /\ UNCHANGED <<snr, stopped, interrupted>>
    BY <1>13 DEF PeerAnswers
  <2>2. SUFFICES ASSUME waiting PROVE TimeInv'
    BY <2>1 DEF TimeInv, ExpiringInv, OnlineInv, OfflineInv, FencedInv
  <2>3. /\ snr.exists
        /\ IsSNRMatching(snr.identity, MyNodeName, MyMachineName)
    BY <2>2 DEF HistoryInv, getNodeFromSnr, IsSNRMatching
  <2>4. /\ machine' = "expiring"
        /\ resetIn' = IF machine = "expiring" THEN resetIn ELSE wd
    BY <1>13, <2>3 DEF PeerAnswers, Reboot
  <2>5. QED
    BY <1>0, <1>21, <2>1, <2>4
       DEF TimeInv, ExpiringInv, OnlineInv, OfflineInv, FencedInv
<1>14. CASE PeersAreSilent
  <2>1. /\ agent = "ask" /\ agent' = "wait"
        /\ left' = settings.ApiCheckInterval
        /\ UNCHANGED <<snr, api, settings, errorCount, silence, seeIn,
                       stopped, interrupted>>
    BY <1>14 DEF PeersAreSilent, WaitForInterval
  <2>2. CASE silence > m
    <3>1. /\ machine' = "expiring"
          /\ resetIn' = IF machine = "expiring" THEN resetIn ELSE wd
      BY <1>14, <2>2 DEF PeersAreSilent, Reboot
    <3>2. QED
      BY <1>0, <1>21, <2>1, <3>1
         DEF TimeInv, ExpiringInv, OnlineInv, OfflineInv, FencedInv
  <2>3. CASE ~(silence > m)
    <3>1. UNCHANGED <<machine, resetIn>>
      BY <1>14, <2>3 DEF PeersAreSilent
    <3>2. o = 0
      BY <2>1, ChecksFacts, ConfigFacts DEF HistoryInv, TypeOK
    <3> HIDE DEF o, r, d, m, wd
    <3>3. OfflineInv'
      <4>1. ASSUME waiting, machine = "up", ~api
            PROVE  snr.timeLeft > d + r + wd
        BY <1>0, <2>3, <4>1 DEF TimeInv, OfflineInv, o, r, d, m, wd
      <4>2. QED
        BY <1>0, <2>1, <3>1, <3>2, <4>1
           DEF TimeInv, OfflineInv, o, r, d, m, wd
    <3>4. QED
      BY <2>1, <3>1, <3>3 DEF TimeInv, ExpiringInv, OnlineInv, FencedInv
  <2>4. QED
    BY <2>2, <2>3
<1>15. CASE ResetMachine \/ FailMachine
  BY <1>15
     DEF ResetMachine, FailMachine, GoDown, TimeInv, ExpiringInv, OnlineInv,
         OfflineInv, FencedInv
<1>16. CASE Boot
  BY <1>16
     DEF Boot, HistoryInv, getNodeFromSnr, TimeInv, ExpiringInv, OnlineInv, OfflineInv,
         FencedInv
<1>17. CASE ChangeApi
  <2>1. /\ api' = ~api /\ (api \/ snr.phase # 1 \/ stopped)
        /\ UNCHANGED <<snr, machine, resetIn, agent, settings, left,
                       errorCount, silence, seeIn, stopped, interrupted>>
    BY <1>17 DEF ChangeApi
  <2>2. SUFFICES ASSUME waiting PROVE TimeInv'
    BY <2>1 DEF TimeInv, ExpiringInv, OnlineInv, OfflineInv, FencedInv
  <2>3. api /\ ~api'
    BY <2>1, <2>2
  <2>4. machine = "up" => snr.timeLeft > detectDuration(settings) + wd
    BY <1>0, <2>2, <2>3 DEF TimeInv, OnlineInv
  <2>5. OfflineInv'
    <3> SUFFICES ASSUME machine = "up" PROVE OfflineInv'
      BY <2>1 DEF OfflineInv
    <3> HIDE DEF o, r, d, m, wd
    <3>1. snr.timeLeft + silence > m + d + r + wd
      BY <1>0, <2>4, DetectIsEnough DEF m, d, r, wd
    <3>2. QED
      BY <1>0, <2>1, <2>4, <3>1, DetectIsEnough DEF OfflineInv, m, d, r, wd
  <2>6. QED
    BY <2>1, <2>3, <2>5 DEF TimeInv, ExpiringInv, OnlineInv, FencedInv
<1>18. CASE Tick
  <2>1. /\ snr'.phase = snr.phase /\ snr'.deleted = snr.deleted
        /\ snr'.timeLeft = Less(snr.timeLeft)
        /\ agent # "off" => left > 0
        /\ machine = "expiring" => resetIn > 0
        /\ rebootIfNeeded /\ machine = "up" => seeIn > 0
        /\ resetIn' = Less(resetIn) /\ left' = Less(left)
        /\ seeIn' = Less(seeIn)
        /\ agent # "off" => silence' = AtMost(m + 1, silence + 1)
        /\ UNCHANGED <<machine, api, agent, settings, errorCount, stopped,
                       interrupted>>
    BY <1>0, <1>18 DEF Tick, SNRs
  <2>2. SUFFICES ASSUME waiting PROVE TimeInv'
    BY <2>1 DEF TimeInv, ExpiringInv, OnlineInv, OfflineInv, FencedInv
  <2>3. snr.exists /\ (machine = "up" => agent # "off")
    BY <2>2 DEF HistoryInv, getNodeFromSnr
  <2>4. ExpiringInv'
    BY <1>0, <2>1 DEF TimeInv, ExpiringInv, Less
  <2>5. OnlineInv'
    <3>1. ASSUME machine = "up", api PROVE rebootIfNeeded
      BY <2>2, <2>3, <3>1 DEF rebootIfNeeded, didIRebootMyself, HistoryInv,
                              getNodeFromSnr, IsSNRMatching
    <3>2. QED
      BY <1>0, <2>1, <3>1 DEF TimeInv, OnlineInv, Less
  <2> HIDE DEF o, r, d, m, wd
  <2>6. OfflineInv'
    <3> SUFFICES ASSUME machine = "up", ~api PROVE OfflineInv'
      BY <2>1 DEF OfflineInv
    <3>1. left > 0 /\ left' = left - 1 /\ agent \in {"wait", "check", "ask"}
      BY <1>0, <2>1, <2>3 DEF Less, TypeOK
    <3>2. snr.timeLeft > 0 /\ snr'.timeLeft = snr.timeLeft - 1
      BY <1>0, <2>1, <2>2, <3>1 DEF TimeInv, OfflineInv, Less, o, r, wd
    <3>3. silence' <= m => silence' = silence + 1 /\ silence <= m
      BY <1>0, <2>1, <2>3 DEF AtMost
    <3>4. silence' <= m => snr'.timeLeft + silence' > m + d + r + wd
      BY <1>0, <2>2, <3>2, <3>3 DEF TimeInv, OfflineInv, d, m, r, wd
    <3>5. QED
      BY <1>0, <2>1, <2>2, <3>1, <3>2, <3>4
         DEF TimeInv, OfflineInv, o, d, m, r, wd
  <2>7. QED
    BY <2>1, <2>2, <2>4, <2>5, <2>6 DEF TimeInv, FencedInv
<1>19. CASE UNCHANGED vars
  BY <1>19 DEF vars, TimeInv, ExpiringInv, OnlineInv, OfflineInv, FencedInv
<1>20. QED
  BY <1>1, <1>2, <1>3, <1>4, <1>5, <1>6, <1>7, <1>8, <1>9, <1>10, <1>11, <1>12, <1>13,
      <1>14, <1>15, <1>16, <1>17, <1>18, <1>19
     DEF Next, Manager, Agent, Machine, Environment

----------------------------------------------------------------------------
\* The invariants hold, the one about time if the manager waits long enough.

\* The parts that need nothing but the specification.
LEMMA HistoryInvariant == Spec => [](TypeOK /\ HistoryInv /\ LoopInv)
<1>1. Init => TypeOK /\ HistoryInv /\ LoopInv
  <2> SUFFICES ASSUME Init PROVE TypeOK /\ HistoryInv /\ LoopInv
    OBVIOUS
  <2>1. settings \in Configs /\ settings.MaxApiErrorThreshold \in Nat
    BY ConfigFacts DEF Init
  <2>2. MaxTimeForNoPeersResponse \in Nat /\ AgentLag \in Nat
    BY TimesAssumption DEF MaxTimeForNoPeersResponse
  <2>3. TypeOK
    <3>1. annotation \in [capable : BOOLEAN, hasTimeout : BOOLEAN,
                          timeout : {0}]
      BY DEF Init
    <3>2. /\ configured \in BOOLEAN /\ rebooted \in BOOLEAN
          /\ api \in BOOLEAN /\ peers \in BOOLEAN /\ stopped \in BOOLEAN
          /\ interrupted \in BOOLEAN /\ removed \in BOOLEAN
      BY DEF Init
    <3>3. QED
      BY <2>1, <2>2, <3>1, <3>2, NoSNRType DEF Init, TypeOK
  <2>4. HistoryInv /\ LoopInv
    BY DEF Init, HistoryInv, LoopInv, NoSNR, FencingStarted
  <2>5. QED
    BY <2>3, <2>4
<1>2. TypeOK /\ HistoryInv /\ LoopInv /\ [Next]_vars
        => (TypeOK /\ HistoryInv /\ LoopInv)'
  BY TypeKept, HistoryKept, LoopKept
<1>3. QED
  BY <1>1, <1>2, PTL DEF Spec

\* The time that is left.
LEMMA TimeInvariant ==
    ASSUME SafeTimeCovers
    PROVE  Spec => []TimeInv
<1>1. Init => TimeInv
  BY DEF Init, NoSNR, TimeInv, ExpiringInv, OnlineInv, OfflineInv, FencedInv,
         waiting, FencingStarted, PreRebootCompleted, RebootCompleted,
         FencingCompleted
<1>2. TypeOK /\ HistoryInv /\ TimeInv /\ [Next]_vars => TimeInv'
  BY TimeKept
<1>3. QED
  BY <1>1, <1>2, HistoryInvariant, PTL DEF Spec

----------------------------------------------------------------------------
\* Theorems.

\* Manager, agent, machine and clock keep their types: whatever the
\* configurations, the durations that the calculator and the check compute are
\* numbers, and an agent's counters stay within the settings of its pod.
THEOREM TypeCorrect == Spec => []TypeOK
BY HistoryInvariant, PTL

\* The agent's reconciler resets its machine at most once per SNR, whatever
\* else resets the machine or replaces the SNR: the uptime is less than the
\* age of the SNR afterwards (didIRebootMyself).
THEOREM NodeRebootsOnce == Spec => []NoRebootLoop
<1>1. LoopInv => NoRebootLoop
  BY DEF LoopInv, NoRebootLoop
<1>2. QED
  BY <1>1, HistoryInvariant, PTL

\* An SNR that names this node's Machine also is for this node.
IdentitiesAgree ==
    \A id \in Identities :
        "Machine" \in id.owners /\ id.machine = MyMachineName
          => getNodeName(id) = MyNodeName

\* If the Machine an SNR belongs to and its node name agree, agent and peers
\* have a node rebooted only for an SNR that the manager handles as this
\* node's, or when no peer answers: IsSNRMatching, which they use, then is as
\* strict as getNodeName.
THEOREM BystanderIsLeftAlone ==
    ASSUME IdentitiesAgree
    PROVE  Spec => BystanderStays
<1> DEFINE Agree == snr.exists => snr.identity \in Identities
           Stays == machine = "up" /\ machine' = "expiring" /\ cause' # "crash"
                      => getNodeFromSnr \/ ~peers
<1>1. Init => Agree
  BY DEF Init, NoSNR
<1>2. TypeOK /\ Agree /\ [Next]_vars => Agree'
  <2> SUFFICES ASSUME TypeOK, Agree, [Next]_vars PROVE Agree'
    OBVIOUS
  <2> USE DEF manager, node, network, check, process, history
  <2>0. snr \in SNRs
    BY DEF TypeOK
  <2>1. CASE CreateSNR
    BY <2>1 DEF CreateSNR, NoSNR
  <2>2. CASE DeleteSNR \/ RecoverNode
    BY <2>0, <2>2 DEF DeleteSNR, RecoverNode, NoSNR, SNRs
  <2>3. CASE \/ AddFinalizer \/ CompletePreReboot \/ AssumeRebooted
             \/ RemoveResources \/ Tick
    BY <2>0, <2>3 DEF AddFinalizer, CompletePreReboot, AssumeRebooted,
                      RemoveResources, Tick, SNRs
  <2>4. CASE UNCHANGED snr
    BY <2>4
  <2>5. QED
    BY <2>1, <2>2, <2>3, <2>4
       DEF Next, Manager, Agent, Machine, Environment, vars, SetConfig,
           ReconcileAgent, StartAgent, StartCheck, CheckSucceeds, CheckFails,
           PeerAnswers, PeersAreSilent, ResetMachine, Boot, ChangeConfig,
           RestartManager, CrashAgent, StopPod, FailMachine, ChangeApi,
           ChangePeers
<1>3. TypeOK /\ Agree /\ [Next]_vars => [Stays]_vars
  <2> SUFFICES ASSUME TypeOK, Agree, Next, machine = "up",
                      machine' = "expiring", cause' # "crash", peers
               PROVE  getNodeFromSnr
    BY DEF TypeOK
  <2> USE DEF manager, node, network, check, process, history
  <2>1. CASE ReconcileAgent
    <3>1. snr.exists /\ IsSNRMatching(snr.identity, MyNodeName, None)
      BY <2>1 DEF ReconcileAgent, rebootIfNeeded
    <3>2. snr.identity.machine # None
      BY DEF TypeOK, SNRs, SNRIdentities, None
    <3>3. QED
      BY <3>1, <3>2 DEF IsSNRMatching, getNodeFromSnr
  <2>2. CASE PeerAnswers
    <3>1. snr.exists /\ IsSNRMatching(snr.identity, MyNodeName, MyMachineName)
      BY <2>2 DEF PeerAnswers
    <3>2. QED
      BY <3>1 DEF IsSNRMatching, getNodeFromSnr, IdentitiesAgree
  <2>3. CASE CrashAgent
    BY <2>3 DEF CrashAgent, Reboot
  <2>4. QED
    BY <2>1, <2>2, <2>3
       DEF Next, Manager, Agent, Machine, Environment, SetConfig,
           StartAgent, StartCheck, CheckSucceeds, CheckFails,
           PeersAreSilent, ResetMachine, GoDown, Boot, ChangeConfig,
           RestartManager, StopPod, FailMachine, ChangeApi,
           ChangePeers, Tick, CreateSNR, DeleteSNR, RecoverNode,
           AddFinalizer, CompletePreReboot, AssumeRebooted, RemoveResources
<1>4. QED
  BY <1>1, <1>2, <1>3, HistoryInvariant, PTL DEF Spec, BystanderStays

\* If the manager waits longer than a node needs to find out about its SNR and
\* to be reset, it keeps the promise of Fence: it removes a node's resources
\* only after the node was stopped, unless the agent was interrupted or the
\* SNR deleted.  This holds for every choice of configurations, also when
\* manager and agent use different ones, and for every order of outages of
\* the API server and of the peers, crashes, failures and restarts.
THEOREM NodeIsFenced ==
    ASSUME SafeTimeCovers
    PROVE  Spec => FenceKept
<1>1. Init => PromisedFence!Init
  BY DEF Init, PromisedFence!Init, NoSNR
<1>2. TypeOK /\ HistoryInv /\ TimeInv /\ [Next]_vars
        => [PromisedFence!Next]_(PromisedFence!vars)
  <2> SUFFICES ASSUME TypeOK, HistoryInv, TimeInv, [Next]_vars
               PROVE  [PromisedFence!Next]_(PromisedFence!vars)
    OBVIOUS
  <2> USE DEF manager, node, network, check, process, history
  <2>0. snr \in SNRs
    BY DEF TypeOK
  <2>1. ASSUME UNCHANGED <<snr.exists, removed>>, fenced'
        PROVE  PromisedFence!Next
    BY <2>1 DEF PromisedFence!Next, PromisedFence!Stop, fenced
  <2>2. ASSUME UNCHANGED <<snr.exists, removed, fenced>>
        PROVE  UNCHANGED PromisedFence!vars
    BY <2>2 DEF PromisedFence!vars, fenced
  <2>3. ASSUME UNCHANGED <<snr.exists, removed>>, fenced => fenced'
        PROVE  [PromisedFence!Next]_(PromisedFence!vars)
    <3>1. CASE fenced'
      BY <2>1, <2>3, <3>1
    <3>2. CASE ~fenced'
      BY <2>2, <2>3, <3>2 DEF fenced
    <3>3. QED
      BY <3>1, <3>2
  <2>4. CASE CreateSNR
    <3>1. ~snr.exists /\ snr'.exists = TRUE /\ removed' = FALSE
      BY <2>4 DEF CreateSNR, NoSNR
    <3>2. QED
      BY <3>1 DEF PromisedFence!Next, PromisedFence!Begin
  <2>5. CASE RecoverNode
    BY <2>5 DEF RecoverNode, NoSNR, PromisedFence!Next, PromisedFence!End
  <2>6. CASE DeleteSNR
    <3>1. CASE snr.finalizer
      BY <2>0, <2>1, <2>6, <3>1 DEF DeleteSNR, SNRs, fenced
    <3>2. CASE ~snr.finalizer
      <4>1. snr'.exists = FALSE /\ removed' = FALSE
        BY <2>6, <3>2
           DEF DeleteSNR, NoSNR, HistoryInv, TypeOK, FencingStarted,
               FencingCompleted
      <4>2. QED
        BY <4>1 DEF PromisedFence!Next, PromisedFence!End
    <3>3. QED
      BY <3>1, <3>2
  <2>7. CASE RemoveResources
    <3>1. fenced /\ snr.exists
      BY <2>7 DEF RemoveResources, getNodeFromSnr, TimeInv, FencedInv
    <3>2. /\ snr'.exists = snr.exists /\ snr'.deleted = snr.deleted
          /\ removed' = TRUE /\ UNCHANGED <<stopped, interrupted>>
      BY <2>0, <2>7 DEF RemoveResources, SNRs
    <3>3. QED
      BY <3>1, <3>2 DEF PromisedFence!Next, PromisedFence!Remove, fenced
  <2>8. CASE \/ AddFinalizer \/ CompletePreReboot \/ AssumeRebooted \/ Tick
    BY <2>0, <2>3, <2>8
       DEF AddFinalizer, CompletePreReboot, AssumeRebooted, Tick, SNRs, fenced
  <2>9. CASE \/ StartAgent \/ CrashAgent \/ StopPod \/ ResetMachine
             \/ FailMachine
    BY <2>3, <2>9
       DEF StartAgent, CrashAgent, StopPod, ResetMachine, FailMachine, GoDown,
           fenced
  <2>10. CASE UNCHANGED <<snr, removed, stopped, interrupted>>
    BY <2>3, <2>10 DEF fenced
  <2>11. QED
    BY <2>4, <2>5, <2>6, <2>7, <2>8, <2>9, <2>10
       DEF Next, Manager, Agent, Machine, Environment, vars, SetConfig,
           ReconcileAgent, StartCheck, CheckSucceeds, CheckFails,
           PeerAnswers, PeersAreSilent, Boot, ChangeConfig, RestartManager,
           ChangeApi, ChangePeers
<1>3. QED
  BY <1>1, <1>2, HistoryInvariant, TimeInvariant, PTL
     DEF Spec, FenceKept, PromisedFence!Spec

============================================================================
