--------------------------- MODULE WatchdogProofs ---------------------------
(***************************************************************************)
(* Proofs about Watchdog: what the status says about the device, that a    *)
(* triggered reboot is final, and that a healthy node is not reset.        *)
(***************************************************************************)
EXTENDS Watchdog, Integers, TLAPS

USE TimeoutAssumption, RebootStartedAssumption, SettingsAssumption

\* Three feeds fit into the timeout, and some time is left between them.
LEMMA FeedIntervalFacts ==
    FeedInterval \in Nat /\ FeedInterval >= 2 /\ 3 * FeedInterval <= Timeout
BY DEF FeedInterval

----------------------------------------------------------------------------
\* Type correctness.

\* Callers that do nothing.
LEMMA IdleCallers ==
    /\ [c \in Callers |-> "idle"] \in [Callers -> {"idle", "switch", "stop"}]
    /\ \A c \in Callers : [d \in Callers |-> "idle"][c] = "idle"
OBVIOUS

\* The initial state has the declared types.
LEMMA TypeInit == Init => TypeOK
<1> SUFFICES ASSUME Init PROVE TypeOK
  OBVIOUS
<1>1. caller \in [Callers -> {"idle", "switch", "stop"}]
  BY IdleCallers DEF Init
<1>2. /\ untilFeed \in 0 .. FeedInterval /\ sinceFood \in 0 .. Never
      /\ left \in 0 .. Timeout
  BY FeedIntervalFacts DEF Init, Never
<1>3. QED
  BY <1>1, <1>2 DEF Init, TypeOK, Statuses

\* A new process starts in its types.
LEMMA NewProcessTypes ==
    ASSUME NewProcess
    PROVE  /\ status' \in Statuses
           /\ starter' \in {"new", "unlocked", "waiting", "returned"}
           /\ stop' \in {"nil", "set", "called"} /\ feeder' \in BOOLEAN
           /\ untilFeed' \in 0 .. FeedInterval /\ sinceFood' \in 0 .. Never
           /\ ctxDone' \in BOOLEAN
           /\ caller' \in [Callers -> {"idle", "switch", "stop"}]
<1>1. caller' \in [Callers -> {"idle", "switch", "stop"}]
  BY IdleCallers DEF NewProcess
<1>2. untilFeed' \in 0 .. FeedInterval /\ sinceFood' \in 0 .. Never
  BY FeedIntervalFacts DEF NewProcess, Never
<1>3. QED
  BY <1>1, <1>2 DEF NewProcess, Statuses

\* Steps of Start and of the feeder keep the types.
LEMMA TypeStart ==
    ASSUME TypeOK, Start \/ AssignStop \/ Feed \/ FeederExits \/ Disarm
    PROVE  TypeOK'
<1> USE FeedIntervalFacts DEF TypeOK, Statuses, Mishap, Never
<1>1. CASE Start
  BY <1>1 DEF Start, statusWithoutDevice, startDeviceFails, openDevice,
               disarmDevice, Mishap
<1>2. CASE AssignStop
  BY <1>2 DEF AssignStop
<1>3. CASE Feed
  BY <1>3 DEF Feed, mayFeed, NextFeed, feedDevice
<1>4. CASE FeederExits
  BY <1>4 DEF FeederExits
<1>5. CASE Disarm
  BY <1>5 DEF Disarm, disarms, disarmDevice
<1>6. QED
  BY <1>1, <1>2, <1>3, <1>4, <1>5

\* Steps of a caller of Reboot keep the types.
LEMMA TypeCaller ==
    ASSUME TypeOK, NEW c \in Callers, Reboot(c) \/ SwitchStatus(c) \/ Stop(c)
    PROVE  TypeOK'
<1> USE FeedIntervalFacts DEF TypeOK, Statuses, Mishap, Never, start, Goto
<1>1. CASE Reboot(c)
  BY <1>1 DEF Reboot, softwareReboot
<1>2. CASE SwitchStatus(c)
  BY <1>2 DEF SwitchStatus, softwareReboot
<1>3. CASE Stop(c)
  <2>1. CASE NewProcess
    BY <1>3, <2>1, NewProcessTypes DEF Stop
  <2>2. CASE ~NewProcess
    BY <1>3, <2>2 DEF Stop
  <2>3. QED
    BY <2>1, <2>2
<1>4. QED
  BY <1>1, <1>2, <1>3

\* Steps of the process, the device and the node keep the types.
LEMMA TypeProcess ==
    ASSUME TypeOK, PodStop \/ Restart \/ BecomeUnhealthy \/ Tick
    PROVE  TypeOK'
<1> USE FeedIntervalFacts DEF TypeOK, Statuses, Mishap, Never, start
<1>1. CASE PodStop
  BY <1>1 DEF PodStop
<1>2. CASE Restart
  BY <1>2, NewProcessTypes DEF Restart
<1>3. CASE BecomeUnhealthy
  BY <1>3 DEF BecomeUnhealthy
<1>4. CASE Tick
  BY <1>4 DEF Tick
<1>5. QED
  BY <1>1, <1>2, <1>3, <1>4

\* Every step keeps the types.
LEMMA TypeStep == TypeOK /\ [Next]_vars => TypeOK'
<1> SUFFICES ASSUME TypeOK, [Next]_vars PROVE TypeOK'
  OBVIOUS
<1>1. CASE UNCHANGED vars
  BY <1>1 DEF vars, start, TypeOK
<1>2. QED
  BY <1>1, TypeStart, TypeCaller, TypeProcess DEF Next

\* The watchdog, its device and the callers of Reboot stay in their types and
\* the countdown in its range, for any timeout, callers and mishaps.
THEOREM WatchdogTypes == Spec => []TypeOK
BY TypeInit, TypeStep, PTL DEF Spec

----------------------------------------------------------------------------
\* The status and the device.

\* A process begins with a Disarmed watchdog; what is Armed or Triggered has
\* an open device that has not run out.
DeviceInv ==
    /\ starter = "new" => status = "Disarmed"
    /\ ArmedDeviceCounts

\* Every step keeps what the status says about the device.
LEMMA DeviceStep == TypeOK /\ DeviceInv /\ [Next]_vars => DeviceInv'
<1> SUFFICES ASSUME TypeOK, DeviceInv, [Next]_vars PROVE DeviceInv'
  OBVIOUS
<1> USE DEF DeviceInv, ArmedDeviceCounts, TypeOK, up
<1>1. CASE Start
  BY <1>1 DEF Start, statusWithoutDevice, startDeviceFails, openDevice,
               disarmDevice, Mishap
<1>2. CASE AssignStop
  BY <1>2 DEF AssignStop
<1>3. CASE Feed
  BY <1>3 DEF Feed, feedDevice
<1>4. CASE FeederExits
  BY <1>4 DEF FeederExits
<1>5. CASE Disarm
  BY <1>5 DEF Disarm, disarms, disarmDevice
<1>6. ASSUME NEW c \in Callers, Reboot(c) \/ SwitchStatus(c)
      PROVE  DeviceInv'
  BY <1>6 DEF Reboot, SwitchStatus, softwareReboot, start
<1>7. ASSUME NEW c \in Callers, Stop(c) PROVE DeviceInv'
  BY <1>7 DEF Stop, NewProcess, start
<1>8. CASE PodStop \/ BecomeUnhealthy
  BY <1>8 DEF PodStop, BecomeUnhealthy, start
<1>9. CASE Restart
  BY <1>9 DEF Restart, NewProcess
<1>10. CASE Tick
  BY <1>10 DEF Tick
<1>11. CASE UNCHANGED vars
  BY <1>11 DEF vars, start
<1>12. QED
  BY <1>1, <1>2, <1>3, <1>4, <1>5, <1>6, <1>7, <1>8, <1>9, <1>10, <1>11
  DEF Next

\* The invariant of the device holds in every reachable state.
LEMMA DeviceInvariant == Spec => [](TypeOK /\ DeviceInv)
<1>1. Init => TypeOK /\ DeviceInv
  BY TypeInit DEF Init, DeviceInv, ArmedDeviceCounts
<1>2. QED
  BY <1>1, TypeStep, DeviceStep, PTL DEF Spec

\* A status that promises a reboot, Armed or Triggered, is never wrong about
\* the device, under every interleaving of Start, feeder, Stop and disarm.
THEOREM StatusTellsDevice == Spec => []ArmedDeviceCounts
BY DeviceInvariant, PTL DEF DeviceInv

\* Once Stop has triggered the reboot, no step of this process feeds or
\* disarms the device again: only its end or the reset follows.
THEOREM TriggeredStays == Spec => TriggeredIsFinal
<1>1. TypeOK /\ DeviceInv /\ [Next]_vars => [StillTriggered]_vars
  <2> SUFFICES ASSUME TypeOK, DeviceInv, Next PROVE StillTriggered
    OBVIOUS
  <2> USE DEF StillTriggered, TypeOK, DeviceInv, ArmedDeviceCounts, up
  <2>1. CASE Start \/ AssignStop
    BY <2>1 DEF Start, AssignStop
  <2>2. CASE Feed \/ FeederExits
    BY <2>2 DEF Feed, FeederExits, mayFeed, feedDevice
  <2>3. CASE Disarm
    BY <2>3 DEF Disarm, disarms, disarmDevice
  <2>4. ASSUME NEW c \in Callers, Reboot(c) \/ SwitchStatus(c)
        PROVE  StillTriggered
    BY <2>4 DEF Reboot, SwitchStatus, softwareReboot, start
  <2>5. ASSUME NEW c \in Callers, Stop(c) PROVE StillTriggered
    BY <2>5 DEF Stop, NewProcess, start
  <2>6. CASE PodStop \/ BecomeUnhealthy
    BY <2>6 DEF PodStop, BecomeUnhealthy, start
  <2>7. CASE Restart
    BY <2>7 DEF Restart, NewProcess
  <2>8. CASE Tick
    BY <2>8 DEF Tick
  <2>9. QED
    BY <2>1, <2>2, <2>3, <2>4, <2>5, <2>6, <2>7, <2>8 DEF Next
<1>2. QED
  BY <1>1, DeviceInvariant, PTL DEF Spec, TriggeredIsFinal

----------------------------------------------------------------------------
\* A healthy node.

\* How a healthy node stays up while nothing crashed and no disarm failed:
\* nobody is in Reboot, the device is open only from Start until Disarm, and
\* the feeder is ahead of it even if one feed failed.
CalmInv ==
    ~wanted /\ mishaps \cap {"crash", "disarm"} = {} =>
        /\ up
        /\ \A c \in Callers : caller[c] = "idle"
        /\ status # "Triggered"
        /\ ~present => starter = "new"
        /\ starter \in {"new", "returned"} => left = 0 /\ status # "Armed"
        /\ starter = "unlocked" => left = Timeout /\ status = "Armed"
        /\ starter = "waiting" =>
             /\ feeder /\ stop = "set" /\ status = "Armed"
             /\ left + FeedInterval
                  >= untilFeed + (IF "feed" \in mishaps
                                  THEN Timeout - FeedInterval ELSE Timeout)

\* Every step keeps a calm node calm.
LEMMA CalmStep == TypeOK /\ DeviceInv /\ CalmInv /\ [Next]_vars => CalmInv'
<1> SUFFICES ASSUME TypeOK, DeviceInv, CalmInv, [Next]_vars,
                    ~wanted', mishaps' \cap {"crash", "disarm"} = {}
             PROVE  CalmInv'
  BY DEF CalmInv
<1> DEFINE calm == ~wanted /\ mishaps \cap {"crash", "disarm"} = {}
<1>1. mishaps \subseteq mishaps' /\ (wanted => wanted')
  BY DEF Next, vars, start, Start, AssignStop, Feed, FeederExits, Disarm,
         Reboot, SwitchStatus, softwareReboot, Stop, PodStop, Restart,
         BecomeUnhealthy, Tick, Mishap, startDeviceFails
<1>2. calm
  BY <1>1
<1> USE FeedIntervalFacts, <1>2 DEF CalmInv, TypeOK, up
<1>3. CASE Start
  BY <1>3 DEF Start, statusWithoutDevice, startDeviceFails, openDevice,
               disarmDevice, Mishap
<1>4. CASE AssignStop
  BY <1>4 DEF AssignStop
<1>5. CASE Feed
  <2> USE <1>5 DEF Feed, mayFeed, NextFeed, feedDevice
  <2>1. CASE ~mayFeed
    BY <2>1
  <2>2. CASE mayFeed /\ left' = Timeout /\ UNCHANGED mishaps
    BY <2>2
  <2>3. CASE mayFeed /\ Mishap("feed") /\ left' = left
    <3>1. "feed" \notin mishaps /\ "feed" \in mishaps'
      BY <2>3 DEF Mishap
    <3>2. QED
      BY <2>3, <3>1
  <2>4. QED
    BY <2>1, <2>2, <2>3
<1>6. CASE FeederExits
  BY <1>6 DEF FeederExits
<1>7. CASE Disarm
  BY <1>7 DEF Disarm, disarms, disarmDevice, Mishap
<1>8. ASSUME NEW c \in Callers, Reboot(c) \/ SwitchStatus(c) \/ Stop(c)
      PROVE  CalmInv'
  BY <1>8 DEF Reboot, SwitchStatus, Stop
<1>9. CASE PodStop \/ BecomeUnhealthy
  BY <1>9 DEF PodStop, BecomeUnhealthy, start, Mishap
<1>10. CASE Restart
  BY <1>10, IdleCallers DEF Restart, NewProcess, Mishap
<1>11. CASE Tick
  BY <1>11 DEF Tick
<1>12. CASE UNCHANGED vars
  BY <1>12 DEF vars, start
<1>13. QED
  BY <1>3, <1>4, <1>5, <1>6, <1>7, <1>8, <1>9, <1>10, <1>11, <1>12 DEF Next

\* A node that nobody found unhealthy is not reset, unless its agent crashed
\* or failed to disarm: one failed feed and any stop of the pod are survived.
THEOREM HealthyNodeStaysUp == Spec => []NoSpuriousReboot
<1>1. Init => TypeOK /\ DeviceInv /\ CalmInv
  BY TypeInit, IdleCallers
  DEF Init, DeviceInv, ArmedDeviceCounts, CalmInv, up
<1>2. CalmInv => NoSpuriousReboot
  BY DEF CalmInv, NoSpuriousReboot
<1>3. QED
  BY <1>1, <1>2, TypeStep, DeviceStep, CalmStep, PTL DEF Spec

============================================================================
