----------------------------- MODULE Watchdog -----------------------------
(***************************************************************************)
(* The reboot of an unhealthy node by its own agent: the synchronized      *)
(* watchdog (pkg/watchdog/synchronized.go, linux.go) and the rebooter that *)
(* uses it (pkg/reboot/rebooter.go), inside the agent's process.           *)
(*                                                                         *)
(* Start, the feeder goroutine and the callers of Reboot (the API          *)
(* connectivity check and the agent's reconciler) run concurrently.  What  *)
(* a method does while it holds the watchdog's mutex is one step; what it  *)
(* does outside (the assignment of the stop function, the time between two *)
(* reads of the status) is not.  Time is counted in ticks.  The watchdog   *)
(* device is the kernel's: once opened it counts down, writing to it winds *)
(* it up, and when it runs out it resets the node.                         *)
(***************************************************************************)
EXTENDS Naturals

CONSTANTS
    Callers,               \* goroutines that call Reboot
    Timeout,               \* timeout of the device, in ticks
    RebootStarted,         \* TimeToAssumeRebootHasStarted, in ticks
    SoftwareRebootEnabled, \* IS_SOFTWARE_REBOOT_ENABLED
    Mishaps                \* what may go wrong, each at most once

MishapKinds == {"open", "feed", "disarm", "software", "nilStop", "crash",
                "podStop"}

ASSUME TimeoutAssumption == Timeout \in Nat /\ Timeout >= 6
ASSUME RebootStartedAssumption == RebootStarted \in Nat
ASSUME SettingsAssumption == /\ SoftwareRebootEnabled \in BOOLEAN
                             /\ Mishaps \subseteq MishapKinds

\* The feeder runs every third of the timeout.
FeedInterval == Timeout \div 3

Statuses == {"Disarmed", "Armed", "Triggered", "Malfunction"}

VARIABLES
    status,     \* swd.status
    starter,    \* where Start is: new, unlocked, waiting or returned
    stop,       \* swd.stop: nil, set, or called
    feeder,     \* the feeder goroutine is alive
    untilFeed,  \* ticks until its next run
    sinceFood,  \* ticks since lastFoodTime
    ctxDone,    \* the context of Start is cancelled: the pod is being stopped
    present,    \* NewLinux found a watchdog; without one the rebooter has nil
    left,       \* ticks until the device resets the node, 0 when it is closed
    caller,     \* where each caller of Reboot is
    wanted,     \* the node was found unhealthy
    rebooted,   \* "no", or by what the node was reset
    mishaps     \* what went wrong so far

start == <<status, starter, stop, feeder, untilFeed, sinceFood>>
vars == <<start, ctxDone, present, left, caller, wanted, rebooted, mishaps>>

\* "Never" of sinceFood: lastFoodTime has its zero value.
Never == RebootStarted + 1

up == rebooted = "no"

Mishap(kind) == /\ kind \in Mishaps /\ kind \notin mishaps
                /\ mishaps' = mishaps \union {kind}

----------------------------------------------------------------------------
\* Start and the feeder.

\* The device starts to count when it is opened, ...
openDevice == left' = Timeout

\* ... a write to it winds it up, ...
feedDevice == left' = Timeout

\* ... and the character "V" and a close stop it.  The write may fail; the
\* close of a device that took it does not.
disarmDevice == left' = 0

\* start fails: the device cannot be opened, or its timeout cannot be read and
\* it is disarmed again, which may fail as well and is ignored.
startDeviceFails ==
    \/ Mishap("open") /\ UNCHANGED left
    \/ Mishap("open") /\ disarmDevice
    \/ /\ {"open", "disarm"} \subseteq Mishaps \ mishaps
       /\ mishaps' = mishaps \union {"open", "disarm"}
       /\ openDevice

\* Mutant: the error of the device is only logged.
statusWithoutDeviceIgnored == "Armed"

\* When the device cannot be opened and software reboot is disabled, the
\* error that Start returns wraps a nil error, and is nil: nobody notices.
statusWithoutDevice ==
    IF SoftwareRebootEnabled THEN "Malfunction" ELSE status

\* The critical section of Start.
Start ==
    /\ up /\ present /\ starter = "new"
    /\ \/ /\ openDevice
          /\ status' = "Armed" /\ starter' = "unlocked"
          /\ UNCHANGED mishaps
       \/ /\ startDeviceFails
          /\ status' = statusWithoutDevice
          /\ starter' = "returned"
    /\ UNCHANGED <<stop, feeder, untilFeed, sinceFood, ctxDone, present,
                   caller, wanted, rebooted>>

\* After the mutex is released: the stop function, and the feeder.
AssignStop ==
    /\ up /\ starter = "unlocked"
    /\ starter' = "waiting"
    /\ stop' = "set" /\ feeder' = TRUE /\ untilFeed' = 0
    /\ UNCHANGED <<status, sinceFood, ctxDone, present, left, caller, wanted,
                   rebooted, mishaps>>

\* Mutant: the status is not checked again.
mayFeedUnchecked == TRUE

\* The feeder's context may be cancelled without its having noticed.
mayFeed == status = "Armed"

\* Mutant: the feeder comes as late as the timeout.
NextFeedLate == Timeout

\* When the feeder runs again.
NextFeed == FeedInterval

Feed ==
    /\ up /\ feeder /\ untilFeed = 0
    /\ untilFeed' = NextFeed
    /\ \/ /\ mayFeed
          /\ feedDevice /\ sinceFood' = 0
          /\ UNCHANGED mishaps
       \/ /\ mayFeed /\ Mishap("feed")
          /\ UNCHANGED <<left, sinceFood>>
       \/ ~mayFeed /\ UNCHANGED <<left, sinceFood, mishaps>>
    /\ UNCHANGED <<status, starter, stop, feeder, ctxDone, present, caller,
                   wanted, rebooted>>

FeederExits ==
    /\ up /\ feeder /\ stop = "called"
    /\ feeder' = FALSE
    /\ UNCHANGED <<status, starter, stop, untilFeed, sinceFood, ctxDone,
                   present, left, caller, wanted, rebooted, mishaps>>

\* Mutant: the device is left alone.
disarmsNever == FALSE

\* A watchdog that was stopped for a reboot is not disarmed.
disarms == status = "Armed"

\* The end of Start, when the pod is being stopped.
Disarm ==
    /\ up /\ starter = "waiting" /\ ctxDone
    /\ starter' = "returned"
    /\ \/ /\ disarms
          /\ disarmDevice
          /\ stop' = "called" /\ status' = "Disarmed"
          /\ UNCHANGED mishaps
       \/ disarms /\ Mishap("disarm") /\ UNCHANGED <<left, stop, status>>
       \/ ~disarms /\ UNCHANGED <<left, stop, status, mishaps>>
    /\ UNCHANGED <<feeder, untilFeed, sinceFood, ctxDone, present, caller,
                   wanted, rebooted>>

----------------------------------------------------------------------------
\* Reboot, and the methods of the watchdog that it calls.

Goto(c, point) == caller' = [caller EXCEPT ![c] = point]

softwareReboot(c) ==
    /\ Goto(c, "idle")
    /\ \/ rebooted' = "software" /\ UNCHANGED mishaps
       \/ Mishap("software") /\ UNCHANGED rebooted

isWatchdogRebootStuck == sinceFood > RebootStarted

\* Mutant: a malfunctioning watchdog is not noticed.
unusableIfAbsent == ~present

unusable == ~present \/ status = "Malfunction"

\* The first look at the watchdog.
Reboot(c) ==
    /\ up /\ wanted /\ caller[c] = "idle"
    /\ \/ unusable /\ softwareReboot(c)
       \/ /\ ~unusable
          /\ Goto(c, "switch")
          /\ UNCHANGED <<rebooted, mishaps>>
    /\ UNCHANGED <<start, ctxDone, present, left, wanted>>

\* The second look: by status, a software reboot or Stop, or nothing.
rebootsBySoftware ==
    \/ status = "Disarmed"
    \/ status = "Triggered" /\ isWatchdogRebootStuck

SwitchStatus(c) ==
    /\ up /\ caller[c] = "switch"
    /\ \/ rebootsBySoftware /\ softwareReboot(c)
       \/ /\ ~rebootsBySoftware /\ status # "Armed"
          /\ Goto(c, "idle") /\ UNCHANGED <<rebooted, mishaps>>
       \/ /\ status = "Armed"
          /\ Goto(c, "stop") /\ UNCHANGED <<rebooted, mishaps>>
    /\ UNCHANGED <<start, ctxDone, present, left, wanted>>

\* The process is gone and the container starts again.  The device keeps
\* counting if it was not disarmed.
NewProcess ==
    /\ status' = "Disarmed" /\ starter' = "new"
    /\ stop' = "nil" /\ feeder' = FALSE /\ untilFeed' = 0
    /\ sinceFood' = Never
    /\ ctxDone' = FALSE
    /\ caller' = [c \in Callers |-> "idle"]

\* Stop.  While Start has not assigned the stop function, which it does
\* without the mutex, the call panics, and that ends the process.
Stop(c) ==
    /\ up /\ caller[c] = "stop"
    /\ \/ /\ status = "Armed" /\ stop # "nil"
          /\ stop' = "called" /\ status' = "Triggered"
          /\ Goto(c, "idle")
          /\ UNCHANGED <<starter, feeder, untilFeed, sinceFood, ctxDone>>
          /\ UNCHANGED mishaps
       \/ status = "Armed" /\ stop = "nil" /\ Mishap("nilStop") /\ NewProcess
       \/ /\ status # "Armed"
          /\ Goto(c, "idle") /\ UNCHANGED <<start, ctxDone, mishaps>>
    /\ UNCHANGED <<present, left, wanted, rebooted>>

----------------------------------------------------------------------------
\* The process, the device and the node.

PodStop ==
    /\ up /\ Mishap("podStop")
    /\ ctxDone' = TRUE
    /\ UNCHANGED <<start, present, left, caller, wanted, rebooted>>

\* The process ends after Start returned, or at any time.
Restart ==
    /\ up
    /\ \/ ctxDone /\ (starter = "returned" \/ ~present) /\ UNCHANGED mishaps
       \/ Mishap("crash")
    /\ NewProcess
    /\ UNCHANGED <<present, left, wanted, rebooted>>

BecomeUnhealthy ==
    /\ up /\ ~wanted
    /\ wanted' = TRUE
    /\ UNCHANGED <<start, ctxDone, present, left, caller, rebooted, mishaps>>

\* A tick passes when the goroutine that starts the feeder and the feeder
\* itself are not late.
Tick ==
    /\ up
    /\ starter # "unlocked" /\ ~(feeder /\ untilFeed = 0)
    /\ left > 0 \/ sinceFood < Never \/ (feeder /\ untilFeed > 0)
    /\ untilFeed' = IF feeder THEN untilFeed - 1 ELSE untilFeed
    /\ sinceFood' = IF sinceFood < Never THEN sinceFood + 1 ELSE sinceFood
    /\ left' = IF left > 0 THEN left - 1 ELSE left
    /\ rebooted' = IF left = 1 THEN "watchdog" ELSE rebooted
    /\ UNCHANGED <<status, starter, stop, feeder, ctxDone, present, caller,
                   wanted, mishaps>>

Init ==
    /\ status = "Disarmed" /\ starter = "new" /\ stop = "nil"
    /\ feeder = FALSE /\ untilFeed = 0 /\ sinceFood = Never
    /\ ctxDone = FALSE /\ present \in BOOLEAN /\ left = 0
    /\ caller = [c \in Callers |-> "idle"]
    /\ wanted = FALSE /\ rebooted = "no" /\ mishaps = {}

Next ==
    \/ Start \/ AssignStop \/ Feed \/ FeederExits \/ Disarm
    \/ \E c \in Callers : Reboot(c) \/ SwitchStatus(c) \/ Stop(c)
    \/ PodStop \/ Restart \/ BecomeUnhealthy \/ Tick

Spec == Init /\ [][Next]_vars

\* Goroutines are scheduled, time passes, a pod that is being stopped ends,
\* and whoever found the node unhealthy asks again: the check at its next
\* interval, the reconciler by its RequeueAfter.
Fairness ==
    /\ WF_vars(Start) /\ WF_vars(AssignStop) /\ WF_vars(Feed)
    /\ WF_vars(FeederExits) /\ WF_vars(Disarm) /\ WF_vars(Tick)
    /\ WF_vars(ctxDone /\ Restart)
    /\ \A c \in Callers :
         WF_vars(Reboot(c)) /\ WF_vars(SwitchStatus(c)) /\ WF_vars(Stop(c))

FairSpec == Spec /\ Fairness

----------------------------------------------------------------------------
\* Properties.

\* Every variable has its type.
TypeOK ==
    /\ status \in Statuses
    /\ starter \in {"new", "unlocked", "waiting", "returned"}
    /\ stop \in {"nil", "set", "called"}
    /\ feeder \in BOOLEAN
    /\ untilFeed \in 0 .. FeedInterval
    /\ sinceFood \in 0 .. Never
    /\ ctxDone \in BOOLEAN /\ present \in BOOLEAN
    /\ left \in 0 .. Timeout
    /\ caller \in [Callers -> {"idle", "switch", "stop"}]
    /\ wanted \in BOOLEAN
    /\ rebooted \in {"no", "watchdog", "software"}
    /\ mishaps \subseteq MishapKinds

\* A node that nobody found unhealthy is not reset: feeding every third of
\* the timeout survives a failed feed, and a pod that is stopped disarms.
\* Only a process that crashed, or that could not disarm, leaves the device
\* counting.
NoSpuriousReboot ==
    ~up /\ ~wanted => "crash" \in mishaps \/ "disarm" \in mishaps

\* Once a reboot was triggered this process neither feeds nor disarms the
\* device any more, whatever Start, the feeder and other callers were doing.
StillTriggered ==
    status = "Triggered" =>
        \/ status' = "Triggered" /\ left' <= left /\ (left > 0 => left' > 0 \/ ~up')
        \/ starter' = "new"
TriggeredIsFinal == [][StillTriggered]_vars

\* A watchdog that is armed or triggered has its device counting down: a
\* status that promises a reboot is never wrong about the device.
ArmedDeviceCounts ==
    up /\ status \in {"Armed", "Triggered"} => left > 0

\* A node that is found unhealthy is reset in the end, with or without a
\* working watchdog, through failed commands, stops and restarts of the pod.
RebootHappens == wanted ~> ~up

============================================================================
