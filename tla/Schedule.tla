----------------------------- MODULE Schedule ------------------------------
(***************************************************************************)
(* What everybody but the manager may rely on in the status of a           *)
(* SelfNodeRemediation (SNR): the phases are taken one by one, the time at *)
(* which the node is assumed to be rebooted is set together with the phase *)
(* in which the agent reboots the node, it stays, and no later phase is    *)
(* reached before that time.                                               *)
(***************************************************************************)
EXTENDS Naturals

VARIABLES
    now,       \* the clock
    uid,       \* the SNR, 0: there is none
    phase,     \* its phase: 0 Fencing-Started, 1 Pre-Reboot-Completed,
               \* 2 Reboot-Completed, 3 Fencing-Completed
    deadline   \* its TimeAssumedRebooted, 0: not set

vars == <<now, uid, phase, deadline>>

Init == now \in Nat /\ uid = 0 /\ phase = 0 /\ deadline = 0

Tick == now' \in Nat /\ now' > now /\ UNCHANGED <<uid, phase, deadline>>

Create ==
    /\ uid = 0
    /\ uid' \in Nat \ {0}
    /\ UNCHANGED <<now, phase, deadline>>

CompletePreReboot ==
    /\ uid # 0
    /\ phase = 0
    /\ phase' = 1
    /\ deadline' \in Nat \ {0}
    /\ UNCHANGED <<now, uid>>

AssumeRebooted ==
    /\ phase = 1
    /\ now >= deadline
    /\ phase' = 2
    /\ UNCHANGED <<now, uid, deadline>>

CompleteFencing ==
    /\ phase = 2
    /\ phase' = 3
    /\ UNCHANGED <<now, uid, deadline>>

Remove ==
    /\ uid' = 0
    /\ phase' = 0
    /\ deadline' = 0
    /\ UNCHANGED now

Next == Tick \/ Create \/ CompletePreReboot \/ AssumeRebooted
            \/ CompleteFencing \/ Remove

Spec == Init /\ [][Next]_vars

============================================================================
