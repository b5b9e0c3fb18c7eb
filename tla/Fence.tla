------------------------------- MODULE Fence -------------------------------
(***************************************************************************)
(* What a remediation promises to the workload of an unhealthy node: its   *)
(* resources are removed, so that the workload starts elsewhere, only      *)
(* after everything that ran on the node was stopped.  "Starting           *)
(* replacement Pods while they are still running on the failed node will   *)
(* likely lead to data corruption" (SelfNodeRemediationConfigSpec).        *)
(***************************************************************************)
VARIABLES
    ongoing,  \* there is a remediation
    stopped,  \* the node was stopped since the remediation began
    removed   \* the remediation removed the node's resources

vars == <<ongoing, stopped, removed>>

Init == ongoing = FALSE /\ stopped \in BOOLEAN /\ removed = FALSE

Begin ==
    /\ ~ongoing
    /\ ongoing' = TRUE
    /\ stopped' \in BOOLEAN
    /\ removed' = FALSE

Stop == stopped' = TRUE /\ UNCHANGED <<ongoing, removed>>

Remove ==
    /\ ongoing
    /\ stopped
    /\ removed' = TRUE
    /\ UNCHANGED <<ongoing, stopped>>

End ==
    /\ ongoing' = FALSE
    /\ stopped' \in BOOLEAN
    /\ removed' = FALSE

Next == Begin \/ Stop \/ Remove \/ End

Spec == Init /\ [][Next]_vars

============================================================================
