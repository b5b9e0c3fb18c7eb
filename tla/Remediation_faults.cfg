SPECIFICATION Spec
CONSTANTS
  Strategies = {"ResourceDeletion", "OutOfServiceTaint"}
  RebootDuration = 1
  DeletionWait = 1
  Stateful = TRUE
  Env = {"apiFailure", "restart", "foreignTaint", "exclude", "nodeDeletion", "nhcTimeout"}
  MaxNow = 3
  MaxLag = 2
  MaxFaults = 1
  MaxSNRs = 2
INVARIANTS TypeOK TimeAssumedRebootedIsSet FinalizerGuardsNode SuccessMeansWorkloadGone SafetyInv
PROPERTIES RemovalOnlyWhenFenced PhasesNeverGoBack ScheduleKept
CHECK_DEADLOCK FALSE
