SPECIFICATION Spec
CONSTANTS
  Strategies = {"OutOfServiceTaint"}
  RebootDuration = 1
  DeletionWait = 1
  Stateful = TRUE
  Env = {"apiFailure", "restart"}
  MaxNow = 4
  MaxLag = 2
  MaxFaults = 1
  MaxSNRs = 1
INVARIANTS OutOfServiceTaintRemoved
CHECK_DEADLOCK FALSE
