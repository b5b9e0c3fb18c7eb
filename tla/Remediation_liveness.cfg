SPECIFICATION FairSpec
CONSTANTS
  Strategies = {"OutOfServiceTaint"}
  RebootDuration = 1
  DeletionWait = 1
  Stateful = TRUE
  Env = {"nhcTimeout", "incapable", "config", "otherFinalizer", "restart"}
  MaxNow = 6
  MaxLag = 2
  MaxFaults = 1
  MaxSNRs = 1
PROPERTIES DeletionCompletes RemediationCompletes
CHECK_DEADLOCK FALSE
