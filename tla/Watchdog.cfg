SPECIFICATION FairSpec
CONSTANTS
  apiCheck = apiCheck
  agent = agent
  Callers = {apiCheck, agent}
  Timeout = 6
  RebootStarted = 3
  SoftwareRebootEnabled = TRUE
  Mishaps = {"open", "feed", "disarm", "software", "nilStop", "crash", "podStop"}
INVARIANTS TypeOK NoSpuriousReboot ArmedDeviceCounts
PROPERTIES TriggeredIsFinal RebootHappens
CHECK_DEADLOCK FALSE
