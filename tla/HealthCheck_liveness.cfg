SPECIFICATION MCFairSpec
CONSTANTS
  NrPeers = 4
  Threshold = 1
  Interval = 1
  BatchTime = 0
  MaxSilence = 1
  ControlPlaneNode = FALSE
  Links = {"up", "noApi", "down"}
  Pods = {"ready", "absent"}
  Changes = {"api", "snr", "pod"}
  Moving = {4}
INVARIANTS IsolatedNodeIsCutOff
PROPERTIES IsolatedNodeReboots RemediatedNodeReboots
