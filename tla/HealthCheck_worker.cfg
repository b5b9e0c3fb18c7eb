SPECIFICATION Spec
CONSTANTS
  NrPeers = 4
  Threshold = 2
  Interval = 1
  BatchTime = 1
  MaxSilence = 1
  ControlPlaneNode = FALSE
  Links = {"up", "noApi", "down"}
  Pods = {"ready"}
  Changes = {"api", "snr", "link"}
INVARIANTS TypeOK UnhealthyNeedsSNR HealthyNeedsNoSNR IsolatedNodeIsCutOff
