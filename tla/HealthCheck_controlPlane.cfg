SPECIFICATION Spec
CONSTANTS
  NrPeers = 1
  Threshold = 1
  Interval = 1
  BatchTime = 0
  MaxSilence = 1
  ControlPlaneNode = TRUE
  Links = {"up"}
  Pods = {"ready", "noIP", "absent"}
  Changes = {"api", "snr", "pod", "controlPlane", "endpoint", "kubelet", "restart", "matchError"}
PROPERTIES ControlPlaneStays
