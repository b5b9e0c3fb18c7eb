SPECIFICATION Spec
CONSTANTS
    Configs <- MCConfigs
    Workers = 3
    HalfMinute = 2
    WatchdogTimeout = 1
    SoftwareReboot = TRUE
    AgentLag = 1
    Identities <- MCIdentities
    Env = {"crash", "deletion", "apiLoss", "peerLoss",
           "managerRestart", "podStop", "configChange", "machineFailure"}
INVARIANTS TypeOK NoRebootLoop
PROPERTIES BystanderStays FenceKept
