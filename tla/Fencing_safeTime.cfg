SPECIFICATION Spec
CONSTANTS
    Configs <- MCDefaults
    Workers = 43
    HalfMinute = 6
    WatchdogTimeout = 12
    SoftwareReboot = TRUE
    AgentLag = 0
    Identities <- MCIdentity
    Env = {"apiLoss", "peerLoss"}
INVARIANT RebootedBeforeRemoval
