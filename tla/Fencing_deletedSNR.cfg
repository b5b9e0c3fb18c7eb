SPECIFICATION Spec
CONSTANTS
    Configs <- MCConfigs
    Workers = 3
    HalfMinute = 2
    WatchdogTimeout = 1
    SoftwareReboot = TRUE
    AgentLag = 1
    Identities <- MCIdentity
    Env = {"deletion"}
INVARIANT RebootedBeforeRemoval
