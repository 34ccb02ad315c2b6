SPECIFICATION FairSpec
CHECK_DEADLOCK FALSE
CONSTANTS
    Replicas = {"S1", "S2"}
    ClientIds = {"C1"}
    LfdIds = {"LFD1"}
    MaxPort = 2
    MaxServers = 2
    MaxDelay = 6
    MaxAttempt = 4
    Connections = {"K1", "K2", "K3"}
INVARIANTS
    LoadedConfigRuns
    LeftoverIsUnseen
    ClosedIsDisconnected
PROPERTIES
    CloseEndsUnlessRaced
    EndsWhenPeersLeave
    DelaysDouble
