SPECIFICATION FairSpec
CONSTANTS
    Slots = {K1, K2, K3}
    MaxCount = 2
    Faults = {"reset", "dead"}
INVARIANTS
    TypeOK
    OneUnanswered
    AckMatchesHeartbeat
PROPERTIES
    HealthIsFresh
    StopIsSilent
    RestartIsNoticed
    TracksReplica
    StopTerminates
CHECK_DEADLOCK FALSE
