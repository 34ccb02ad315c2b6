SPECIFICATION Spec
CHECK_DEADLOCK FALSE
CONSTANTS
    GfdFreq = 12
    LfdFreq = 5
    ReadTimeout = 7
    Delay = 3
INVARIANTS
    NoFalseTimeout
    DetectionBound
PROPERTIES
    PauseIsKept
