SPECIFICATION Spec
CONSTANTS
    Lfds = {L1}
    L1 = L1
    Rogue = {}
    LfdServers <- MCLfdServers
    Slots = {K1, K2}
    K1 = K1
    K2 = K2
    MaxCount = 2
    KernelBuf = 0
    HighWater = 1
SYMMETRY ConnectionSymmetry
INVARIANTS
    NoLostUpdate
    NeverRejectsLfd
