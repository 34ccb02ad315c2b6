SPECIFICATION Spec
CONSTANTS
    Lfds = {L1}
    L1 = L1
    Rogue = {L1}
    LfdServers <- MCLfdServers
    Slots = {K1, K2, K3}
    K1 = K1
    K2 = K2
    K3 = K3
    MaxCount = 2
    KernelBuf = 0
    HighWater = 1
SYMMETRY ConnectionSymmetry
INVARIANTS
    MembersAreWatched
    OneHandlerPerLfd
