SPECIFICATION Spec
CONSTANTS
    C1 = C1
    C2 = C2
    X = X
    K1 = K1
    K2 = K2
    Clients = {C1, C2}
    Strangers = {X}
    Connections = {K1, K2}
    MaxNum = 3
    MaxQueue = 1
SYMMETRY ConnectionSymmetry
INVARIANTS
    OneValuePerRequest
    ValuesFollowNumbers
    CounterCountsRequests
