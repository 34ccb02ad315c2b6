SPECIFICATION Spec
CONSTANTS
    C1 = C1
    C2 = C2
    S1 = S1
    S2 = S2
    S3 = S3
    Clients = {C1}
    Replicas = {S1, S2}
    Responsive = {}
    Faulty = {S2}
    MaxRequest = 2
    KernelBuf = 0
    HighWater = 0
INVARIANTS
    NeverUnexpected
PROPERTIES
    DivergenceIsReported
