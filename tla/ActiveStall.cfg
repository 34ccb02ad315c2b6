SPECIFICATION StallSpec
CONSTANTS
    C1 = C1
    C2 = C2
    S1 = S1
    S2 = S2
    S3 = S3
    Clients = {C1}
    Replicas = {S1, S2}
    Responsive = {S1}
    Faulty = {}
    MaxRequest = 2
    KernelBuf = 1
    HighWater = 0
PROPERTIES
    Progress
