SPECIFICATION FairSpec
CHECK_DEADLOCK FALSE
CONSTANTS
    Client = Client
    None = None
    Connections = {K1, K2, K3}
    MaxRequests = 2
    MaxRestarts = 1
INVARIANTS
    OneExchange
PROPERTIES
    ImplementsService
    AllAnswered
