SPECIFICATION FairSpec
CONSTANTS
    c1 = c1
    c2 = c2
    r1 = r1
    r2 = r2
    r3 = r3
    a1 = a1
    a2 = a2
    NoAddress = NoAddress
    Clients = {c1}
    Requests = {r1, r2, r3}
    clientOf <- OneClient
    idOf <- UniqueIds
    Addresses = {a1}
    ReuseAddresses = FALSE
    MaxPending = 2
    Timeout = 1
CHECK_DEADLOCK FALSE
INVARIANTS
    AtMostOneResult
    NothingLost
    PoolInShape
PROPERTIES
    KeepsContract
