SPECIFICATION Spec
CONSTANTS
    c1 = c1
    c2 = c2
    c3 = c3
    w1 = w1
    w2 = w2
    g1 = g1
    s1 = s1
    window = window
    gear = gear
    speed = speed
    NoConfig = NoConfig
    PropIds <- MCPropIds
    propId <- MCPropId
    MaxResolution = 1000
    Clients = {c1, c2}
    OnChange = {w1}
    Continuous = {s1}
    SupportedProps = {w1}
    EventProps = {w1, s1}
    Rates = {5, 10}
    Resolutions = {0, 1}
    HwOutcomes = {"ok", "rejected"}
SYMMETRY MCClientSymmetry
INVARIANTS
    TypeOK
    BooksCoverClients
    HwServesContinuousClients
    NoOrphanHwSubscription
    SupportedValueBooksAgree
