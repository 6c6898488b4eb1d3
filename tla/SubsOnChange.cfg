SPECIFICATION Spec
CONSTANTS
    c1 = c1
    c2 = c2
    c3 = c3
    w1 = w1
    w2 = w2
    g1 = g1
    s1 = s1
    window = window
    gear = gear
    speed = speed
    NoConfig = NoConfig
    PropIds <- MCPropIds
    propId <- MCPropId
    MaxResolution = 1000
    Clients = {c1, c2, c3}
    OnChange = {w1, w2, g1}
    Continuous = {}
    SupportedProps = {}
    EventProps = {w1, w2, g1}
    Rates = {5}
    Resolutions = {0}
    HwOutcomes = {"ok"}
SYMMETRY MCClientSymmetry
INVARIANTS
    HwServesOnChangeClientsUntilEvent
