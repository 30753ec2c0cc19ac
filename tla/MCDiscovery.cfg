\* Two daemons, calm or rough, and the octets of HELLOs.
SPECIFICATION SegmentSpec
CONSTANTS
    p = p
    q = q
    Nodes = {p, q}
    Minute = 2
    MayLose = TRUE
    MayFail = TRUE
    MaxHellos <- ThreeAndOne
    MaxRough <- TwoAndOne
    KeyLen = 2
    BufLen = 11
    Ports <- MCPorts
    Keys <- MCKeys
    Foreign <- MCForeign
INVARIANT HellosHeardAsSaid
PROPERTIES HelloRate FloodEnds MutualDiscovery ReadErrorReturned
CHECK_DEADLOCK FALSE
