\* One daemon and the server: stale and lost messages, failed requests; several
\* networks, or updates that cross snapshots in one.
SPECIFICATION FocusSpec
CONSTANTS
    self = self
    a = a
    n1 = n1
    n2 = n2
    e1 = e1
    e2 = e2
    DeviceIds = {self, a}
    Self = self
    NetworkIds = {n1, n2}
    Endpoints = {e1, e2}
    ApiNetworks <- MCApiNetworks
    LocalEndpoints = {}
    NoEndpoint = none
    NetlinkFaults = FALSE
    Grace = 1
    MaxNow = 0
    ApiFaults = TRUE
    Roaming = {a}
    MaxQueue = 3
SYMMETRY NetworkSymmetry
INVARIANTS SettledPeersAreRight SettledNetworksAreOurs SettledCacheIsFresh
CHECK_DEADLOCK FALSE
