\* A leave that panics.
SPECIFICATION FocusSpec
CONSTANTS
    self = self
    a = a
    n1 = n1
    n2 = n2
    e1 = e1
    e2 = e2
    DeviceIds = {self, a}
    Self = self
    NetworkIds = {n1}
    Endpoints = {e1}
    ApiNetworks <- MCApiNetworks
    LocalEndpoints = {}
    NoEndpoint = none
    NetlinkFaults = FALSE
    Grace = 1
    MaxNow = 0
    ApiFaults = FALSE
    Roaming = {a}
    MaxQueue = 3
INVARIANT NeverPanics
CHECK_DEADLOCK FALSE
