\* The documented use of the local endpoint.
SPECIFICATION NodeSpec
CONSTANTS
    self = self
    a = a
    b = b
    n1 = n1
    e1 = e1
    l1 = l1
    DeviceIds = {self, a, b}
    Self = self
    NetworkIds = {n1}
    Endpoints = {e1}
    ApiNetworks <- MCApiNetworks
    LocalEndpoints = {l1}
    NoEndpoint = none
    NetlinkFaults = FALSE
    Grace = 1
    MaxNow = 1
    MaxCached = 2
CONSTRAINT CacheBound
PROPERTY LocalEndpointUsed
CHECK_DEADLOCK FALSE
