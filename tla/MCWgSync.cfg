\* WgSync, netlink calls may fail.
SPECIFICATION NodeSpec
CONSTANTS
    self = self
    a = a
    b = b
    n1 = n1
    e1 = e1
    l1 = l1
    DeviceIds = {self, a, b}
    Self = self
    NetworkIds = {n1}
    Endpoints = {e1, none}
    ApiNetworks <- MCApiNetworks
    LocalEndpoints = {l1}
    NoEndpoint = none
    NetlinkFaults = TRUE
    Grace = 1
    MaxNow = 1
    MaxCached = 1
CONSTRAINT CacheBound
INVARIANTS LastPeersTrackPeers PeersConfigured
PROPERTIES LostPeersLeaveKernel StraysOnlyFromUpdates PeersStayConfigured
CHECK_DEADLOCK FALSE
