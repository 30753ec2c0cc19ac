\* The same instance: is a rebuild full, as the comments say?  It is not.
SPECIFICATION DnsSpec
CONSTANTS
    self = self
    a = a
    b = b
    n1 = n1
    n2 = n2
    e1 = e1
    e2 = e2
    k1 = k1
    k2 = k2
    DeviceIds = {self, a, b}
    Self = self
    NetworkIds = {n1, n2}
    Endpoints = {e1, e2}
    ApiNetworks <- MCApiNetworks
    Keys = {k1, k2}
    MaxCached = 2
CONSTRAINT CacheBound
PROPERTY RebuildIsFull
SYMMETRY KeySymmetry
CHECK_DEADLOCK FALSE
