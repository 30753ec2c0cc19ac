\* Two queries at a time, of any kind; a map; octets nobody wrote, and messages of
\* another implementation.
SPECIFICATION NamesSpec
CONSTANTS
    p = p
    q = q
    Queries = {p, q}
    MaxBufs = 6
    self = self
    a = a
    b = b
    n1 = n1
    n2 = n2
    e1 = e1
    e2 = e2
    k1 = k1
    k2 = k2
    DeviceIds = {self, a, b}
    Self = self
    NetworkIds = {n1, n2}
    Endpoints = {e1, e2}
    ApiNetworks <- MCApiNetworks
    Keys = {k1, k2}
    MaxCached = 2
    NoMessage = none
    Fixed <- MCFixed
    Addresses <- MCAddresses
    Arrivals <- MCArrivals
    MaxOctets = 6
CONSTRAINT CacheBound
INVARIANTS
    DnsTypeOK RepliesMatchQueries
    PeerListSound PeersMatchCache PeersAreNamed
    ParserNeverPanics CompressionUndone SentMessagesParse
PROPERTY OthersNotHeldUp
CHECK_DEADLOCK FALSE
