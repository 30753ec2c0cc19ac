\* Two daemons, one started while the other may still run; a daemon and logins.
SPECIFICATION MCSpec
CONSTANTS
    d1 = d1
    d2 = d2
    ctl = ctl
    Programs = {d1, d2, ctl}
    Daemons = {d1, d2}
    Together = {{d1, d2}, {d1, ctl}}
    MaxTokens = 2
    MaxNames = 2
INVARIANTS SavesStayReadable TurnsLoseNothing DeviceIsOurs NothingLeftBehind
PROPERTIES ResolverKept InterruptHeeded
CHECK_DEADLOCK FALSE
