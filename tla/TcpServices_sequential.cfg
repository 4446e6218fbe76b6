\* With every tunnel deleted and every id spent no request can come: the
\* server is at rest.
SPECIFICATION Spec
CHECK_DEADLOCK FALSE
CONSTANTS
    s1 = s1
    s2 = s2
    a1 = a1
    a2 = a2
    a3 = a3
    Tunnels = {t1, t2}
    Services = {s1, s2}
    Addrs = {a1, a2, a3}
    Targets = {x}
    Types = {"tcp", "http"}
    Requests = {r1}
    AddrsOf <- OwnAddrs
    Events = {"restart", "acceptError"}
    NoAddr = NoAddr
    NoRow = NoRow
    Closed = Closed
    Keep = Keep
INVARIANTS
    ListenersMatchRows
