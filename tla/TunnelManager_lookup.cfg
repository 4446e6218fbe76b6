\* Two connections of one tunnel, one after the other.
\* Without "stop" the server polls for ever: a state without a successor is
\* a server at rest, not a deadlock.
SPECIFICATION Spec
CHECK_DEADLOCK FALSE
CONSTANTS
    Tunnels = {t1}
    Conns = {c1, c2}
    Events = {}
    Lookups = {}
    StaleAfter = 0
    NoTunnel = NoTunnel
    NoConn = NoConn
INVARIANTS
    ServedTunnelIsConnected
