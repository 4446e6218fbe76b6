\* Stop at any moment of the life of two connections of one tunnel.
SPECIFICATION FairSpec
CONSTANTS
    Tunnels = {t1}
    Conns = {c1, c2}
    Events = {"stop", "cleanup"}
    Lookups = {}
    StaleAfter = 0
    NoTunnel = NoTunnel
    NoConn = NoConn
PROPERTIES
    ShutdownCompletes
