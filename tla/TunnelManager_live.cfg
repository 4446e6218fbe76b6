\* Two connections of one tunnel, which may break or fall silent.  Liveness
\* needs the tick that ages LastPing; the cleanup and the lookups are left out.
\* Without "stop" the server polls for ever: a state without a successor is
\* a server at rest, not a deadlock.
SPECIFICATION FairSpec
CHECK_DEADLOCK FALSE
CONSTANTS
    Tunnels = {t1}
    Conns = {c1, c2}
    Events = {"drop", "tick"}
    Lookups = {}
    StaleAfter = 0
    NoTunnel = NoTunnel
    NoConn = NoConn
PROPERTIES
    BrokenEntryLeaves
    RegistrationCompletes
