\* One connection that breaks or is idle, in use or stale when Stop comes;
\* the dials that follow fail.
SPECIFICATION FairSpec
CONSTANTS
    Conns = {c1}
    MaxStreams = 1
    Events = {"drop", "stop"}
    NoConn = NoConn
PROPERTIES
    BrokenConnectionRedialled
    StopReturns
