\* Two connections, so that the goroutines of the first can meet the second;
\* breakage and Stop at any moment.
SPECIFICATION Spec
CONSTANTS
    Conns = {c1, c2}
    MaxStreams = 1
    Events = {"drop", "stop"}
    NoConn = NoConn
SYMMETRY Symmetry
INVARIANTS
    TypeOK
    OneOpenConnection
    ClosedLeavesNothing
    ReaderHoldsOpen
    NoLockDeadlock
PROPERTIES
    ImplementsLink
