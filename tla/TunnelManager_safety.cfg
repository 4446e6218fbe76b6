\* Two connections that may be of one tunnel or of two, with breakage, a
\* lookup, the cleanup and Stop at any moment.
SPECIFICATION Spec
CONSTANTS
    Tunnels = {t1, t2}
    Conns = {c1, c2}
    Events = {"drop", "stop", "cleanup"}
    Lookups = {r1}
    StaleAfter = 0
    NoTunnel = NoTunnel
    NoConn = NoConn
SYMMETRY Symmetry
INVARIANTS
    TypeOK
    EntriesOwned
    HandlerLeavesNothing
    ReaderHoldsOpen
    PendingWriterWaits
    NoLockDeadlock
    LostOnlyByUnregister
    OnlyHandlersOutliveStop
PROPERTIES
    ImplementsRegistry
