\* Windows of this tick and of two, checks kept for one more: those of the first
\* of three ticks are removed in the last.
SPECIFICATION Spec
SYMMETRY Symmetry
CONSTANTS
    i1 = i1
    i2 = i2
    n1 = n1
    n2 = n2
    k1 = k1
    k2 = k2
    k3 = k3
    r1 = r1
    r2 = r2
    Ids = {i1, i2}
    Names = {n1, n2}
    Tokens = {k1, k2, k3}
    Requests = {r1, r2}
    Goroutines = {g1}
    Windows <- Periods
    Retention = 1
    MaxChecks = 2
    MaxTime = 2
    NoId = NoId
    NoRow = NoRow
    NoCheck = NoCheck
    NoTime = NoTime
INVARIANTS
    TypeOK
    RetiredTokensRejected
    AnsweredTokensWork
    ChecksHaveTunnels
PROPERTIES
    ImplementsAccess
    DeletedTunnelsStayDeleted
    CleanupKeepsStats
