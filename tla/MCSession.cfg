CONSTANTS
    Requests = {r1, r2}
    w2 = w2
    d1 = d1
    d2 = d2
    Workers = {w1, w2, w3}
    Devices = {d1, d2}
    conn <- MCConn
    Notifiers = {n1, n2}
    NotifyIds = {0, 1}
    None = None
SPECIFICATION Spec
SYMMETRY Perms
CONSTRAINT Scenarios
INVARIANTS
    TypeOK
    AnsweredByOwnHandler
    NoRequestLost
    ExitHasCause
    AtMostOneLateRead
    NotifyIdsDistinct
