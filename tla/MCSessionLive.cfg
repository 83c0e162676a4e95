CONSTANTS
    Requests = {r1, r2}
    w2 = w2
    d1 = d1
    d2 = d2
    Workers = {w1, w2}
    Devices = {d1, d2}
    conn <- MCConn
    Notifiers = {}
    NotifyIds = {}
    None = None
SPECIFICATION FairSpec
PROPERTIES
    WorkersStop
    Served
