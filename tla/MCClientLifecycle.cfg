SPECIFICATION FairSpec
CONSTANTS
    r1 = r1
    r2 = r2
    u1 = u1
    i1 = i1
    i2 = i2
    i3 = i3
    w1 = w1
    w2 = w2
    a = a
    b = b
    None = None
    Ids = {a}
    IdOf <- OneId
    Forced = {i2}
    Registers = {r1, r2}
    Unregisters = {u1}
    Inits = {i1, i2}
    Sockets = {w1, w2}
INVARIANTS TypeOK OneLiveConnection
PROPERTIES LeasesRuntimes EndpointEndsItsOwn RequestsAreAnswered
CHECK_DEADLOCK FALSE
