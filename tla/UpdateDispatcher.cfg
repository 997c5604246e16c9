SPECIFICATION FairDispatcherSpec
CONSTANTS
    u1 = u1
    u2 = u2
    u3 = u3
    r1 = r1
    u4 = u4
    h1 = h1
    h2 = h2
    h3 = h3
    Updates = {u1, u2, u3, u4}
    Others = {r1}
    Pipelines = {u1, u2, u3, u4, r1}
    Hosts = {h1, h2, h3}
    HostOf <- MCHostOf
    Limit = 2
    QueueCap = 2
    Cancellable = {u2}
    Unmarked = {r1}
    StuckHosts = {h1}
INVARIANTS BooksBalance GateInv
PROPERTIES BacklogInOrder ImplementsExclusion QueuedUpdatesEnd
CHECK_DEADLOCK FALSE
