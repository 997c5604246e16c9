SPECIFICATION FairSpec
CONSTANTS
    u1 = u1
    r1 = r1
    k1 = k1
    w1 = w1
    Updates = {u1}
    Rollbacks = {r1}
    Checks = {k1}
    WorkerUpdates = {w1}
    Dns = {u1}
    Captures = {u1}
    Nobody = Nobody
INVARIANT NoOverlap
PROPERTIES OperationsEnd CircleIsForGood
CHECK_DEADLOCK FALSE
