SPECIFICATION Spec
CONSTANTS
    u1 = u1
    r1 = r1
    k1 = k1
    w1 = w1
    Updates = {u1}
    Rollbacks = {r1}
    Checks = {}
    WorkerUpdates = {}
    Dns = {r1}
    Captures = {u1}
    Nobody = Nobody
INVARIANT OutageStopsAllChecks
