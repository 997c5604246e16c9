SPECIFICATION Spec
CONSTANTS
    u1 = u1
    r1 = r1
    Updates = {u1}
    Rollbacks = {r1}
    Scan = Scan
    Orphan = Orphan
    Cleanup = Cleanup
    Nobody = Nobody
    Base = Base
    Broken = Broken
    Scenarios <- MCOneCrash
INVARIANT RecoveryTakesOnlyOrphans
CHECK_DEADLOCK FALSE
