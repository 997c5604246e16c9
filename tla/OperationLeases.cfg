SPECIFICATION FairSpec
CONSTANTS
    j1 = j1
    j2 = j2
    j3 = j3
    gc = gc
    col = col
    hA = hA
    hB = hB
    cA1 = cA1
    cA2 = cA2
    cB1 = cB1
    Operations = {j1, j2, j3, gc, col}
    Resources = {hA, hB, cA1, cA2}
    Hosts = {hA, hB}
    HostOf <- MCHostOf
    ResourceOf <- MCResourceOf
    TTL = 2
    ShortTTL = 1
    Unrenewed = {col}
    Reclaimable = {j1, j2, gc}
    Heartbeat = 1
    NoOwner = NoOwner
INVARIANTS LeasesExclude
PROPERTIES ImplementsScopedExclusion StaleRowGoes
