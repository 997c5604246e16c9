SPECIFICATION Spec
CONSTANTS
    N = 2
    Definitions <- MCShared
    MaxCrashes = 1
INVARIANT BaselineIsRestored
CHECK_DEADLOCK FALSE
