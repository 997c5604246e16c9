SPECIFICATION FairSpec
CONSTANTS
    N = 3
    Definitions <- MCDefinitions
    MaxCrashes = 1
INVARIANTS OneAtATime SettledRunsAreTrue
PROPERTIES NothingBeforePlan RunsSettle
CHECK_DEADLOCK FALSE
