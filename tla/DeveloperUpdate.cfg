SPECIFICATION DeveloperSpec
CONSTANTS
  tab1 = tab1
  tab2 = tab2
  Tabs <- const_Tabs
  Rescuers = {tab2}
  MaxRequests = 3
  MaxRestarts = 1
INVARIANTS
  SettledIsTrue
PROPERTIES
  HelperOwnsTheTree
  UpdatesEnd
CHECK_DEADLOCK FALSE
