SPECIFICATION TrackingSpec
CONSTANTS
  MaxDigest = 3
  Minutes = 2
  Policies <- const_Policies
  Rules <- const_Rules
  Bads <- const_Bads
  MaxClicks = 1
  MaxFails = 1
  MaxEvents = 3
  MaxUndone = 1
INVARIANTS
  OffersAreReal
PROPERTIES
  SnoozeIsBoundToItsDigest
  RowSettles
  AutoUpdatesArrive
CHECK_DEADLOCK FALSE
