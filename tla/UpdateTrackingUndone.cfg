SPECIFICATION TrackingSpec
CONSTANTS
  MaxDigest = 2
  Minutes = 2
  Policies <- const_Policies
  Rules <- const_Rules
  Bads <- const_Bads
  MaxClicks = 1
  MaxFails = 1
  MaxEvents = 4
  MaxUndone = 1
PROPERTIES
  UndoneStaysOut
CHECK_DEADLOCK FALSE
