SPECIFICATION TrackingSpec
CONSTANTS
  MaxDigest = 2
  Minutes = 2
  Policies <- const_Policies
  Rules <- const_StepFirst
  Bads <- const_Bads
  MaxClicks = 1
  MaxFails = 1
  MaxEvents = 4
  MaxUndone = 1
INVARIANTS
  ListsAreAlternatives
CHECK_DEADLOCK FALSE
