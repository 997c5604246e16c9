SPECIFICATION Spec
CONSTANTS
  Situations <- const_Situations
  Configured <- const_Configured
  Checks = 2
  Retries = 1
  MaxEdits = 1
  MaxUpdates = 1
  MaxTests = 1
  MaxFaults = 1
  MaxCrashes = 1
INVARIANTS
  ShownIsTrue
PROPERTIES
  UpdatesAreCovered
  VerificationEnds
CHECK_DEADLOCK FALSE
