SPECIFICATION Spec
CONSTANTS
  app = app
  side = side
  other = other
  m1 = m1
  m2 = m2
  Writers <- const_Writers
  Target = app
  Dependents <- const_Dependents
  Mounts <- const_TwoMounts
  MaxFaults = 3
  MaxCrashes = 1
  MaxRollbacks = 2
INVARIANT
  RestoreIsAllOrNothing
CHECK_DEADLOCK FALSE
