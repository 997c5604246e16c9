SPECIFICATION Spec
CONSTANTS
  app = app
  side = side
  other = other
  m1 = m1
  m2 = m2
  Writers <- const_Writers
  Target = app
  Dependents <- const_Dependents
  Mounts <- const_OneMount
  MaxFaults = 3
  MaxCrashes = 1
  MaxRollbacks = 2
INVARIANTS
  RollbackIsHonest
  WritersComeBack
  ReadyPointIsWhole
CHECK_DEADLOCK FALSE
