SPECIFICATION Spec
CONSTANTS
  MaxSnapshots = 2
  Retention = 1
  MaxCrashes = 1
INVARIANTS
  CapturedImageStays
  UnitsStayBounded
PROPERTIES
  GarbageIsFound
CHECK_DEADLOCK FALSE
