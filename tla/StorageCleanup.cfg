SPECIFICATION Spec
CONSTANTS
  Images = {i1, i2, helper}
  Networks = {net}
  Volumes = {data, scratch, archives}
  Anonymous = {scratch}
  FirstImage = i1
  HelperImage = helper
  Archives = archives
  Rules <- MCRules
  MaxUpdates = 1
  MaxFaults = 1
  MaxRequests = 2
PROPERTIES
  RetainedStays
  ReferencedStays
  CleanupsEnd
CHECK_DEADLOCK FALSE
