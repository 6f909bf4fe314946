CONSTANTS
  M = 8
  Regions <- MCRegions
  Types = {1, 2}
  MaxInput = 3
  MaxEntries = 4
  VmmStart = 2
  VmmEnd = 4
SPECIFICATION FairSpec
INVARIANTS
  SanitizedIsExact
  MappedAllIsExact
  GuestMapIsRight
PROPERTIES
  BootTerminates
CHECK_DEADLOCK FALSE
