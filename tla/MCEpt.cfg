CONSTANTS
  PageSize = 2
  PdEntries = 2
  PdTables = 2
  PdptEntries = 3
  VmmStart = 2
  VmmEnd = 4
  MaxPhys = 14
  Values = {0, 1}
  BootMem <- MCBootMem
  NoAccess = NoAccess
SPECIFICATION FairSpec
INVARIANTS
  IdentityMap
  SoftwareWalkAgrees
PROPERTIES
  VmmUntouched
  ImplementsFairGuestMemory
CHECK_DEADLOCK FALSE
