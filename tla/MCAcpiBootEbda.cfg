CONSTANTS
  Paragraphs <- MCParagraphs
  WindowSize = 2
  Listed <- MCListed
  MaxListed = 3
  MaxTables = 2
  Addresses = {0, 1}
  MadtEntries <- MCMadtEntries
  MaxMadtEntries = 3
  NR_CPUS = 2
  MaxLocalApic = 3
  ApicIds = {0, 1, 2}
  BootApicId = 0
  BAD_APICID = 99
  DefaultAddr = 0
  Leftovers <- MCLeftovers
SPECIFICATION FairSpec
INVARIANT EbdaIsSearched
CHECK_DEADLOCK FALSE
