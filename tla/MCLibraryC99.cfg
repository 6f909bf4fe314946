CONSTANTS
  MaxNum = 1
  Keys = {0}
  Directives <- C99Directives
  Sizes = {8}
  Tops = {1000}
  Cells = 10
  IntBits = 20
  LongBits = 28
  INT_MAX = 100
  BITS_PER_LONG = 3
  Sources <- MCSources
  SourceSize = 18
  Counts = {0}
  ChangedAt = {0}
  ChangedTo = {0}
  MaxChanges = 0
  Heads = {h1}
  Entries = {e1}
  MaxListOps = 1
  MemSize = 5
  ByteValues = {0}
  BitmapBits = 1
  HexSources = {}
  BinSources = {}
  Numbers = {}
SPECIFICATION Spec
INVARIANT FormatFollowsC99
CHECK_DEADLOCK FALSE
