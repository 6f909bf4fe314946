CONSTANTS
  MaxNum = 5
  Keys = {0, 1, 2}
  Directives <- MCDirectives
  Sizes = {0, 1, 4, 8, 101}
  Tops = {6, 1000}
  Cells = 10
  IntBits = 20
  LongBits = 28
  INT_MAX = 100
  BITS_PER_LONG = 3
  Sources <- MCSources
  SourceSize = 18
  Counts = {0, 1, 7, 8, 9, 16, 18}
  ChangedAt = {0, 7, 8, 9, 17}
  ChangedTo = {0, 128}
  MaxChanges = 1
  Heads = {h1, h2}
  Entries = {e1, e2, e3}
  MaxListOps = 5
  MemSize = 5
  ByteValues = {0, 1, 2}
  BitmapBits = 6
  HexSources <- MCHexSources
  BinSources <- MCBinSources
  Numbers <- MCNumbers
SPECIFICATION Spec
INVARIANTS
  SortIsCorrect
  
  CopyIsString
  CallsAreExact
PROPERTIES
  ListsAreSequences
  LoopsTerminate
CHECK_DEADLOCK FALSE
