CONSTANTS
  NR_VECTORS = 40
  FIRST_EXTERNAL_VECTOR = 32
  LOCAL_TIMER_VECTOR = 35
  ERROR_APIC_VECTOR = 38
  SPURIOUS_APIC_VECTOR = 39
  Vectors = {0, 1, 4, 8, 11, 14, 32, 35, 38, 39}
  MaxNest = 3
  BITS_PER_LONG = 16
  Messages <- MCMessages
  Prefix <- MCPrefix
  LOG_LINE_MAX = 5
  Columns = 3
  Lines = 2
  CrtRadix = 4
  MaxMessages = 3
SPECIFICATION Spec
INVARIANTS
  EntryStaysMapped
  HandlerSeesContext
  ReturnsResume
  InterruptsAreServed
  ConsolesAreWhole
  ScreenIsRight
PROPERTIES
  CallsReturn
CHECK_DEADLOCK FALSE
