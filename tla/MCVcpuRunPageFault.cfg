CONSTANTS
  H = 5
  Movs <- MCMovs
  Kinds = {"pagefault"}
  TscValues <- MCTscValues
  NativeCpuid <- MCNativeCpuid
  MaxInstr = 2
  HostContext <- MCHostContext
  BootStates = {"clear"}
  UdLengths = {2}
SPECIFICATION Spec
INVARIANT PageFaultIsNotFatal
CHECK_DEADLOCK FALSE
