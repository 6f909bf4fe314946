CONSTANTS
  H = 5
  Movs <- MCMovs
  Kinds = {"sti", "cli", "wrmsr", "cpuid", "rdtsc", "movcr3", "syscall", "sysret", "pagefault", "badop", "rdmsr_vmx", "nohandler"}
  TscValues <- MCTscValues
  NativeCpuid <- MCNativeCpuid
  MaxInstr = 4
  HostContext <- MCHostContext
  BootStates = {"clear", "launched"}
  UdLengths = {2}
SPECIFICATION FairSpec
PROPERTIES
  NoStaleDispatch
  FailedEntryIsFatal
  ImplementsGuestCpu
CHECK_DEADLOCK FALSE
