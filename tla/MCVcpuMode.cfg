SPECIFICATION Spec
INVARIANTS
  SyscallsTrap
  OnlyBadWritesKill
PROPERTIES
  ImplementsLongMode
CHECK_DEADLOCK FALSE
