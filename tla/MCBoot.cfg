CONSTANTS
  PTRS = 8
  LowTables = 2
  EntryIndex = 4
  CpuLevels = {0, 1, 6, 13, 21}
  ExtLevels = {0, 3, 4, 8}
  Signatures <- MCSignatures
  ModelNames <- MCNames
  MsbCycles = 16
  MsbValues = 4
  IoCycles = 3
  Absences = {2, 7, 16}
  MaxAbsences = 2
  MaxReads = 9
  MaxIterations = 6
  ErrorScale = 2
  UintWrap = 2000000
  CrystalLeaves <- MCCrystalLeaves
  MaxTime = 400
  Kilo = 2
  TscKhz = 6
  CounterWrap = 2000
  StartTimes = {1, 5, 700, 990}
  MaxCycles = 3000
  MaxLacking = 1
  ForcedControls <- MCForced
  StartIps = {4096, 65552, 983040, 2097168}
  GuestRights = {147, 155, 251, 243, 41115, 49299, 65536, 65683}
  Regions <- MCRegions
  MemSize = 28
  FIRMWARE_START = 1
  ParamsSize = 8
  ParamsLayout <- MCLayout
  FirmwareSize = 10
  ByteValues = 4
  FirmwareJumps = {5, 1}
  CMDLINE_SIZE = 2
  E820_MAX_ENTRIES_GUEST = 2
  SearchCells = 5
  EntryWrap = 64
  Loaders <- MCLoaders
SPECIFICATION Spec
INVARIANTS
  ModeSwitchesSucceed
  CpuIsIdentified
  CalibrationIsAccurate
  PicsAreSetUp
  GuestIsEntered
  StateSurvivesExit
  KernelIsStarted
PROPERTIES
  CalibrationEnds
CHECK_DEADLOCK FALSE
