SPECIFICATION FairSpecs
CONSTANTS
  OFF = OFF
  Parts = {"ux", "console", "shell", "sieve", "usermem", "boot"}
  \* UxStack
  StackTop = 4
  UXBottom = 10
  UXTop = 28
  Push = 2
  MaxFaults = 4
  UserRegs = {"u", "v"}
  \* Console
  Key = {"d", "enter", "shift", "ctl", "rightctl", "alt", "caps", "delete"}
  SerialByte = {0, 97, 127}
  CONSBUFSIZE = 3
  BUFLEN = 4
  CRT_COLS = 3
  CRT_ROWS = 3
  Printed = {8, 9, 13}
  MaxInput = 3
  MaxWaiting = 2
  MaxPrints = 1
  \* Shell
  Pid = {1, 2, 3, 4, 5, 6, 7}
  Root = 1
  ForkMayFail = TRUE
  PipeId = {1, 2}
  Capacity = 1
  Programs <- MCPrograms
  Enter <- MCEnter
  Home = "home"
  Scripts <- MCScripts
  OldFiles = {}
  \* Sieve
  Numbers = {0, 3, 6, 8}
  Filters = 5
  SieveCapacity = 1
  MayFail = {"pipe", "fork"}
  \* UserMem
  PGSIZE = 3
  VASPACE = 12
  ULIM = 9
  NoTable = {"no table"}
  UserEntry = {{"no table"}, {"P", "U"}, {"P", "U", "W"}, {"U", "W"}}
  KernEntry = {"P", "W"}
  Perm = {{"U"}, {"U", "W"}}
  \* Boot
  NPT = 32
  UPD = 2
  WPD = 2
  MPENTRY = 2
  IOPHYSMEM = 4
  EXTPHYSMEM = 6
  BOOTSTACK = 7
  PERCPU = 9
  KSTKSIZE = 2
  KSTKGAP = 1
  NCPU = 2
  PER = 16
  ENVSPAGES = 2
  MB16 = 160
  LAPIC = 1000
  KernelEnd = {13, 14}
  Cmos <- MCCmos
INVARIANTS
  
  ConsoleIsSound
  LinesAreRunSafely
  SieveIsSound
  
  
PROPERTIES
  ResumesExactly
  EveryoneEnds
CHECK_DEADLOCK FALSE
