SPECIFICATION Spec
CONSTANTS
  NENV = 3
  NBOOT = 1
  CPU = {cpu0, cpu1}
  BootCPU = cpu0
  MaxGen = 2
  Calls = {"yield", "fork", "destroy", "fault", "ipc"}
  NULL = NULL
INVARIANTS TypeOK MutualExclusion CurrentEnvs FreeListExact ChildIntact ReceiverBlocked MonitorIsFinal
PROPERTIES FreshIds ZombieKeepsSlot
CHECK_DEADLOCK FALSE
