SPECIFICATION FairSpec
CONSTANTS
  NENV = 4
  NBOOT = 4
  CPU = {cpu0, cpu1}
  BootCPU = cpu0
  MaxGen = 2
  Calls = {"yield", "destroy", "ipc", "status"}
  NULL = NULL
PROPERTIES NoStarvation 
CHECK_DEADLOCK FALSE
