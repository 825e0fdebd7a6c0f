SPECIFICATION Spec
CONSTANTS
  NENV = 3
  NBOOT = 1
  CPU = {cpu0, cpu1}
  BootCPU = cpu0
  MaxGen = 2
  Calls = {"fork", "destroy", "rekill"}
  NULL = NULL
PROPERTY ZombieKeepsSlot
CHECK_DEADLOCK FALSE
