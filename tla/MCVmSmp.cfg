SPECIFICATION SmpSpec
CONSTANTS
  Env = {e0, e1}
  RamPage = {p1, p2, p3, p4, p5}
  Zero = Zero
  EnvsPage = EnvsPage
  KernTable = KernTable
  NPDX = 1
  NPTX = 2
  RefMod = 8
  ImageVa <- MCImageVa
  MaxStray = 1
  Careless = {}
  NULL = NULL
  CPU = {cpu0, cpu1}
INVARIANT TlbCoherent
SYMMETRY SmpSymmetry
CHECK_DEADLOCK FALSE
