SPECIFICATION Spec
CONSTANTS
  Env = {e0, e1}
  RamPage = {p1, p2, p3, p4, p5}
  Zero = Zero
  EnvsPage = EnvsPage
  KernTable = KernTable
  NPDX = 1
  NPTX = 2
  RefMod = 8
  MaxStray = 1
  ImageVa <- MCImageVa
  Careless = {}
  NULL = NULL
INVARIANTS TypeOK RefCountExact FreeListExact TablesPrivate 
PROPERTIES NoWriteRegained OnlyWhereInvited
SYMMETRY PageSymmetry
CHECK_DEADLOCK FALSE
