SPECIFICATION Spec
CONSTANTS
  NBLOCKS = 10
  NDIRECT = 1
  NINDIRECT = 2
  BLKFILES = 2
  a = a
  b = b
  c = c
  Name = {b}
  Paths <- MCPaths
  newmotd = a
  Text = Text
  Images <- MCTwoFiles
  MaxBoots = 2
  NULL = NULL
INVARIANT NeverReadsFree
CHECK_DEADLOCK FALSE
