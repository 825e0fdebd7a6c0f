SPECIFICATION Spec
CONSTANTS
  NBLOCKS = 8
  NDIRECT = 1
  NINDIRECT = 2
  BLKFILES = 2
  a = a
  b = b
  c = c
  Name = {a, b}
  Paths <- MCPaths
  newmotd = a
  Text = Text
  Images <- MCImages
  MaxBoots = 1
  NULL = NULL
   
PROPERTY FlushedIsDurable
CHECK_DEADLOCK FALSE
