SPECIFICATION FairSpec
CONSTANTS
  Client = {c1, c2}
  First = c1
  File = {f}
  Mode = {"O_RDWR"}
  Flags <- MCFlags
  MAXFD = 2
  MAXOPEN = 1
  SeekTo = {0}
  TruncTo = {0}
  FileBlocks = 1
  MaxOpens = 2
  Killed = {c1}
  NULL = NULL
INVARIANTS
  ClientsAreIsolated
PROPERTIES
  NoBlockTwice
  RequestAnswered
CHECK_DEADLOCK FALSE
