SPECIFICATION Spec
CONSTANTS
  Proc = {a, b}
  Creator = a
  MAXFD = 3
  PIPEBUFSIZ = 1
  MaxBytes = 2
  Smp = FALSE
  NULL = NULL
PROPERTY EofAfterLastByte
CHECK_DEADLOCK FALSE
