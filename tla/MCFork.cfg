SPECIFICATION Spec
CONSTANTS
  Env = {e1, e2, e3}
  First = e1
  Layout <- MCLayout
  Stack = "stack"
  Text = {"text"}
  Shared = {"fd"}
  Frame = {1, 2, 3, 4, 5, 6, 7, 8, 9, 10, 11, 12, 13, 14}
  Value = {0, 1}
  Zero = 0
  Method = {"fork", "fork_v0", "dumbfork"}
  NULL = NULL
SYMMETRY MCSymmetry
INVARIANTS
  CowIsSafe
PROPERTIES
  FaultIsTransparent
  ForkIsSnapshot
CHECK_DEADLOCK FALSE
