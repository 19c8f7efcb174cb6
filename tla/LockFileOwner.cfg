SPECIFICATION Spec
CONSTANTS
  Proc = {p1, p2}
  NoFile = NoFile
  Killable = FALSE
  Timeouts = FALSE
INVARIANTS OnlyOneOwner
CHECK_DEADLOCK FALSE
