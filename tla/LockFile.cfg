SPECIFICATION FairSpec
CONSTANTS
  Proc = {p1, p2, p3}
  NoFile = NoFile
  Killable = TRUE
  Timeouts = TRUE
INVARIANTS NobodyWaitsInVain NoLeftovers ModuleIsThere
PROPERTIES EveryImportEnds
CHECK_DEADLOCK FALSE
