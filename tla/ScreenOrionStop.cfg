CONSTANTS
  Procs = {p1}
  Sessions = {s1}
  None = None
  MaxBuffer = 1
  OneAtATime = TRUE
  DbFaults = FALSE
  Sweeps = FALSE
SPECIFICATION Spec
PROPERTY EndReachesTheRow
