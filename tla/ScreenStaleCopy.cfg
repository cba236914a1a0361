CONSTANTS
  Procs = {p1, p2}
  Sessions = {s1}
  None = None
  MaxBuffer = 1
  OneAtATime = FALSE
  DbFaults = FALSE
  Sweeps = FALSE
SPECIFICATION Spec
PROPERTY StoppedStaysStopped
