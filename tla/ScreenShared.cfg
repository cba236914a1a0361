CONSTANTS
  Procs = {p1, p2}
  Sessions = {s1}
  None = None
  MaxBuffer = 1
  OneAtATime = FALSE
  DbFaults = TRUE
  Sweeps = TRUE
SPECIFICATION Spec
SYMMETRY Symmetry
INVARIANTS IndicatorShowsActive ViewNeedsConsent FramesOnlyWhileActive
