CONSTANTS
  Procs = {p1, p2}
  Sessions = {s1, s2}
  None = None
  MaxBuffer = 1
  OneAtATime = TRUE
  DbFaults = FALSE
  Sweeps = TRUE
SPECIFICATION Spec
INVARIANTS OneDecision DecisionRowsAgree
PROPERTY KeepsScreenConsent
