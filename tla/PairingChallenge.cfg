CONSTANTS
  Procs = {p1}
  Sessions = {s1}
  Children = {c1, c2}
  Nonces = {n1}
  None = None
  MaxAttempts = 1
  MaxAnswers = 1
  OneAtATime = TRUE
SPECIFICATION Spec
INVARIANT TrustIsOfTheChallenged
