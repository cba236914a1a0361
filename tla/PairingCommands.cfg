CONSTANTS
  s1 = s1
  s2 = s2
  n1 = n1
  n2 = n2
  q1 = q1
  q2 = q2
  t1 = t1
  d1 = d1
  d2 = d2
  m1 = m1
  Procs = {p1}
  Sessions = {s1, s2}
  Children = {c1}
  Nonces = {n1, n2}
  None = None
  MaxAttempts = 2
  MaxAnswers = 2
  OneAtATime = TRUE
SPECIFICATION MCSpec
SYMMETRY Symmetry
VIEW TrustView
INVARIANTS TrustIsEarned DenialIsFinal GuessesAreBounded OverlappingTrustIsEarned
PROPERTY ClosedStaysClosed
