CONSTANTS
  a1 = a1
  a2 = a2
  a3 = a3
  Actions = {a1, a2, a3}
  Resubmitted = {}
  Kind <- MCMixed
  Malformed = {a3}
  Subsystems = {"screen", "alerts", "transport"}
  Submitters = {q1, q2}
  Workers = {w1}
  None = None
  MaxSize = 1
  MaxRetries = 1
  FailureCap = 2
  MaxInterruptions = 2
SPECIFICATION FairSpec
INVARIANT QueueIsBounded
PROPERTIES KeepsOrionPromise EverythingSettles
