CONSTANTS
  a1 = a1
  a2 = a2
  a3 = a3
  b1 = b1
  b2 = b2
  Actions = {a1, a2, a3}
  Resubmitted = {a1, a2}
  Kind <- MCRequests
  Malformed = {}
  Subsystems = {"screen"}
  Submitters = {q1, q2}
  Workers = {w1}
  None = None
  MaxSize = 1
  MaxRetries = 1
  FailureCap = 2
  MaxInterruptions = 1
  MaxEvents = 2
  MaxDevice = 1
  Handlers = {h1, h2}
  BusWorkers = {b1, b2}
  MaxQueueSize = 1
  MaxBusRetries = 1
SPECIFICATION MCSpec
CHECK_DEADLOCK FALSE
INVARIANTS
  ExecutedAtMostOnce RunsAreBounded
  CopiesAreAccountedFor DeliveriesAreBounded FirstDeliveriesInOrder
PROPERTIES ExpiredNeverRuns QueueDrains
