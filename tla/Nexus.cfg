CONSTANTS
  Sessions = {s1, s2}
  MaxFrames = 3
  Window = 1
  IdCache = 2
  MaxHandshakes = 2
  MaxSealed = 2
SPECIFICATION MCSpec
INVARIANTS
  AcceptedOnce OneLateMessage NoGhostConnection NonceUsedOnce FramesFindTheirSession
PROPERTY StopDrains
