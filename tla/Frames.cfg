CONSTANTS
  s1 = s1
  s2 = s2
  ScreenSessions = {s1, s2}
  MaxCaptures = 2
  MaxTokens = 2
  MaxPipelines = 2
  MaxFrames = 2
  MaxWaiting = 1
  MaxSequence = 6
  WindowSize = 2
  MaxSize = 2
SPECIFICATION MCSpec
VIEW LiveStatesMerged
SYMMETRY ScreenSymmetry
CHECK_DEADLOCK FALSE
INVARIANTS
  ConsentIsFresh NoFramesOutliveTheStop
  EachOnceInOrder FramesAreAccountedFor
