CONSTANTS
  MaxProducts = 1
  Workers = {w1, w2}
  Handlers = {h1}
  Recovery = Recovery
  QueueMax = 1
  MaxAttempts = 2
  MaxEdits = 1
  MaxTaps = 0
  MaxFaults = 0
  MayCrash = FALSE
SPECIFICATION Spec
INVARIANTS
  EditsReRunTheAi
CHECK_DEADLOCK FALSE
