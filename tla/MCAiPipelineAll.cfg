CONSTANTS
  MaxProducts = 1
  Workers = {w1, w2}
  Handlers = {h1, h2}
  Recovery = Recovery
  QueueMax = 1
  MaxAttempts = 2
  MaxEdits = 1
  MaxTaps = 1
  MaxFaults = 1
  MayCrash = TRUE
SPECIFICATION FairSpec
INVARIANTS
  OneWorkerPerPutBack
  AttemptsBounded
  OutcomesAreFinal
PROPERTIES
  EverythingSettles
CHECK_DEADLOCK FALSE
