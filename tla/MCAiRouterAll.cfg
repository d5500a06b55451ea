CONSTANTS
  Entries <- Cascade
  Calls = {c1, c2}
  Photo = {c1}
  Cool = 1
  Short = 1
  Midnight = 2
  MaxRetries = 1
  MaxRounds = 1
  MaxBlocked = 1
  MaxCalls = 2
  MaxTrouble = 2
  MaxWorld = 1
SPECIFICATION FairSpec
PROPERTIES
  AttemptIsAllowed
  BestGroupFirst
  TriesBeforeFailing
  ExhaustionHolds
  RejectedIsSaved
  EveryCallEnds
CHECK_DEADLOCK FALSE
