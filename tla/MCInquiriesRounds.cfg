CONSTANTS
  Admins = {a1, a2}
  NoAdmin = NoAdmin
  Tasks = {t1, t2}
  IdleSweep = IdleSweep
  WaitSweep = WaitSweep
  MaxRounds = 2
  MaxMsgs = 1
  MaxFaults = 0
  MayCrash = FALSE
SPECIFICATION Spec
SYMMETRY Interchangeable
INVARIANTS
  OwnerHasTheTalk
PROPERTIES
  OwnershipPasses
CHECK_DEADLOCK FALSE
