CONSTANTS
  Admins = {a1, a2}
  NoAdmin = NoAdmin
  Tasks = {t1}
  IdleSweep = IdleSweep
  WaitSweep = WaitSweep
  MaxRounds = 1
  MaxMsgs = 1
  MaxFaults = 1
  MayCrash = TRUE
SPECIFICATION FairSpec
INVARIANTS
  OfferedIsQuiet
PROPERTIES
  QuietChatIsOffered
  WaitingCustomerIsTold
CHECK_DEADLOCK FALSE
