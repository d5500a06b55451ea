CONSTANTS
  NumAdmins = 2
  MaxOrders = 1
  MaxMsgs = 5
  MaxFaults = 1
  MaxMixed = 0
  RemindMax = 1
  BatchSize = 1
  Tasks = {t1, t2}
SPECIFICATION FairSpec
INVARIANTS
  CardIsCurrent
  EveryReplyFindsTheChat
  NothingIsLeftBehind
  RemindersBounded
PROPERTIES
  PendingIsReminded
CHECK_DEADLOCK FALSE
