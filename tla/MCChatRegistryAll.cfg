CONSTANTS
  Chats = {channel, group}
  Groups = {group}
  Tasks = {t1, t2}
  Grace = 1
  MaxMoves = 2
  MaxOps = 2
  MaxRefused = 1
  MaxFaults = 1
  None = None
SPECIFICATION FairSpec
INVARIANTS
  CacheIsTheTable
  ForeignIsTracked
PROPERTIES
  ForeignIsLeft
CHECK_DEADLOCK FALSE
