CONSTANTS
  Chats = {channel, group}
  Groups = {group}
  Tasks = {t1, t2}
  Grace = 1
  MaxMoves = 2
  MaxOps = 2
  MaxRefused = 1
  MaxFaults = 0
  None = None
SPECIFICATION Spec
PROPERTIES
  NeverLeavesRegistered
CHECK_DEADLOCK FALSE
