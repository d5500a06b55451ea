CONSTANTS
  NumProducts = 1
  NumChats = 2
  Fields = {name, price}
  Legacy = {1}
  DeletePrevious = TRUE
  Tasks = {t1, t2}
  MaxPubs = 3
  MaxOps = 2
  MaxFaults = 1
  Hidden = Hidden
SPECIFICATION Spec
INVARIANTS
  PostsMatchTheRow
  OnePostPerChat
  DroppedIsTakenDown
PROPERTIES
  ShownWithItsId
CHECK_DEADLOCK FALSE
