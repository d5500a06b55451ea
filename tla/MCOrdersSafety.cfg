CONSTANTS
  MaxOrders = 1
  Users = {u1}
  Products = {p1}
  Tasks = {t1, t2, t3}
  MaxFaults = 1
  NoUser = NoUser
  NoProduct = NoProduct
SPECIFICATION FairSpec
INVARIANTS
  TypeOK
  EachNoticeOnce
  NoticesAreTrue
PROPERTIES
  EndedChatStaysEnded
  KeepsPromise
  AcceptedIsTold
  ConfirmationEnds
