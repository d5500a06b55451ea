CONSTANTS
  MaxOrders = 2
  Users = {u1}
  Products = {p1}
  Tasks = {t1, t2}
  MaxFaults = 0
  NoUser = NoUser
  NoProduct = NoProduct
SPECIFICATION Spec
SYMMETRY TaskSymmetry
INVARIANTS
  NoDuplicateOrder
