SPECIFICATION FairSpec
CONSTANTS
  Orders = {o1, o2}
  Items = {i1, i2}
  Payments = {p1, p2}
  Sessions = {s1}
  Workers = {w1}
  None = None
  Subtotal <- MCSubtotal
  Tendered <- MCTendered
  ServicePct = 10
  VatPct = 10
  Targets <- AnyTarget
  MaxAborts = 1
  MaxDups = 1
PROPERTY ChargesComeThrough
CHECK_DEADLOCK FALSE
