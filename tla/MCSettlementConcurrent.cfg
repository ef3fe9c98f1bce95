SPECIFICATION Spec
CONSTANTS
  Orders = {o1}
  Items = {i1, i2}
  Payments = {p1, p2}
  Sessions = {s1}
  Workers = {w1, w2}
  None = None
  Subtotal <- MCSubtotal
  Tendered <- MCTendered
  ServicePct = 10
  VatPct = 10
  Targets <- AnyTarget
  MaxAborts = 0
  MaxDups = 0
SYMMETRY Symmetry
CONSTRAINT OneTrouble
INVARIANT SettledIsBacked
INVARIANT ConfirmedHasPass
INVARIANT TillTakesOnce
INVARIANT MoneyAddsUp
PROPERTY SettledForGood
PROPERTY ImplementsClearance
CHECK_DEADLOCK FALSE
