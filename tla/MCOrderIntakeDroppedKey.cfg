SPECIFICATION PlaceSpec
CONSTANTS
  r1 = r1
  r2 = r2
  g1 = g1
  g2 = g2
  p1 = p1
  t1 = t1
  w1 = w1
  s1 = s1
  l1 = l1
  None = None
  Rounds = {g1, g2}
  Taps = {}
  Refusable = {}
  SessionOf <- OfWhom
  LineOf <- OneLine
  Lines = {l1}
  Sessions = {s1}
  Orders = {o1, o2}
  Tabs = {t1}
  Workers = {w1}
  MaxLosses = 1
  MaxDeaths = 0
  MaxLimited = 0
INVARIANT BilledAtMostOnce
CHECK_DEADLOCK FALSE
