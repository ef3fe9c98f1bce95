SPECIFICATION PlaceFair
CONSTANTS
  r1 = r1
  r2 = r2
  g1 = g1
  g2 = g2
  p1 = p1
  t1 = t1
  w1 = w1
  s1 = s1
  l1 = l1
  None = None
  Rounds = {r1, r2, g1, g2}
  Taps = {p1}
  Refusable = {r2}
  SessionOf <- OfWhom
  LineOf <- OneLine
  Lines = {l1}
  Sessions = {s1}
  Orders = {o1, o2}
  Tabs = {t1, t2}
  Workers = {w1, w2}
  MaxLosses = 1
  MaxDeaths = 1
  MaxLimited = 1
INVARIANT StaffBilledOnce
INVARIANT ConfirmedIsOwned
PROPERTY QueueKeepsFaith
PROPERTY EverythingIsServed
CHECK_DEADLOCK FALSE
