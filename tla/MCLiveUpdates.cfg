SPECIFICATION FairSpec
CONSTANTS
  None = None
  w1 = w1
  w2 = w2
  ann = ann
  Workers = {w1, w2}
  Screens = {ann}
  MaxVersion = 2
  MaxFaults = 1
INVARIANT LinksInv
INVARIANT StaleHasReason
PROPERTY AllCatchUp
CHECK_DEADLOCK FALSE
