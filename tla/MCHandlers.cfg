SPECIFICATION OneSpec
CONSTANTS
  None = None
  Shown = {"door", "shelf", "guest"}
  Passes = {p1, p2, p3}
  Codes = {k1, k2}
  LongCodes = {k3}
  Workers = {w1, w2}
  Life = 1
  MaxTime = 2
  MaxJobDeaths = 1
  MaxRequests = 4
  Items = {"beer", "wine"}
  Null = Null
  Opening <- AtFirst
  StockRequests = {"round", "glass", "void", "revoid", "serve", "unglass", "crate", "waste", "stocktake", "typed"}
  Kind <- KindOf
  Reason <- ReasonOf
  Units <- UnitsOf
  Undoes <- UndoesOf
  Rounds = {"r1", "r2"}
  Taps = {"tap"}
  Refusable = {}
  SessionOf <- OfGuest
  LineOf <- OfLine
  Lines = {"l1"}
  Sessions = {"s1"}
  Orders = {"o1", "o2"}
  Tabs = {"t1"}
  MaxLosses = 1
  MaxDeaths = 0
  MaxLimited = 1
SYMMETRY Doors
INVARIANT SharedCodeNeedsRace
INVARIANT DoubleExitNeedsOverlap
INVARIANT MarksFit
INVARIANT LedgerExplains
INVARIANT PeriodAdds
INVARIANT TwiceNeedsFailure
CHECK_DEADLOCK FALSE
