SPECIFICATION OneSpec
CONSTANTS
  None = None
  Shown = {"door"}
  Passes = {p1, p2}
  Codes = {k1}
  LongCodes = {}
  Workers = {w1}
  Life = 1
  MaxTime = 2
  MaxJobDeaths = 0
  MaxRequests = 4
  Items = {"beer", "wine"}
  Null = Null
  Opening <- AtFirst
  StockRequests = {"round", "glass", "void", "revoid", "serve", "unglass", "crate", "waste", "stocktake", "typed"}
  Kind <- KindOf
  Reason <- ReasonOf
  Units <- UnitsOf
  Undoes <- UndoesOf
  Rounds = {"r1", "r2"}
  Taps = {"tap"}
  Refusable = {}
  SessionOf <- OfGuest
  LineOf <- OfLine
  Lines = {"l1"}
  Sessions = {"s1"}
  Orders = {"o1", "o2"}
  Tabs = {"t1"}
  MaxLosses = 1
  MaxDeaths = 0
  MaxLimited = 1
INVARIANT ValidPassOpens
CHECK_DEADLOCK FALSE
