SPECIFICATION TillSpec
CONSTANTS
  NightOrders = {"o1"}
  MaxLines = 2
  MaxTimers = 1
INVARIANT FormAsksWhatIsOwed
CHECK_DEADLOCK FALSE
