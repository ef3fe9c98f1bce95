SPECIFICATION Spec
CONSTANTS
  Shown = {"visit", "bill", "channel", "till", "door", "stations", "floor",
           "covers", "calls", "sheet", "shifts", "tables", "signin", "promos",
           "staff", "store"}
  Dishes = {"beer", "suya"}
  Cooked = {"suya"}
  MaxCart = 1
  MaxRounds = 2
  MaxSessions = 2
  MaxNights = 1
  Bills = {1, 2}
  MaxAnswers = 1
  MaxUndone = 1
  MaxSockets = 4
  MaxCalls = 1
  NightOrders = {"o1", "o2"}
  MaxLines = 1
  MaxTimers = 2
  Guests = {"g1", "g2"}
  MaxPosts = 2
  Screens = {"front", "back"}
  MaxTaps = 4
  Orders = {1}
  MaxLists = 2
  MaxAlertLists = 1
  Chips = {1, 2}
  Typed = {7, 300}
  MaxReads = 2
  Calls = {"c1", "c2"}
  Mine = {"c1"}
  Stations = {"bar"}
  MaxAcks = 1
  ServiceTables = {"t1"}
  MaxSheets = 2
  MaxSends = 2
  MaxHour = 2
  NightHours = 1
  MaxShifts = 2
  MaxTasks = 2
  Attendants = {"ada"}
  Zones = {"vip"}
  MaxFetches = 1
  MaxSaves = 1
  People = {"ada", "bo"}
  MaxFlights = 2
  MaxResets = 1
  Ticks = 6
  Rollover = 2
  Week = 2
  LastTick = 13
  Discounts = {10, 30}
  MaxPromos = 2
  Pins = {1, 2}
  MaxAsks = 2
  MaxPasswords = 2
  Pack = 2
  Openings = {1, 3}
  MaxShelf = 4
  MaxMoves = 2
  HomeOf <- MCHomeOf
  TableOf <- MCTableOf
  CategoryOf <- MCCategoryOf
  Windows <- MCWindows
  DayLists <- MCDayLists
 
 
INVARIANT GoodbyeIsTrue
INVARIANT DeafNeedsCrossing
INVARIANT TickCoversOnePayment
INVARIANT VerdictIsForGuest
PROPERTY BackwardsNeedsHurry
INVARIANT ServedIsBilled
INVARIANT ShownIsSaved
INVARIANT NobodyWaitsUnseen
INVARIANT SheetIsTrue
INVARIANT HoursAreTrue
INVARIANT TableIsAsMeant
INVARIANT TokenIsTheScreens
INVARIANT PricedAsAdvertised
INVARIANT HandedOverWorks
INVARIANT LevelIsShelf
CHECK_DEADLOCK FALSE
