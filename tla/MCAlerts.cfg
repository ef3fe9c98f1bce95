SPECIFICATION FairSpec
CONSTANTS
  None = None
  w1 = w1
  w2 = w2
  ann = ann
  ben = ben
  call = call
  Workers = {w1, w2}
  Attendants = {ann, ben}
  Calls = {call}
  MaxDeaths = 1
INVARIANT NewsIsTrue
PROPERTY NeverBackwards
PROPERTY ReachesOwner
CHECK_DEADLOCK FALSE
