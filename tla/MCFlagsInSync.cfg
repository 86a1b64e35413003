\* One user, two handlers, three requests, no failure: only overlapping requests.
CONSTANTS
  u1 = u1
  h1 = h1
  h2 = h2
  User = {u1}
  Actor = {h1, h2}
  DayMinutes = 2
  MinuteTicks = 1
  MaxClock = 1
  MaxRequests = 3
  Fallible = {}
  Legacy = FALSE
SPECIFICATION PrefSpec
SYMMETRY Symmetry
CHECK_DEADLOCK FALSE
INVARIANTS
  FlagsInSync
