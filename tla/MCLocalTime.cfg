\* One user, two handlers, two requests, none of them cut short.
CONSTANTS
  u1 = u1
  h1 = h1
  h2 = h2
  User = {u1}
  Actor = {h1, h2}
  DayMinutes = 2
  MinuteTicks = 1
  MaxClock = 0
  MaxRequests = 2
  Fallible = {}
  Legacy = FALSE
SPECIFICATION PrefSpec
SYMMETRY Symmetry
CHECK_DEADLOCK FALSE
INVARIANTS
  LocalTimePreserved
