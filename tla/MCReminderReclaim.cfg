\* One user, one worker, one fault, a clock that outlives the reclaim age.
CONSTANTS
  u1 = u1
  w1 = w1
  h1 = h1
  None = None
  User = {u1}
  Worker = {w1}
  HttpHandler = {h1}
  Actor <- MCActor
  DayMinutes = 2
  MinuteTicks = 1
  MaxClock = 3
  MaxRequests = 0
  Fallible = {w1}
  Legacy = TRUE
  MaxAttempts = 2
  MaxStalls = 1
  StaleAfter = 1
  MaxFaults = 1
SPECIFICATION FairSpec
CHECK_DEADLOCK FALSE
PROPERTIES
  PendingIsReclaimed
