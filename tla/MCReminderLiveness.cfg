\* One user, two workers, two faults, no request after the start.
CONSTANTS
  u1 = u1
  w1 = w1
  w2 = w2
  h1 = h1
  None = None
  User = {u1}
  Worker = {w1, w2}
  HttpHandler = {h1}
  Actor <- MCActor
  DayMinutes = 2
  MinuteTicks = 1
  MaxClock = 1
  MaxRequests = 0
  Fallible = {w1, w2}
  Legacy = TRUE
  MaxAttempts = 2
  MaxStalls = 1
  StaleAfter = 1
  MaxFaults = 2
SPECIFICATION FairSpec
CHECK_DEADLOCK FALSE
PROPERTIES
  DueIsSettled
