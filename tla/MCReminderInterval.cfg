\* One user, one worker, no fault; two ticks a minute, so that a stamp can be later in its minute than the next scan.
CONSTANTS
  u1 = u1
  w1 = w1
  h1 = h1
  None = None
  User = {u1}
  Worker = {w1}
  HttpHandler = {h1}
  Actor <- MCActor
  DayMinutes = 1
  MinuteTicks = 2
  MaxClock = 4
  MaxRequests = 0
  Fallible = {w1}
  Legacy = FALSE
  MaxAttempts = 2
  MaxStalls = 1
  StaleAfter = 1
  MaxFaults = 0
SPECIFICATION Spec
CHECK_DEADLOCK FALSE
INVARIANTS
  DueEverySecondDay
