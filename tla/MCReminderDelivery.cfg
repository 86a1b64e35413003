\* One user, two workers, one request of the user, two faults, two dates of one minute each.
CONSTANTS
  u1 = u1
  w1 = w1
  w2 = w2
  h1 = h1
  None = None
  User = {u1}
  Worker = {w1, w2}
  HttpHandler = {h1}
  Actor <- MCActor
  DayMinutes = 2
  MinuteTicks = 1
  MaxClock = 1
  MaxRequests = 1
  Fallible = {w1, w2, h1}
  Legacy = TRUE
  MaxAttempts = 2
  MaxStalls = 1
  StaleAfter = 1
  MaxFaults = 2
SPECIFICATION Spec
SYMMETRY Symmetry
CHECK_DEADLOCK FALSE
INVARIANTS
  ResendsCostAFault
  SentIsStamped
PROPERTIES
  ReceiptStands
