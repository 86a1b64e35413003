\* One user, three interchangeable handlers, four requests, any of them cut short;
\* three rows in pages of one and three requests that write them.
CONSTANTS
  u1 = u1
  h1 = h1
  h2 = h2
  h3 = h3
  e1 = e1
  e2 = e2
  User = {u1}
  Actor = {h1, h2, h3}
  DayMinutes = 2
  MinuteTicks = 1
  MaxClock = 1
  MaxRequests = 4
  Fallible = {h1, h2, h3}
  Legacy = TRUE
  RowId = {1, 2, 3}
  VersesIn <- MCVersesIn
  Filter <- MCFilter
  Editor = {e1, e2}
  PageSize = 1
  LastTick = 1
  MaxEdits = 3
SPECIFICATION MCSpec
SYMMETRY Symmetry
CHECK_DEADLOCK FALSE
INVARIANTS
  PartsTypeOK
  FlagsAgreeUnlessTorn
  LocalTimeKept
  PagesTellAll
  SavedAyahsExist
  ContinueIsRecent
