\* Two goals, two requests at once, four in all, two local dates.
\* Five events, the fewest that are trimmed when a batch is two; two workers, one
\* fault; two opens on three dates.
CONSTANTS
  v1 = v1
  g1 = g1
  g2 = g2
  h1 = h1
  h2 = h2
  NoVerse = NoVerse
  NoHandler = NoHandler
  Verse = {v1}
  Goal = {g1, g2}
  Metric = {"VERSES", "MINUTES"}
  Target = {1, 2}
  Handler = {h1, h2}
  MaxZone = 1
  DayTicks = 2
  LastMoment = 1
  MaxRequests = 4
  w1 = w1
  w2 = w2
  a1 = a1
  a2 = a2
  None = None
  MaxEvents = 5
  MaxCalls = 2
  Worker = {w1, w2}
  FlushMaxBatch = 2
  ChunkSize = 1
  BufferTtl = 2
  MaxAttempts = 2
  MaxStalls = 1
  MaxClock = 2
  MaxFaults = 1
  Ayah = {a1, a2}
  LastDay = 1
  MaxAhead = 1
  ShortPeriod = 1
  LongPeriod = 2
  Lookback = 2
  MaxOpens = 2
SPECIFICATION MCSpec
SYMMETRY Symmetry
CHECK_DEADLOCK FALSE
INVARIANTS
  PartsTypeOK
  NothingVanishes
  FlushIsComing
  StatisticsAreTrue
  RollupsMatchHistory
PROPERTIES
  CompletionStands
  CreateKeepsThePast
