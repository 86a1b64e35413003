\* Two requests in two processes, three tokens; a retention of three ticks.
CONSTANTS
  Request = {"r1", "r2"}
  Process = {"p1", "p2"}
  Fault = {"timeout", "401", "redis"}
  MaxRetries = 1
  MaxTokens = 3
  Fresh <- MCFresh
  Retain = 3
SPECIFICATION MCSpec
INVARIANTS
  PartsTypeOK
  NeverTheDeadTokenAgain
  AnswersAgeOut
PROPERTIES
  RequestsEnd
  LoadsEnd
\* requests are over, and tokens run out
CHECK_DEADLOCK FALSE
