\* One user, one session, two requests at once, four in all, three seconds;
\* one update, posted three times at most, three requests, and two answers lost;
\* five logins and commands of the bot, three at once.
CONSTANTS
  u1 = u1
  s1 = s1
  h1 = h1
  h2 = h2
  NoToken = NoToken
  m1 = m1
  r1 = r1
  r2 = r2
  r3 = r3
  User = {u1}
  Session = {s1}
  Handler = {h1, h2}
  MaxClock = 2
  RefreshAge = 2
  AccessAge = 1
  MaxRequests = 4
  Update = {m1}
  NoUpdate = NoUpdate
  BotRequest = {r1, r2, r3}
  MaxTries = 2
  MaxLosses = 2
  v1 = v1
  v2 = v2
  v3 = v3
  Visit = {v1, v2, v3}
  MaxVisits = 5
SPECIFICATION MCSpec
CHECK_DEADLOCK FALSE
INVARIANTS
  SpentIsNeverCurrent
  OneExchangePerToken
  BanEndsSessions
  EachUpdateIsServed
  ToldStopsAreOver
  AccessIsAsTold
PROPERTIES
  LineageSpec
  ReuseRevokes
