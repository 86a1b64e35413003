---------------------------- MODULE ReadingStats ----------------------------
(***************************************************************************)
(* What a user is told of his reading: totals, the last days and streaks.  *)
(* The statistics are read by several statements side by side, with opens  *)
(* counted between them, and the dates are local: the reader's "today" is  *)
(* taken before the statements run, with the timezone he has then, and     *)
(* the days were counted under the timezones he had.                       *)
(***************************************************************************)
EXTENDS Integers, Sequences, FiniteSetsExt, SequencesExt

CONSTANTS
  Ayah,        \* ayahs
  LastDay,     \* bound on the date
  MaxAhead,    \* most days by which a timezone is ahead
  ShortPeriod, \* days of the shorter period: 7
  LongPeriod,  \* of the longer: 30
  Lookback,    \* days a streak is looked for in: READING_STREAK_LOOKBACK_DAYS
  MaxOpens     \* bound on the opens

ASSUME StatsAssumption ==
  /\ Ayah # {} /\ IsFiniteSet(Ayah) /\ LastDay \in Nat /\ MaxAhead \in Nat /\ MaxOpens \in Nat
  /\ ShortPeriod \in Nat \ {0} /\ LongPeriod \in Nat \ {0} /\ ShortPeriod <= LongPeriod
  /\ Lookback \in Nat \ {0}

VARIABLES
  date,     \* the date at the reference timezone
  ahead,    \* the days by which the user's timezone is ahead of it
  opensOf,  \* readCount of the ReadingVerseProgress rows
  versesOn, \* versesRead of the ReadingDay rows
  ask,      \* a request for the statistics: what it has read
  during    \* opens counted since the request began

statVars == <<date, ahead, opensOf, versesOn, ask, during>>

Day == 0..(LastDay + MaxAhead)
Today == date + ahead
Unread == [d \in {} |-> 0]
Statement == {"unique", "total", "activeDays", "period", "streak"}

NoAsk == [pc |-> "idle", today |-> 0, todo |-> {}, unique |-> 0, total |-> 0, activeDays |-> 0,
          period |-> Unread, streak |-> {}]

StatsTypeOK ==
  /\ date \in 0..LastDay /\ ahead \in 0..MaxAhead
  /\ opensOf \in [Ayah -> Nat] /\ versesOn \in [Day -> Nat]
  /\ ask.pc \in {"idle", "reading", "answered"} /\ ask.today \in Day /\ ask.todo \subseteq Statement
  /\ ask.unique \in Nat /\ ask.total \in Nat /\ ask.activeDays \in Nat
  /\ DOMAIN ask.period \subseteq Day /\ ask.streak \subseteq Day
  /\ during \in 0..MaxOpens

StatsInit ==
  /\ date = 0 /\ ahead \in 0..MaxAhead
  /\ opensOf = [a \in Ayah |-> 0] /\ versesOn = [d \in Day |-> 0]
  /\ ask = NoAsk /\ during = 0

----------------------------------------------------------------------------
SumOver(f, S) == MapThenSumSet(LAMBDA x : f[x], S)
Total(f) == SumOver(f, DOMAIN f)

CountUniqueAyahs == Cardinality({a \in Ayah : opensOf[a] > 0})
SumReadCounts == Total(opensOf)
ActiveDays == {d \in Day : versesOn[d] > 0}

\* the rows of the dates, a day without one missing
FindDaysInRange(from, to) == [d \in {x \in ActiveDays : from <= x /\ x <= to} |-> versesOn[d]]

\* from the first day of the window on, with no last one
FindActiveDayDates(from) == {d \in ActiveDays : from <= d}

----------------------------------------------------------------------------
\* the dates in order, none of them twice
Ascending(dates) ==
  CHOOSE q \in [1..Cardinality(dates) -> dates] : \A i, j \in DOMAIN q : i < j => q[i] < q[j]
Descending(dates) ==
  CHOOSE q \in [1..Cardinality(dates) -> dates] : \A i, j \in DOMAIN q : i < j => q[i] > q[j]

CountRun(acc, d) ==
  LET run == IF acc.previous + 1 = d /\ acc.run > 0 THEN acc.run + 1 ELSE 1
  IN [previous |-> d, run |-> run, longest |-> IF run > acc.longest THEN run ELSE acc.longest]

\* one pass over the dates, which counts the run that ends at each
LongestRun(dates) ==
  FoldLeft(CountRun, [previous |-> 0, run |-> 0, longest |-> 0], Ascending(dates)).longest

CountBack(acc, d) ==
  IF acc.going /\ d = acc.expected
  THEN [expected |-> acc.expected - 1, days |-> acc.days + 1, going |-> TRUE]
  ELSE [expected |-> acc.expected, days |-> acc.days, going |-> FALSE]

\* from the latest date back, as long as each is the day before the last
RunBackFrom(latest, dates) ==
  FoldLeft(CountBack, [expected |-> latest, days |-> 0, going |-> TRUE], Descending(dates)).days

\* mutant: a day not read yet ends the streak
StreakOfToday(dates, today) ==
  IF dates # {} /\ Max(dates) = today THEN RunBackFrom(Max(dates), dates) ELSE 0

\* a streak is still current when its last day is yesterday
CurrentStreak(dates, today) ==
  IF dates # {} /\ Max(dates) \in {today, today - 1} THEN RunBackFrom(Max(dates), dates) ELSE 0

PeriodFromMap(found, from, to) ==
  LET days == {d \in DOMAIN found : from <= d /\ d <= to /\ found[d] > 0} IN
  [versesRead |-> SumOver(found, days), activeDays |-> Cardinality(days)]

Answer ==
  [today |-> PeriodFromMap(ask.period, ask.today, ask.today),
   short |-> PeriodFromMap(ask.period, ask.today - (ShortPeriod - 1), ask.today),
   long |-> PeriodFromMap(ask.period, ask.today - (LongPeriod - 1), ask.today),
   unique |-> ask.unique,
   total |-> ask.total,
   repeated |-> IF ask.total > ask.unique THEN ask.total - ask.unique ELSE 0,
   activeDays |-> ask.activeDays,
   longest |-> LongestRun(ask.streak),
   current |-> CurrentStreak(ask.streak, ask.today)]

----------------------------------------------------------------------------
\* the requests, of which one is looked at in a behaviour
AskFor(figures) ==
  /\ ask.pc = "idle"
  /\ ask' = [NoAsk EXCEPT !.pc = "reading", !.today = Today, !.todo = figures]
  /\ during' = 0
  /\ UNCHANGED <<date, ahead, opensOf, versesOn>>

GetStatistics == AskFor(Statement)
GetStreak == AskFor({"streak"})
GetReadingProgress == AskFor({"unique", "total"})

\* the statements of the request, in any order
ReadFigure(s) ==
  LET from == ask.today - (LongPeriod - 1)
      left == ask.todo \ {s}
      read == [ask EXCEPT
        !.unique = IF s = "unique" THEN CountUniqueAyahs ELSE @,
        !.total = IF s = "total" THEN SumReadCounts ELSE @,
        !.activeDays = IF s = "activeDays" THEN Cardinality(ActiveDays) ELSE @,
        !.period = IF s = "period" THEN FindDaysInRange(from, ask.today) ELSE @,
        !.streak = IF s = "streak" THEN FindActiveDayDates(ask.today - (Lookback - 1)) ELSE @]
  IN
  /\ ask.pc = "reading" /\ s \in ask.todo
  /\ ask' = [read EXCEPT !.todo = left, !.pc = IF left = {} THEN "answered" ELSE "reading"]
  /\ UNCHANGED <<date, ahead, opensOf, versesOn, during>>

\* an open commits, on the date it was begun
OpenIsCounted(a, d) ==
  /\ SumReadCounts < MaxOpens
  /\ d \in {Today, Today - 1}
  /\ opensOf' = [opensOf EXCEPT ![a] = @ + 1]
  /\ versesOn' = [versesOn EXCEPT ![d] = @ + 1]
  /\ during' = IF ask.pc = "reading" THEN during + 1 ELSE during
  /\ UNCHANGED <<date, ahead, ask>>

ChangeTimezone(n) ==
  /\ ahead # n
  /\ ahead' = n
  /\ UNCHANGED <<date, opensOf, versesOn, ask, during>>

Midnight ==
  /\ date < LastDay
  /\ date' = date + 1
  /\ UNCHANGED <<ahead, opensOf, versesOn, ask, during>>

StatsNext ==
  \/ GetStatistics \/ GetStreak \/ GetReadingProgress
  \/ \E s \in Statement : ReadFigure(s)
  \/ \E a \in Ayah, d \in Day : OpenIsCounted(a, d)
  \/ \E n \in 0..MaxAhead : ChangeTimezone(n)
  \/ Midnight

StatsSpec == StatsInit /\ [][StatsNext]_statVars

----------------------------------------------------------------------------
\* the days up to d that are all in the set, and how many they are
RunTo(dates, d) == Cardinality({e \in dates : e <= d /\ e..d \subseteq dates})

(* A streak is a run of days read, up to today or yesterday, within the    *)
(* window: but a user with a day counted ahead of today, because he has    *)
(* travelled west or read past midnight, is told that he has none.         *)
StreaksAreRuns ==
  /\ \A d \in ask.streak : RunTo(ask.streak, d) <= Answer.longest
  /\ Answer.longest > 0 => \E d \in ask.streak : RunTo(ask.streak, d) = Answer.longest
  /\ Answer.current =
       IF \E d \in ask.streak : d > ask.today THEN 0
       ELSE IF ask.today \in ask.streak THEN RunTo(ask.streak, ask.today)
       ELSE RunTo(ask.streak, ask.today - 1)

(* The figures of one answer fit together, up to the opens that were       *)
(* counted while it was read.                                              *)
FiguresFit ==
  /\ Answer.today.versesRead <= Answer.short.versesRead
  /\ Answer.short.versesRead <= Answer.long.versesRead
  /\ Answer.long.versesRead <= Answer.total + during
  /\ Answer.long.activeDays <= Answer.activeDays + during
  /\ Answer.unique <= Answer.total + during
  /\ Answer.repeated <= Answer.total /\ Answer.current <= Answer.longest

(* What the statistics tell is true of the reading they were read from.    *)
StatisticsAreTrue == ask.pc = "answered" => StreaksAreRuns /\ FiguresFit
=============================================================================
