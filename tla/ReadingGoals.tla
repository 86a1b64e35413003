---------------------------- MODULE ReadingGoals ----------------------------
(***************************************************************************)
(* One user's reading and goals: opening an ayah records it in one         *)
(* transaction, which appends to the history, moves the continue pointer,  *)
(* counts the verse and the day and brings the results of the verse goals  *)
(* up to date; goals are created, changed and deleted; and reading the     *)
(* progress of the goals writes their results too, outside a transaction.  *)
(* Each action is one statement, or the rest of a transaction up to its    *)
(* commit, at PostgreSQL's isolation level READ COMMITTED.                 *)
(***************************************************************************)
EXTENDS Integers, FiniteSets

CONSTANTS
  Verse,       \* ayahs
  Goal,        \* identifiers a created goal may draw
  Metric,      \* of "VERSES" and "MINUTES"
  Target,      \* target values
  Handler,     \* requests being handled
  NoVerse,     \* no ayah has been opened
  NoHandler,   \* nobody is in the transaction of an open
  MaxZone,     \* most ticks by which a timezone is ahead of the clock
  DayTicks,    \* ticks in a day
  LastMoment,  \* bound on the clock
  MaxRequests  \* bound on the requests

ASSUME ReadingAssumption ==
  /\ Metric \subseteq {"VERSES", "MINUTES"} /\ Metric # {}
  /\ Target \subseteq Nat \ {0} /\ Target # {}
  /\ Verse # {} /\ NoVerse \notin Verse /\ NoHandler \notin Handler
  /\ IsFiniteSet(Goal)
  /\ MaxZone \in Nat
  /\ DayTicks \in Nat \ {0} /\ LastMoment \in Nat /\ MaxRequests \in Nat

VARIABLES
  now,            \* the clock
  history,        \* ReadingAyahHistory rows, with the date each was counted under
  continue,       \* the verse ReadingProgress points at
  readCount,      \* of the ReadingVerseProgress rows
  day,            \* versesRead of the ReadingDay rows
  goal,           \* DailyGoal rows
  result,         \* DailyGoalResult rows
  lock,           \* who holds the lock on the user's ReadingProgress row
  handler,        \* where each request is, and what it has read
  raised,         \* goals whose target has been changed
  requests

reading == <<history, continue, readCount, day>>
goalVars == <<now, reading, goal, result, lock, handler, raised, requests>>

Moment == 0..LastMoment
Unset == -1
Zone == 0..MaxZone
LocalDate(t, zone) == (t + zone) \div DayTicks
Date == 0..LocalDate(LastMoment, MaxZone)
\* no effectiveTo: later than every date
OpenEnd == LastMoment + MaxZone + 1

Opened == [id: 0..MaxRequests, verse: Verse, at: Moment, date: Date]
GoalRow == [exists: BOOLEAN, metric: Metric, target: Target, from: Date,
            to: Date \union {OpenEnd}, enabled: BOOLEAN, deleted: BOOLEAN]
Result == [exists: BOOLEAN, actual: Nat, completedAt: Moment \union {Unset}]

NoGoal == [exists |-> FALSE, metric |-> CHOOSE m \in Metric : TRUE, target |-> CHOOSE n \in Target : TRUE,
           from |-> 0, to |-> OpenEnd, enabled |-> FALSE, deleted |-> FALSE]
NoResult == [exists |-> FALSE, actual |-> 0, completedAt |-> Unset]

(* The next statement of an open, of a progress request or of a creation.  *)
Pc == {"idle", "count", "readGoals", "readResults", "commit",
       "progress", "readOldResults", "writeResults", "readOpenEnded", "create"}
HandlerSlot == [pc: Pc, id: 0..MaxRequests, verse: Verse \union {NoVerse}, at: Moment, date: Date,
         count: Nat \union {Unset}, goals: SUBSET Goal, gotGoals: BOOLEAN,
         target: [Goal -> Target], was: [Goal -> Moment \union {Unset}], new: GoalRow]
IdleHandler ==
  [pc |-> "idle", id |-> 0, verse |-> NoVerse, at |-> 0, date |-> 0, count |-> Unset, goals |-> {}, gotGoals |-> FALSE,
   target |-> [g \in Goal |-> NoGoal.target], was |-> [g \in Goal |-> Unset], new |-> NoGoal]

GoalsTypeOK ==
  /\ now \in Moment
  /\ history \subseteq Opened
  /\ continue \in Verse \union {NoVerse}
  /\ readCount \in [Verse -> Nat]
  /\ day \in [Date -> Nat]
  /\ goal \in [Goal -> GoalRow]
  /\ result \in [Goal \X Date -> Result]
  /\ lock \in Handler \union {NoHandler}
  /\ handler \in [Handler -> HandlerSlot]
  /\ raised \subseteq Goal
  /\ requests \in 0..MaxRequests

GoalsInit ==
  /\ now = 0
  /\ history = {}
  /\ continue = NoVerse
  /\ readCount = [v \in Verse |-> 0]
  /\ day = [d \in Date |-> 0]
  /\ goal = [g \in Goal |-> NoGoal]
  /\ result = [r \in Goal \X Date |-> NoResult]
  /\ lock = NoHandler
  /\ handler = [h \in Handler |-> IdleHandler]
  /\ raised = {}
  /\ requests = 0

----------------------------------------------------------------------------
At(h, pc) == handler[h].pc = pc
Done(h) == handler' = [handler EXCEPT ![h] = IdleHandler]
Request == requests < MaxRequests /\ requests' = requests + 1
Begin(h, slot) ==
  /\ At(h, "idle")
  /\ Request
  /\ handler' = [handler EXCEPT ![h] = slot]

Enabled(g) == goal[g].exists /\ goal[g].enabled /\ ~goal[g].deleted
ActiveOn(g, d) == Enabled(g) /\ goal[g].from <= d /\ d <= goal[g].to

TargetsOf(found) == [g \in Goal |-> IF g \in found THEN goal[g].target ELSE NoGoal.target]

\* what a result row becomes: a completion keeps the time it was first seen
Written(count, target, was, moment) ==
  [exists |-> TRUE, actual |-> count,
   completedAt |-> IF count < target THEN Unset ELSE IF was # Unset THEN was ELSE moment]

----------------------------------------------------------------------------
(* Opening an ayah.  The timezone is read, and the date taken, before the  *)
(* transaction; in it, the upsert of ReadingProgress locks the user's row  *)
(* until the commit, and nothing is visible to others before that.         *)

RecordAyahOpen(h, v, zone) ==
  /\ Begin(h, [IdleHandler EXCEPT !.pc = "count", !.id = requests, !.verse = v, !.at = now,
                               !.date = LocalDate(now, zone)])
  /\ UNCHANGED <<now, reading, goal, result, lock, raised>>

\* mutant: an open does not wait for another of the same user
CountOpenUnlocked(h) ==
  /\ At(h, "count")
  /\ lock' = h
  /\ handler' = [handler EXCEPT ![h].pc = "readGoals", ![h].count = day[handler[h].date] + 1]
  /\ UNCHANGED <<now, reading, goal, result, raised, requests>>

CountOpen(h) ==
  /\ At(h, "count")
  /\ lock = NoHandler
  /\ lock' = h
  /\ handler' = [handler EXCEPT ![h].pc = "readGoals", ![h].count = day[handler[h].date] + 1]
  /\ UNCHANGED <<now, reading, goal, result, raised, requests>>

ReadVerseGoals(h) ==
  LET found == {g \in Goal : goal[g].metric = "VERSES" /\ ActiveOn(g, handler[h].date)} IN
  /\ At(h, "readGoals")
  /\ handler' = [handler EXCEPT ![h].pc = IF found = {} THEN "commit" ELSE "readResults",
                                ![h].goals = found,
                                ![h].target = TargetsOf(found)]
  /\ UNCHANGED <<now, reading, goal, result, lock, raised, requests>>

CompletedAt(h) ==
  [g \in Goal |-> IF g \in handler[h].goals THEN result[<<g, handler[h].date>>].completedAt ELSE Unset]

UpsertResults(h, moment) ==
  LET r == handler[h]
      actual(g) == IF goal[g].metric = "VERSES" THEN r.count ELSE 0
  IN result' = [k \in Goal \X Date |->
       IF k[1] \in r.goals /\ k[2] = r.date
       THEN Written(actual(k[1]), r.target[k[1]], r.was[k[1]], moment)
       ELSE result[k]]

ReadResults(h) ==
  /\ At(h, "readResults")
  /\ handler' = [handler EXCEPT ![h].pc = "commit", ![h].was = CompletedAt(h)]
  /\ UNCHANGED <<now, reading, goal, result, lock, raised, requests>>

CommitOpen(h) ==
  LET r == handler[h] IN
  /\ At(h, "commit")
  /\ history' = history \union {[id |-> r.id, verse |-> r.verse, at |-> r.at, date |-> r.date]}
  /\ continue' = r.verse
  /\ readCount' = [readCount EXCEPT ![r.verse] = @ + 1]
  /\ day' = [day EXCEPT ![r.date] = r.count]
  /\ UpsertResults(h, r.at)
  /\ lock' = NoHandler
  /\ Done(h)
  /\ UNCHANGED <<now, goal, raised, requests>>

----------------------------------------------------------------------------
(* Reading the progress of the goals: the goals and the day are read side  *)
(* by side, then the results, and what follows from these is written.      *)

GetProgress(h, zone) ==
  /\ Begin(h, [IdleHandler EXCEPT !.pc = "progress", !.date = LocalDate(now, zone)])
  /\ UNCHANGED <<now, reading, goal, result, lock, raised>>

FindActiveGoals(h) ==
  LET found == {g \in Goal : ActiveOn(g, handler[h].date)} IN
  /\ At(h, "progress") /\ ~handler[h].gotGoals
  /\ handler' = [handler EXCEPT
       ![h].gotGoals = TRUE,
       ![h].goals = found,
       ![h].target = TargetsOf(found),
       ![h].pc = IF handler[h].count = Unset THEN "progress" ELSE "readOldResults"]
  /\ UNCHANGED <<now, reading, goal, result, lock, raised, requests>>

FindReadingDay(h) ==
  /\ At(h, "progress") /\ handler[h].count = Unset
  /\ handler' = [handler EXCEPT
       ![h].count = day[handler[h].date],
       ![h].pc = IF handler[h].gotGoals THEN "readOldResults" ELSE "progress"]
  /\ UNCHANGED <<now, reading, goal, result, lock, raised, requests>>

FindGoalResults(h) ==
  /\ At(h, "readOldResults")
  /\ IF handler[h].goals = {} THEN Done(h)
     ELSE handler' = [handler EXCEPT ![h].pc = "writeResults", ![h].was = CompletedAt(h),
                                     ![h].at = now]
  /\ UNCHANGED <<now, reading, goal, result, lock, raised, requests>>

UpsertGoalResults(h) ==
  /\ At(h, "writeResults")
  /\ UpsertResults(h, handler[h].at)
  /\ Done(h)
  /\ UNCHANGED <<now, reading, goal, lock, raised, requests>>

----------------------------------------------------------------------------
(* The goals. *)

CreateGoal(h, metric, target, from) ==
  /\ Begin(h, [IdleHandler EXCEPT !.pc = "readOpenEnded",
       !.new = [exists |-> TRUE, metric |-> metric, target |-> target, from |-> from,
                to |-> OpenEnd, enabled |-> TRUE, deleted |-> FALSE]])
  /\ UNCHANGED <<now, reading, goal, result, lock, raised>>

OpenEnded(row, metric) ==
  /\ row.exists /\ row.enabled /\ ~row.deleted
  /\ row.metric = metric /\ row.to = OpenEnd

ReadOpenEnded(h) ==
  /\ At(h, "readOpenEnded")
  /\ handler' = [handler EXCEPT
       ![h].pc = "create",
       ![h].goals = {g \in Goal : OpenEnded(goal[g], handler[h].new.metric)}]
  /\ UNCHANGED <<now, reading, goal, result, lock, raised, requests>>

\* mutants: one of the two cases stands for both
ClosedByDate(row, from) == [row EXCEPT !.to = from - 1]
ClosedByDisabling(row, from) == [row EXCEPT !.enabled = FALSE]

\* a goal that began before ends the day before, another is switched off
Closed(row, from) ==
  IF row.from < from THEN [row EXCEPT !.to = from - 1] ELSE [row EXCEPT !.enabled = FALSE]

\* the partial unique index of the migration
IndexHolds(goals) ==
  \A m \in Metric, g1, g2 \in Goal :
    OpenEnded(goals[g1], m) /\ OpenEnded(goals[g2], m) => g1 = g2

\* the updates, which match on the id alone, the insert and the commit
CreateClosingOpenEnded(h, g) ==
  LET r == handler[h]
      goals == [x \in Goal |-> IF x = g THEN r.new
                              ELSE IF x \in r.goals THEN Closed(goal[x], r.new.from)
                              ELSE goal[x]]
  IN
  /\ At(h, "create")
  /\ ~goal[g].exists
  /\ goal' = IF IndexHolds(goals) THEN goals ELSE goal
  /\ Done(h)
  /\ UNCHANGED <<now, reading, result, lock, raised, requests>>

\* any of the three fields, the others as they are; a new end is not before the start
UpdateGoal(g, target, enabled, to) ==
  LET goals == [goal EXCEPT ![g].target = target, ![g].enabled = enabled, ![g].to = to] IN
  /\ Request
  /\ goal[g].exists /\ ~goal[g].deleted
  /\ goal[g].from <= to
  /\ IndexHolds(goals)
  /\ goal' = goals
  /\ raised' = IF target # goal[g].target THEN raised \union {g} ELSE raised
  /\ UNCHANGED <<now, reading, result, lock, handler>>

\* mutant: the row is deleted, and its results with it
DeleteGoal(g) ==
  /\ Request
  /\ goal[g].exists /\ ~goal[g].deleted
  /\ goal' = [goal EXCEPT ![g] = NoGoal]
  /\ result' = [r \in Goal \X Date |-> IF r[1] = g THEN NoResult ELSE result[r]]
  /\ UNCHANGED <<now, reading, lock, handler, raised>>

RemoveGoal(g) ==
  /\ Request
  /\ goal[g].exists /\ ~goal[g].deleted
  /\ goal' = [goal EXCEPT ![g].deleted = TRUE, ![g].enabled = FALSE]
  /\ UNCHANGED <<now, reading, result, lock, handler, raised>>

----------------------------------------------------------------------------
(* A statement fails or the process dies: a transaction is rolled back.    *)
Fail(h) ==
  /\ ~At(h, "idle")
  /\ lock' = IF lock = h THEN NoHandler ELSE lock
  /\ Done(h)
  /\ UNCHANGED <<now, reading, goal, result, raised, requests>>

ClockTicks ==
  /\ now < LastMoment
  /\ now' = now + 1
  /\ UNCHANGED <<reading, goal, result, lock, handler, raised, requests>>

RequestStep(h) ==
  \/ \E zone \in Zone : GetProgress(h, zone) \/ \E v \in Verse : RecordAyahOpen(h, v, zone)
  \/ \E m \in Metric, n \in Target, d \in Date : CreateGoal(h, m, n, d)

OpenStep(h) == CountOpen(h) \/ ReadVerseGoals(h) \/ ReadResults(h) \/ CommitOpen(h)

ProgressStep(h) ==
  FindActiveGoals(h) \/ FindReadingDay(h) \/ FindGoalResults(h) \/ UpsertGoalResults(h)

CreateStep(h) == ReadOpenEnded(h) \/ \E g \in Goal : CreateClosingOpenEnded(h, g)

EditStep(g) ==
  \/ \E n \in Target, b \in BOOLEAN, d \in Date \union {OpenEnd} : UpdateGoal(g, n, b, d)
  \/ RemoveGoal(g)

GoalsNext ==
  \/ \E h \in Handler : RequestStep(h) \/ OpenStep(h) \/ ProgressStep(h) \/ CreateStep(h) \/ Fail(h)
  \/ \E g \in Goal : EditStep(g)
  \/ ClockTicks

GoalsSpec == GoalsInit /\ [][GoalsNext]_goalVars

----------------------------------------------------------------------------
(* The history is the source of truth: each verse and each day has been    *)
(* counted once for every open in it, however the opens interleave.        *)
RollupsMatchHistory ==
  /\ \A v \in Verse : readCount[v] = Cardinality({o \in history : o.verse = v})
  /\ \A d \in Date : day[d] = Cardinality({o \in history : o.date = d})

(* A completion is taken back only when the goal's target was changed or   *)
(* by a progress request that read the day before an open counted on it.   *)
CompletionStands ==
  [][\A g \in Goal, d \in Date :
       result[<<g, d>>].completedAt # Unset /\ result'[<<g, d>>].completedAt = Unset /\ g \notin raised
         => \E h \in Handler : At(h, "writeResults") /\ handler[h].date = d
                                /\ handler[h].count < day[d]]_goalVars

(* Creating a goal leaves the past alone: a goal that held on a day before *)
(* the new one begins still holds on it.                                   *)
CreateKeepsThePast ==
  [][\A h \in Handler, g \in Goal, d \in Date :
       At(h, "create") /\ handler'[h].pc = "idle" /\ d < handler[h].new.from /\ ActiveOn(g, d)
         => ActiveOn(g, d)']_goalVars
============================================================================
