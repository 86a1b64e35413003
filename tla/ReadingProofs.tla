---------------------------- MODULE ReadingProofs ----------------------------
(***************************************************************************)
(* Proofs about ReadingGoals, for every set of ayahs, goals and requests   *)
(* and every value of the bounds.  The rollups of a day are what its       *)
(* history adds up to, what was reached stands, and a goal that is set     *)
(* keeps the past.                                                         *)
(***************************************************************************)
EXTENDS ReadingGoals, FiniteSetTheorems, TLAPS

(* The strengthening.  An open that has counted its day holds the lock,    *)
(* and what it counted is still one more than what is stored; its id is in *)
(* no row of the history and in no other request's hands.                  *)
Opening == {"count", "readGoals", "readResults", "commit"}
AfterCount == {"readGoals", "readResults", "commit"}
Reading == {"progress", "readOldResults", "writeResults"}
GoalsRead == {"readResults", "commit"} \union Reading

RowLocked(h) ==
  /\ handler[h].pc \in AfterCount <=> lock = h
  /\ handler[h].pc \in AfterCount => handler[h].count = day[handler[h].date] + 1
  /\ handler[h].pc \in Opening => handler[h].verse # NoVerse

FreshIds ==
  /\ \A o \in history : o.id < requests
  /\ \A h \in Handler : handler[h].pc \in Opening =>
       /\ handler[h].id < requests
       /\ \A o \in history : o.id # handler[h].id
       /\ \A g \in Handler \ {h} : handler[g].pc \in Opening => handler[g].id # handler[h].id

(* A progress request has read no more than the day now holds.             *)
DayOnlyGrew(h) ==
  /\ handler[h].pc \in Reading /\ handler[h].count # Unset => handler[h].count <= day[handler[h].date]
  /\ handler[h].pc \in {"readOldResults", "writeResults"} => handler[h].count # Unset

(* The goals a request has read exist, with the target it read unless that *)
(* has been changed since; an open has read goals that count verses.       *)
TargetsStand(h) ==
  handler[h].pc \in GoalsRead =>
    \A g \in handler[h].goals :
      /\ goal[g].exists
      /\ g \notin raised => handler[h].target[g] = goal[g].target
      /\ handler[h].pc \in AfterCount => goal[g].metric = "VERSES"

(* A completion stands for a day that reached the target.                  *)
CompletionsEarned ==
  \A g \in Goal, d \in Date : result[<<g, d>>].completedAt # Unset /\ g \notin raised =>
    goal[g].exists /\ goal[g].metric = "VERSES" /\ goal[g].target <= day[d]

IInv ==
  /\ GoalsTypeOK
  /\ IsFiniteSet(history)
  /\ \A h \in Handler : RowLocked(h) /\ DayOnlyGrew(h) /\ TargetsStand(h)
  /\ FreshIds
  /\ CompletionsEarned
  /\ RollupsMatchHistory

----------------------------------------------------------------------------
(* Types. *)

(* Division by a whole number of ticks keeps the order: the local date of  *)
(* a tick is among the dates.                                              *)
LEMMA DateType ==
  ASSUME NEW t \in Moment, NEW zone \in Zone
  PROVE  LocalDate(t, zone) \in Date
<1>1. \A a, b \in Nat : a <= b => a \div DayTicks \in Nat /\ a \div DayTicks <= b \div DayTicks
  BY ReadingAssumption
<1>2. t + zone \in Nat /\ LastMoment + MaxZone \in Nat /\ t + zone <= LastMoment + MaxZone
  BY ReadingAssumption DEF Moment, Zone
<1>3. LocalDate(t, zone) \in Nat /\ LocalDate(t, zone) <= LocalDate(LastMoment, MaxZone)
  BY <1>1, <1>2 DEF LocalDate
<1>4. LocalDate(LastMoment, MaxZone) \in Nat
  BY <1>1, <1>2 DEF LocalDate
<1>5. QED
  BY <1>3, <1>4 DEF Date

LEMMA DateBound == LocalDate(LastMoment, MaxZone) \in Nat /\ 0 \in Date /\ Date \subseteq Nat
<1>1. LastMoment \in Moment /\ MaxZone \in Zone
  BY ReadingAssumption DEF Moment, Zone
<1>2. LocalDate(LastMoment, MaxZone) \in Date
  BY <1>1, DateType
<1>3. LastMoment + MaxZone \in Nat
  BY ReadingAssumption
<1>4. LocalDate(LastMoment, MaxZone) \in Nat
  BY <1>3, ReadingAssumption DEF LocalDate
<1>5. QED
  BY <1>4 DEF Date

LEMMA NoGoalType == NoGoal \in GoalRow /\ NoGoal.target \in Target /\ ~NoGoal.exists
<1>1. /\ (CHOOSE m \in Metric : TRUE) \in Metric
      /\ (CHOOSE n \in Target : TRUE) \in Target
  BY ReadingAssumption
<1>2. QED
  BY <1>1, DateBound DEF NoGoal, GoalRow

LEMMA IdleHandlerType == IdleHandler \in HandlerSlot /\ IdleHandler.pc = "idle"
<1>1. 0 \in 0..MaxRequests /\ 0 \in Moment
  BY ReadingAssumption DEF Moment
<1>2. IdleHandler.target \in [Goal -> Target] /\ IdleHandler.was \in [Goal -> Moment \union {Unset}]
  BY NoGoalType DEF IdleHandler
<1>3. QED
  BY <1>1, <1>2, DateBound, NoGoalType DEF IdleHandler, HandlerSlot, Pc

LEMMA NoResultType == NoResult \in Result
BY DEF NoResult, Result

LEMMA InitType == GoalsInit => GoalsTypeOK
BY IdleHandlerType, NoGoalType, NoResultType, ReadingAssumption DEF GoalsInit, GoalsTypeOK, Moment

LEMMA SlotFacts ==
  ASSUME GoalsTypeOK, NEW h \in Handler
  PROVE  /\ handler[h] \in HandlerSlot /\ handler[h].pc \in Pc /\ handler[h].id \in 0..MaxRequests
         /\ handler[h].verse \in Verse \union {NoVerse} /\ handler[h].at \in Moment
         /\ handler[h].date \in Date /\ handler[h].count \in Nat \union {Unset}
         /\ handler[h].goals \subseteq Goal /\ handler[h].gotGoals \in BOOLEAN
         /\ handler[h].target \in [Goal -> Target]
         /\ handler[h].was \in [Goal -> Moment \union {Unset}] /\ handler[h].new \in GoalRow
         /\ day[handler[h].date] \in Nat
<1>1. handler[h] \in HandlerSlot
  BY DEF GoalsTypeOK
<1>2. QED
  BY <1>1 DEF HandlerSlot, GoalsTypeOK

LEMMA BeginType ==
  ASSUME GoalsTypeOK, NEW h \in Handler, NEW slot \in HandlerSlot, Begin(h, slot)
  PROVE  handler' \in [Handler -> HandlerSlot] /\ requests' \in 0..MaxRequests
BY ReadingAssumption DEF Begin, Request, GoalsTypeOK

LEMMA DoneType ==
  ASSUME GoalsTypeOK, NEW h \in Handler, Done(h)
  PROVE  handler' \in [Handler -> HandlerSlot]
BY IdleHandlerType DEF Done, GoalsTypeOK

LEMMA TargetsType ==
  ASSUME GoalsTypeOK, NEW found \in SUBSET Goal
  PROVE  TargetsOf(found) \in [Goal -> Target]
BY NoGoalType DEF TargetsOf, GoalsTypeOK, GoalRow

LEMMA CompletedType ==
  ASSUME GoalsTypeOK, NEW h \in Handler
  PROVE  CompletedAt(h) \in [Goal -> Moment \union {Unset}]
BY SlotFacts DEF CompletedAt, GoalsTypeOK, Result

LEMMA WrittenType ==
  ASSUME NEW n \in Nat, NEW m \in Target, NEW was \in Moment \union {Unset}, NEW moment \in Moment
  PROVE  Written(n, m, was, moment) \in Result
<1> DEFINE c == IF n < m THEN Unset ELSE IF was # Unset THEN was ELSE moment
<1>1. c \in Moment \union {Unset}
  OBVIOUS
<1> HIDE DEF c
<1>2. [exists |-> TRUE, actual |-> n, completedAt |-> c] \in Result
  BY <1>1 DEF Result
<1>3. QED
  BY <1>2 DEF Written, c

LEMMA UpsertType ==
  ASSUME GoalsTypeOK, NEW h \in Handler, NEW moment \in Moment, handler[h].count # Unset, UpsertResults(h, moment)
  PROVE  result' \in [Goal \X Date -> Result]
<1>1. ASSUME NEW k \in Goal \X Date
      PROVE  /\ result[k] \in Result
             /\ \A n \in {handler[h].count, 0} :
                  Written(n, handler[h].target[k[1]], handler[h].was[k[1]], moment) \in Result
  BY SlotFacts, WrittenType DEF GoalsTypeOK
<1>2. QED
  BY <1>1 DEF UpsertResults

(* What a step of h makes of the slots. *)
LEMMA SlotOf ==
  ASSUME GoalsTypeOK, NEW h \in Handler
  PROVE  /\ \A slot : Begin(h, slot) =>
              handler[h].pc = "idle" /\ handler' = [handler EXCEPT ![h] = slot]
         /\ Done(h) => handler' = [handler EXCEPT ![h] = IdleHandler]
         /\ \A slot : handler' = [handler EXCEPT ![h] = slot] =>
              /\ handler'[h] = slot
              /\ \A g \in Handler \ {h} : handler'[g] = handler[g]
              /\ slot \in HandlerSlot => handler' \in [Handler -> HandlerSlot]
BY DEF Begin, Done, At, GoalsTypeOK

LEMMA RequestType ==
  ASSUME GoalsTypeOK, NEW h \in Handler, RequestStep(h)
  PROVE  GoalsTypeOK'
<1>1. ASSUME NEW zone \in Zone, GetProgress(h, zone)
      PROVE  GoalsTypeOK'
  <2>1. LocalDate(now, zone) \in Date
    BY DateType DEF GoalsTypeOK
  <2>2. [IdleHandler EXCEPT !.pc = "progress", !.date = LocalDate(now, zone)] \in HandlerSlot
    BY <2>1, IdleHandlerType DEF HandlerSlot, Pc
  <2>3. handler' \in [Handler -> HandlerSlot] /\ requests' \in 0..MaxRequests
    BY <1>1, <2>2, BeginType DEF GetProgress
  <2>4. QED
    BY <1>1, <2>3 DEF GetProgress, GoalsTypeOK, reading
<1>2. ASSUME NEW zone \in Zone, NEW v \in Verse, RecordAyahOpen(h, v, zone)
      PROVE  GoalsTypeOK'
  <2>1. LocalDate(now, zone) \in Date
    BY DateType DEF GoalsTypeOK
  <2>2. [IdleHandler EXCEPT !.pc = "count", !.id = requests, !.verse = v, !.at = now,
                         !.date = LocalDate(now, zone)] \in HandlerSlot
    BY <2>1, IdleHandlerType DEF HandlerSlot, Pc, GoalsTypeOK
  <2>3. handler' \in [Handler -> HandlerSlot] /\ requests' \in 0..MaxRequests
    BY <1>2, <2>2, BeginType DEF RecordAyahOpen
  <2>4. QED
    BY <1>2, <2>3 DEF RecordAyahOpen, GoalsTypeOK, reading
<1>3. ASSUME NEW m \in Metric, NEW n \in Target, NEW d \in Date, CreateGoal(h, m, n, d)
      PROVE  GoalsTypeOK'
  <2> DEFINE row == [exists |-> TRUE, metric |-> m, target |-> n, from |-> d,
                     to |-> OpenEnd, enabled |-> TRUE, deleted |-> FALSE]
  <2>1. row \in GoalRow
    BY DEF GoalRow
  <2>2. Begin(h, [IdleHandler EXCEPT !.pc = "readOpenEnded", !.new = row])
    BY <1>3 DEF CreateGoal
  <2> HIDE DEF row
  <2>3. [IdleHandler EXCEPT !.pc = "readOpenEnded", !.new = row] \in HandlerSlot
    BY <2>1, IdleHandlerType DEF HandlerSlot, Pc
  <2>4. handler' \in [Handler -> HandlerSlot] /\ requests' \in 0..MaxRequests
    BY <2>2, <2>3, BeginType
  <2>5. QED
    BY <1>3, <2>4 DEF CreateGoal, GoalsTypeOK, reading
<1>4. QED
  BY <1>1, <1>2, <1>3 DEF RequestStep

LEMMA CountOpenSlot ==
  ASSUME GoalsTypeOK, NEW h \in Handler, CountOpen(h)
  PROVE  handler' = [handler EXCEPT ![h] =
           [handler[h] EXCEPT !.pc = "readGoals", !.count = day[handler[h].date] + 1]]
BY SlotFacts DEF CountOpen, GoalsTypeOK, HandlerSlot

LEMMA ReadVerseGoalsSlot ==
  ASSUME GoalsTypeOK, NEW h \in Handler, ReadVerseGoals(h)
  PROVE  \E found \in SUBSET Goal, pc \in {"commit", "readResults"} :
           /\ found = {g \in Goal : goal[g].metric = "VERSES" /\ ActiveOn(g, handler[h].date)}
           /\ found # {} => pc = "readResults"
           /\ handler' = [handler EXCEPT ![h] =
                [handler[h] EXCEPT !.pc = pc, !.goals = found, !.target = TargetsOf(found)]]
<1> DEFINE found == {g \in Goal : goal[g].metric = "VERSES" /\ ActiveOn(g, handler[h].date)}
           pc == IF found = {} THEN "commit" ELSE "readResults"
<1>1. handler' = [handler EXCEPT ![h].pc = pc, ![h].goals = found, ![h].target = TargetsOf(found)]
  BY DEF ReadVerseGoals
<1>2. found \in SUBSET Goal /\ pc \in {"commit", "readResults"} /\ (found # {} => pc = "readResults")
  OBVIOUS
<1> HIDE DEF found, pc
<1>3. handler' = [handler EXCEPT ![h] =
        [handler[h] EXCEPT !.pc = pc, !.goals = found, !.target = TargetsOf(found)]]
  BY <1>1, SlotFacts DEF GoalsTypeOK, HandlerSlot
<1>4. QED
  BY <1>2, <1>3 DEF found

LEMMA ReadResultsSlot ==
  ASSUME GoalsTypeOK, NEW h \in Handler, ReadResults(h)
  PROVE  handler' = [handler EXCEPT ![h] = [handler[h] EXCEPT !.pc = "commit", !.was = CompletedAt(h)]]
<1> DEFINE was == CompletedAt(h)
<1>1. handler' = [handler EXCEPT ![h].pc = "commit", ![h].was = was]
  BY DEF ReadResults
<1> HIDE DEF was
<1>2. QED
  BY <1>1, SlotFacts DEF GoalsTypeOK, HandlerSlot, was

LEMMA OpenType ==
  ASSUME GoalsTypeOK, NEW h \in Handler, OpenStep(h),
         RowLocked(h)
  PROVE  GoalsTypeOK'
<1>1. CASE CountOpen(h)
  <2> DEFINE n == day[handler[h].date] + 1
  <2>0. n \in Nat
    BY SlotFacts
  <2> HIDE DEF n
  <2>1. [handler[h] EXCEPT !.pc = "readGoals", !.count = n] \in HandlerSlot
    BY <2>0, SlotFacts DEF HandlerSlot, Pc
  <2>2. handler' \in [Handler -> HandlerSlot]
    BY <1>1, <2>1, CountOpenSlot, SlotOf DEF n
  <2>3. QED
    BY <1>1, <2>2 DEF CountOpen, GoalsTypeOK, reading
<1>2. CASE ReadVerseGoals(h)
  <2>1. PICK found \in SUBSET Goal, pc \in {"commit", "readResults"} :
          handler' = [handler EXCEPT ![h] =
            [handler[h] EXCEPT !.pc = pc, !.goals = found, !.target = TargetsOf(found)]]
    BY <1>2, ReadVerseGoalsSlot
  <2>2. TargetsOf(found) \in [Goal -> Target]
    BY TargetsType
  <2>3. [handler[h] EXCEPT !.pc = pc, !.goals = found, !.target = TargetsOf(found)] \in HandlerSlot
    BY <2>2, SlotFacts DEF HandlerSlot, Pc
  <2>4. handler' \in [Handler -> HandlerSlot]
    BY <2>1, <2>3, SlotOf
  <2>5. QED
    BY <1>2, <2>4 DEF ReadVerseGoals, GoalsTypeOK, reading
<1>3. CASE ReadResults(h)
  <2>1. [handler[h] EXCEPT !.pc = "commit", !.was = CompletedAt(h)] \in HandlerSlot
    BY SlotFacts, CompletedType DEF HandlerSlot, Pc
  <2>2. handler' \in [Handler -> HandlerSlot]
    BY <1>3, <2>1, ReadResultsSlot, SlotOf
  <2>3. QED
    BY <1>3, <2>2 DEF ReadResults, GoalsTypeOK, reading
<1>4. CASE CommitOpen(h)
  <2>1. /\ handler[h].verse \in Verse
        /\ handler[h].count = day[handler[h].date] + 1 /\ handler[h].count \in Nat
        /\ handler[h].count # Unset
    BY <1>4, SlotFacts DEF CommitOpen, At, RowLocked, Opening, AfterCount, Unset
  <2>2. [id |-> handler[h].id, verse |-> handler[h].verse, at |-> handler[h].at,
         date |-> handler[h].date] \in Opened
    BY <2>1, SlotFacts DEF Opened
  <2>3. history' \subseteq Opened
    BY <1>4, <2>2 DEF CommitOpen, GoalsTypeOK
  <2>4. continue' \in Verse \union {NoVerse} /\ readCount' \in [Verse -> Nat] /\ day' \in [Date -> Nat]
    <3>1. continue' \in Verse \union {NoVerse}
      BY <1>4, <2>1 DEF CommitOpen
    <3>2. readCount' = [readCount EXCEPT ![handler[h].verse] = readCount[handler[h].verse] + 1]
      BY <1>4 DEF CommitOpen
    <3>3. readCount' \in [Verse -> Nat]
      BY <2>1, <3>2 DEF GoalsTypeOK
    <3>4. day' = [day EXCEPT ![handler[h].date] = handler[h].count]
      BY <1>4 DEF CommitOpen
    <3>5. day' \in [Date -> Nat]
      BY <2>1, <3>4 DEF GoalsTypeOK
    <3>6. QED
      BY <3>1, <3>3, <3>5
  <2>5. result' \in [Goal \X Date -> Result]
    BY <1>4, <2>1, SlotFacts, UpsertType DEF CommitOpen
  <2>6. handler' \in [Handler -> HandlerSlot]
    BY <1>4, DoneType DEF CommitOpen
  <2>7. lock' \in Handler \union {NoHandler} /\ UNCHANGED <<now, goal, raised, requests>>
    BY <1>4 DEF CommitOpen
  <2>8. QED
    BY <2>3, <2>4, <2>5, <2>6, <2>7 DEF GoalsTypeOK
<1>5. QED
  BY <1>1, <1>2, <1>3, <1>4 DEF OpenStep

LEMMA FindActiveGoalsSlot ==
  ASSUME GoalsTypeOK, NEW h \in Handler, FindActiveGoals(h)
  PROVE  \E found \in SUBSET Goal, pc \in {"progress", "readOldResults"} :
           /\ found = {g \in Goal : ActiveOn(g, handler[h].date)}
           /\ pc = "readOldResults" => handler[h].count # Unset
           /\ handler' = [handler EXCEPT ![h] =
                [handler[h] EXCEPT !.gotGoals = TRUE, !.goals = found, !.target = TargetsOf(found), !.pc = pc]]
<1> DEFINE found == {g \in Goal : ActiveOn(g, handler[h].date)}
           pc == IF handler[h].count = Unset THEN "progress" ELSE "readOldResults"
<1>1. handler' = [handler EXCEPT ![h].gotGoals = TRUE, ![h].goals = found,
                                 ![h].target = TargetsOf(found), ![h].pc = pc]
  BY DEF FindActiveGoals
<1>2. /\ found \in SUBSET Goal /\ pc \in {"progress", "readOldResults"}
      /\ pc = "readOldResults" => handler[h].count # Unset
  OBVIOUS
<1> HIDE DEF found, pc
<1>3. handler' = [handler EXCEPT ![h] =
        [handler[h] EXCEPT !.gotGoals = TRUE, !.goals = found, !.target = TargetsOf(found), !.pc = pc]]
  BY <1>1, SlotFacts DEF GoalsTypeOK, HandlerSlot
<1>4. QED
  BY <1>2, <1>3 DEF found

LEMMA FindReadingDaySlot ==
  ASSUME GoalsTypeOK, NEW h \in Handler, FindReadingDay(h)
  PROVE  \E pc \in {"progress", "readOldResults"} :
           handler' = [handler EXCEPT ![h] = [handler[h] EXCEPT !.count = day[handler[h].date], !.pc = pc]]
<1> DEFINE pc == IF handler[h].gotGoals THEN "readOldResults" ELSE "progress"
<1>1. handler' = [handler EXCEPT ![h].count = day[handler[h].date], ![h].pc = pc]
  BY DEF FindReadingDay
<1>2. pc \in {"progress", "readOldResults"}
  OBVIOUS
<1> HIDE DEF pc
<1>3. handler' = [handler EXCEPT ![h] = [handler[h] EXCEPT !.count = day[handler[h].date], !.pc = pc]]
  BY <1>1, SlotFacts DEF GoalsTypeOK, HandlerSlot
<1>4. QED
  BY <1>2, <1>3

LEMMA FindGoalResultsSlot ==
  ASSUME GoalsTypeOK, NEW h \in Handler, FindGoalResults(h)
  PROVE  \/ Done(h)
         \/ handler' = [handler EXCEPT ![h] =
              [handler[h] EXCEPT !.pc = "writeResults", !.was = CompletedAt(h), !.at = now]]
<1> DEFINE was == CompletedAt(h)
<1>1. Done(h) \/ handler' = [handler EXCEPT ![h].pc = "writeResults", ![h].was = was, ![h].at = now]
  BY DEF FindGoalResults
<1> HIDE DEF was
<1>2. QED
  BY <1>1, SlotFacts DEF GoalsTypeOK, HandlerSlot, was

LEMMA ReadOpenEndedSlot ==
  ASSUME GoalsTypeOK, NEW h \in Handler, ReadOpenEnded(h)
  PROVE  \E found \in SUBSET Goal :
           handler' = [handler EXCEPT ![h] = [handler[h] EXCEPT !.pc = "create", !.goals = found]]
<1> DEFINE found == {g \in Goal : OpenEnded(goal[g], handler[h].new.metric)}
<1>1. handler' = [handler EXCEPT ![h].pc = "create", ![h].goals = found] /\ found \in SUBSET Goal
  BY DEF ReadOpenEnded
<1> HIDE DEF found
<1>2. handler' = [handler EXCEPT ![h] = [handler[h] EXCEPT !.pc = "create", !.goals = found]]
  BY <1>1, SlotFacts DEF GoalsTypeOK, HandlerSlot
<1>3. QED
  BY <1>1, <1>2

LEMMA ProgressType ==
  ASSUME GoalsTypeOK, NEW h \in Handler, ProgressStep(h),
         DayOnlyGrew(h)
  PROVE  GoalsTypeOK'
<1>1. CASE FindActiveGoals(h)
  <2>1. PICK found \in SUBSET Goal, pc \in {"progress", "readOldResults"} :
          handler' = [handler EXCEPT ![h] =
            [handler[h] EXCEPT !.gotGoals = TRUE, !.goals = found, !.target = TargetsOf(found), !.pc = pc]]
    BY <1>1, FindActiveGoalsSlot
  <2>2. [handler[h] EXCEPT !.gotGoals = TRUE, !.goals = found, !.target = TargetsOf(found), !.pc = pc] \in HandlerSlot
    BY TargetsType, SlotFacts DEF HandlerSlot, Pc
  <2>3. handler' \in [Handler -> HandlerSlot]
    BY <2>1, <2>2, SlotOf
  <2>4. QED
    BY <1>1, <2>3 DEF FindActiveGoals, GoalsTypeOK, reading
<1>2. CASE FindReadingDay(h)
  <2>1. PICK pc \in {"progress", "readOldResults"} :
          handler' = [handler EXCEPT ![h] = [handler[h] EXCEPT !.count = day[handler[h].date], !.pc = pc]]
    BY <1>2, FindReadingDaySlot
  <2>2. [handler[h] EXCEPT !.count = day[handler[h].date], !.pc = pc] \in HandlerSlot
    BY SlotFacts DEF HandlerSlot, Pc
  <2>3. handler' \in [Handler -> HandlerSlot]
    BY <2>1, <2>2, SlotOf
  <2>4. QED
    BY <1>2, <2>3 DEF FindReadingDay, GoalsTypeOK, reading
<1>3. CASE FindGoalResults(h)
  <2>1. [handler[h] EXCEPT !.pc = "writeResults", !.was = CompletedAt(h), !.at = now] \in HandlerSlot
    <3>1. CompletedAt(h) \in [Goal -> Moment \union {Unset}] /\ now \in Moment
      BY CompletedType DEF GoalsTypeOK
    <3> HIDE DEF CompletedAt
    <3>2. QED
      BY <3>1, SlotFacts DEF HandlerSlot, Pc
  <2>2. handler' \in [Handler -> HandlerSlot]
    BY <1>3, <2>1, FindGoalResultsSlot, SlotOf, DoneType
  <2>3. QED
    BY <1>3, <2>2 DEF FindGoalResults, GoalsTypeOK, reading
<1>4. CASE UpsertGoalResults(h)
  <2>1. handler[h].count # Unset
    BY <1>4 DEF UpsertGoalResults, At, DayOnlyGrew
  <2>2. result' \in [Goal \X Date -> Result]
    BY <1>4, <2>1, SlotFacts, UpsertType DEF UpsertGoalResults
  <2>3. handler' \in [Handler -> HandlerSlot]
    BY <1>4, DoneType DEF UpsertGoalResults
  <2>4. QED
    BY <1>4, <2>2, <2>3 DEF UpsertGoalResults, GoalsTypeOK, reading
<1>5. QED
  BY <1>1, <1>2, <1>3, <1>4 DEF ProgressStep

LEMMA ClosedType ==
  ASSUME NEW row \in GoalRow, NEW from \in Date
  PROVE  Closed(row, from) \in GoalRow
<1>1. row.from < from => from - 1 \in Date
  BY DateBound DEF GoalRow, Date
<1>2. QED
  BY <1>1 DEF Closed, GoalRow

LEMMA CreateType ==
  ASSUME GoalsTypeOK, NEW h \in Handler, CreateStep(h)
  PROVE  GoalsTypeOK'
<1>1. CASE ReadOpenEnded(h)
  <2>1. PICK found \in SUBSET Goal :
          handler' = [handler EXCEPT ![h] = [handler[h] EXCEPT !.pc = "create", !.goals = found]]
    BY <1>1, ReadOpenEndedSlot
  <2>2. [handler[h] EXCEPT !.pc = "create", !.goals = found] \in HandlerSlot
    BY SlotFacts DEF HandlerSlot, Pc
  <2>3. handler' \in [Handler -> HandlerSlot]
    BY <2>1, <2>2, SlotOf
  <2>4. QED
    BY <1>1, <2>3 DEF ReadOpenEnded, GoalsTypeOK, reading
<1>2. ASSUME NEW g \in Goal, CreateClosingOpenEnded(h, g)
      PROVE  GoalsTypeOK'
  <2> DEFINE goals == [x \in Goal |-> IF x = g THEN handler[h].new
                                     ELSE IF x \in handler[h].goals THEN Closed(goal[x], handler[h].new.from)
                                     ELSE goal[x]]
  <2>1. goals \in [Goal -> GoalRow]
    <3>1. ASSUME NEW x \in Goal
          PROVE  /\ goal[x] \in GoalRow /\ Closed(goal[x], handler[h].new.from) \in GoalRow
                 /\ handler[h].new \in GoalRow
      <4>1. goal[x] \in GoalRow /\ handler[h].new \in GoalRow /\ handler[h].new.from \in Date
        BY SlotFacts DEF GoalsTypeOK, GoalRow
      <4>2. QED
        BY <4>1, ClosedType
    <3>2. QED
      BY <3>1
  <2>2. goal' = goals \/ goal' = goal
    BY <1>2 DEF CreateClosingOpenEnded
  <2> HIDE DEF goals
  <2>3. goal' \in [Goal -> GoalRow]
    BY <2>1, <2>2 DEF GoalsTypeOK
  <2>4. handler' \in [Handler -> HandlerSlot]
    BY <1>2, DoneType DEF CreateClosingOpenEnded
  <2>5. UNCHANGED <<now, reading, result, lock, raised, requests>>
    BY <1>2 DEF CreateClosingOpenEnded
  <2>6. QED
    BY <2>3, <2>4, <2>5 DEF GoalsTypeOK, reading
<1>3. QED
  BY <1>1, <1>2 DEF CreateStep

LEMMA EditType ==
  ASSUME GoalsTypeOK, NEW g \in Goal, EditStep(g)
  PROVE  GoalsTypeOK'
<1>0. requests' \in 0..MaxRequests
  <2>1. Request
    BY DEF EditStep, UpdateGoal, RemoveGoal
  <2>2. QED
    BY <2>1, ReadingAssumption DEF Request, GoalsTypeOK
<1>1. ASSUME NEW n \in Target, NEW b \in BOOLEAN, NEW d \in Date \union {OpenEnd}, UpdateGoal(g, n, b, d)
      PROVE  GoalsTypeOK'
  <2>1. goal' = [goal EXCEPT ![g].target = n, ![g].enabled = b, ![g].to = d]
    BY <1>1 DEF UpdateGoal
  <2>2. [goal[g] EXCEPT !.target = n, !.enabled = b, !.to = d] \in GoalRow
    BY DEF GoalsTypeOK, GoalRow
  <2>3. goal' = [goal EXCEPT ![g] = [goal[g] EXCEPT !.target = n, !.enabled = b, !.to = d]]
    BY <2>1 DEF GoalsTypeOK, GoalRow
  <2>4. goal' \in [Goal -> GoalRow]
    BY <2>2, <2>3 DEF GoalsTypeOK
  <2>5. raised' \subseteq Goal
    BY <1>1 DEF UpdateGoal, GoalsTypeOK
  <2>6. UNCHANGED <<now, reading, result, lock, handler>>
    BY <1>1 DEF UpdateGoal
  <2>7. QED
    BY <1>0, <2>4, <2>5, <2>6 DEF GoalsTypeOK, reading
<1>2. CASE RemoveGoal(g)
  <2>1. goal' \in [Goal -> GoalRow]
    BY <1>2 DEF RemoveGoal, GoalsTypeOK, GoalRow
  <2>2. QED
    BY <1>0, <1>2, <2>1 DEF RemoveGoal, GoalsTypeOK, reading
<1>3. QED
  BY <1>1, <1>2 DEF EditStep

LEMMA QuietType ==
  ASSUME GoalsTypeOK, ClockTicks \/ (\E h \in Handler : Fail(h)) \/ UNCHANGED goalVars
  PROVE  GoalsTypeOK'
<1>1. CASE ClockTicks
  BY <1>1, ReadingAssumption DEF ClockTicks, GoalsTypeOK, Moment, reading
<1>2. CASE \E h \in Handler : Fail(h)
  <2>1. PICK h \in Handler : Fail(h)
    BY <1>2
  <2>2. handler' \in [Handler -> HandlerSlot] /\ lock' \in Handler \union {NoHandler}
    BY <2>1, DoneType DEF Fail, GoalsTypeOK
  <2>3. QED
    BY <2>1, <2>2 DEF Fail, GoalsTypeOK, reading
<1>3. CASE UNCHANGED goalVars
  BY <1>3 DEF goalVars, reading, GoalsTypeOK
<1>4. QED
  BY <1>1, <1>2, <1>3

LEMMA TypeStep ==
  ASSUME GoalsTypeOK, \A h \in Handler : RowLocked(h) /\ DayOnlyGrew(h), [GoalsNext]_goalVars
  PROVE  GoalsTypeOK'
<1>1. ASSUME NEW h \in Handler, RequestStep(h) \/ OpenStep(h) \/ ProgressStep(h) \/ CreateStep(h)
      PROVE  GoalsTypeOK'
  BY <1>1, RequestType, OpenType, ProgressType, CreateType
<1>2. QED
  BY <1>1, EditType, QuietType DEF GoalsNext

----------------------------------------------------------------------------
(* The invariant is kept by every step.                                    *)

(* What no step does to a goal: it stays, counts what it counted, and has  *)
(* another target only when that was changed.                              *)
GoalsKept ==
  /\ raised \subseteq raised'
  /\ \A g \in Goal : goal[g].exists =>
       /\ goal'[g].exists
       /\ goal'[g].metric = goal[g].metric
       /\ g \notin raised' => goal'[g].target = goal[g].target

Fresh(h) ==
  handler[h].pc \in Opening =>
    /\ handler[h].id < requests
    /\ \A o \in history : o.id # handler[h].id
    /\ \A g \in Handler \ {h} : handler[g].pc \in Opening => handler[g].id # handler[h].id

(* A step of h that counts nothing disturbs no other request.              *)
LEMMA Frame ==
  ASSUME IInv, GoalsTypeOK', NEW h \in Handler,
         \A g \in Handler \ {h} : handler'[g] = handler[g],
         UNCHANGED <<history, readCount, day>>,
         requests <= requests',
         \A g \in Handler \ {h} : lock' = g <=> lock = g,
         GoalsKept, CompletionsEarned',
         RowLocked(h)', DayOnlyGrew(h)', TargetsStand(h)', Fresh(h)'
  PROVE  IInv'
<1>1. ASSUME NEW g \in Handler
      PROVE  RowLocked(g)' /\ DayOnlyGrew(g)'
  <2>1. CASE g = h
    BY <2>1
  <2>2. CASE g # h
    BY <2>2 DEF IInv, RowLocked, DayOnlyGrew
  <2>3. QED
    BY <2>1, <2>2
<1>2. ASSUME NEW g \in Handler
      PROVE  TargetsStand(g)'
  <2>1. CASE g = h
    BY <2>1
  <2>2. CASE g # h
    <3>1. handler'[g] = handler[g] /\ TargetsStand(g) /\ handler[g].goals \subseteq Goal
      BY <2>2, SlotFacts DEF IInv
    <3>2. QED
      BY <3>1 DEF TargetsStand, GoalsKept
  <2>3. QED
    BY <2>1, <2>2
<1>3. FreshIds'
  <2>1. \A o \in history : o.id \in Nat
    BY DEF IInv, GoalsTypeOK, Opened
  <2>2. \A g \in Handler : handler[g].id \in Nat
    BY SlotFacts DEF IInv
  <2>3. requests \in Nat /\ requests' \in Nat
    BY DEF IInv, GoalsTypeOK
  <2>4. \A o \in history' : o.id < requests'
    BY <2>1, <2>3 DEF IInv, FreshIds
  <2>5. ASSUME NEW g \in Handler
        PROVE  Fresh(g)'
    <3>1. CASE g = h
      BY <3>1
    <3>2. CASE g # h
      <4>1. handler'[g] = handler[g] /\ Fresh(g)
        BY <3>2 DEF IInv, FreshIds, Fresh
      <4>2. handler[g].pc \in Opening => handler[g].id < requests'
        BY <2>2, <2>3, <4>1 DEF Fresh
      <4>3. QED
        BY <4>1, <4>2, <3>2 DEF Fresh
    <3>3. QED
      BY <3>1, <3>2
  <2>6. QED
    BY <2>4, <2>5 DEF FreshIds, Fresh
<1>4. RollupsMatchHistory' /\ IsFiniteSet(history)'
  BY DEF IInv, RollupsMatchHistory
<1>5. QED
  BY <1>1, <1>2, <1>3, <1>4 DEF IInv

LEMMA ResultsUntouched ==
  ASSUME IInv, GoalsKept, UNCHANGED <<result, day>>
  PROVE  CompletionsEarned'
BY DEF IInv, CompletionsEarned, GoalsKept

LEMMA GoalsUntouched ==
  ASSUME UNCHANGED <<goal, raised>>
  PROVE  GoalsKept
BY DEF GoalsKept

(* A request that is over asks for nothing but to have left the lock.      *)
LEMMA Over ==
  ASSUME NEW h \in Handler, handler'[h] = IdleHandler, lock' # h
  PROVE  RowLocked(h)' /\ DayOnlyGrew(h)' /\ TargetsStand(h)' /\ Fresh(h)'
BY IdleHandlerType DEF RowLocked, DayOnlyGrew, TargetsStand, Fresh, Opening, AfterCount, Reading, GoalsRead

LEMMA RequestKeeps ==
  ASSUME IInv, NEW h \in Handler, RequestStep(h)
  PROVE  IInv'
<1>1. GoalsTypeOK'
  BY RequestType DEF IInv
<1>2. /\ UNCHANGED <<history, readCount, day, goal, result, lock, raised>>
      /\ requests' = requests + 1 /\ requests \in Nat
      /\ handler[h].pc = "idle" /\ lock # h
  <2>1. requests \in Nat /\ (lock = h => handler[h].pc \in AfterCount)
    BY DEF IInv, GoalsTypeOK, RowLocked
  <2>2. QED
    BY <2>1 DEF RequestStep, GetProgress, RecordAyahOpen, CreateGoal, Begin, Request, At, reading, AfterCount
<1>3. GoalsKept /\ CompletionsEarned'
  BY <1>2, GoalsUntouched, ResultsUntouched
<1>4. ASSUME NEW slot \in HandlerSlot, Begin(h, slot), slot.goals = {}, slot.count = Unset,
             \/ slot.pc \in {"progress", "readOpenEnded"}
             \/ slot.pc = "count" /\ slot.id = requests /\ slot.verse # NoVerse
      PROVE  IInv'
  <2>1. handler'[h] = slot /\ \A g \in Handler \ {h} : handler'[g] = handler[g]
    BY <1>4, SlotOf DEF IInv
  <2>2. RowLocked(h)' /\ DayOnlyGrew(h)' /\ TargetsStand(h)'
    BY <1>2, <1>4, <2>1 DEF RowLocked, DayOnlyGrew, TargetsStand, Opening, AfterCount, Reading, GoalsRead
  <2>3. Fresh(h)'
    <3>1. CASE slot.pc \in {"progress", "readOpenEnded"}
      BY <2>1, <3>1 DEF Fresh, Opening
    <3>2. CASE slot.pc = "count" /\ slot.id = requests
      <4>1. \A o \in history : o.id \in Nat /\ o.id < requests
        BY DEF IInv, FreshIds, GoalsTypeOK, Opened
      <4>2. \A g \in Handler : handler[g].id \in Nat /\ (handler[g].pc \in Opening => handler[g].id < requests)
        BY SlotFacts DEF IInv, FreshIds
      <4>3. QED
        BY <1>2, <2>1, <3>2, <4>1, <4>2 DEF Fresh
    <3>3. QED
      BY <1>4, <3>1, <3>2
  <2>4. QED
    BY <1>1, <1>2, <1>3, <2>1, <2>2, <2>3, Frame
<1>5. ASSUME NEW zone \in Zone, GetProgress(h, zone)
      PROVE  IInv'
  <2> DEFINE slot == [IdleHandler EXCEPT !.pc = "progress", !.date = LocalDate(now, zone)]
  <2>1. Begin(h, slot)
    BY <1>5 DEF GetProgress
  <2>2. slot \in HandlerSlot
    BY DateType, IdleHandlerType DEF HandlerSlot, Pc, IInv, GoalsTypeOK
  <2>3. slot.goals = {} /\ slot.count = Unset /\ slot.pc = "progress"
    BY DEF IdleHandler
  <2> HIDE DEF slot
  <2>4. QED
    BY <2>1, <2>2, <2>3, <1>4
<1>6. ASSUME NEW zone \in Zone, NEW v \in Verse, RecordAyahOpen(h, v, zone)
      PROVE  IInv'
  <2> DEFINE slot == [IdleHandler EXCEPT !.pc = "count", !.id = requests, !.verse = v, !.at = now,
                                      !.date = LocalDate(now, zone)]
  <2>1. Begin(h, slot)
    BY <1>6 DEF RecordAyahOpen
  <2>2. slot \in HandlerSlot
    BY DateType, IdleHandlerType DEF HandlerSlot, Pc, IInv, GoalsTypeOK
  <2>3. slot.goals = {} /\ slot.count = Unset /\ slot.pc = "count" /\ slot.id = requests /\ slot.verse = v
    BY DEF IdleHandler
  <2>4. v # NoVerse
    BY ReadingAssumption
  <2> HIDE DEF slot
  <2>5. QED
    BY <2>1, <2>2, <2>3, <2>4, <1>4
<1>7. ASSUME NEW m \in Metric, NEW n \in Target, NEW d \in Date, CreateGoal(h, m, n, d)
      PROVE  IInv'
  <2> DEFINE row == [exists |-> TRUE, metric |-> m, target |-> n, from |-> d,
                     to |-> OpenEnd, enabled |-> TRUE, deleted |-> FALSE]
             slot == [IdleHandler EXCEPT !.pc = "readOpenEnded", !.new = row]
  <2>1. Begin(h, slot)
    BY <1>7 DEF CreateGoal
  <2>2. row \in GoalRow
    BY DEF GoalRow
  <2>3. slot \in HandlerSlot /\ slot.goals = {} /\ slot.count = Unset /\ slot.pc = "readOpenEnded"
    <3> HIDE DEF row
    <3>1. slot \in HandlerSlot
      BY <2>2, IdleHandlerType DEF HandlerSlot, Pc
    <3>2. slot.goals = {} /\ slot.count = Unset /\ slot.pc = "readOpenEnded"
      BY DEF IdleHandler
    <3>3. QED
      BY <3>1, <3>2
  <2> HIDE DEF slot
  <2>4. QED
    BY <2>1, <2>3, <1>4
<1>8. QED
  BY <1>5, <1>6, <1>7 DEF RequestStep

(* Under the lock an open goes on as it began. *)
LEMMA OpenReads ==
  ASSUME IInv, NEW h \in Handler, CountOpen(h) \/ ReadVerseGoals(h) \/ ReadResults(h)
  PROVE  IInv'
<1> USE DEF Opening, AfterCount, Reading, GoalsRead
<1>1. GoalsTypeOK'
  BY OpenType DEF IInv, OpenStep
<1>2. /\ UNCHANGED <<history, readCount, day, goal, result, raised, requests>>
      /\ handler[h].pc \in Opening /\ lock \in {h, NoHandler}
  BY DEF CountOpen, ReadVerseGoals, ReadResults, At, reading, IInv, RowLocked
<1>3. GoalsKept /\ CompletionsEarned'
  BY <1>2, GoalsUntouched, ResultsUntouched
<1>4. ASSUME NEW slot \in HandlerSlot, handler' = [handler EXCEPT ![h] = slot], lock' = h,
             slot.pc \in AfterCount, slot.id = handler[h].id, slot.verse = handler[h].verse,
             slot.count = day[slot.date] + 1,
             slot.pc # "readGoals" => \A g \in slot.goals :
               goal[g].exists /\ (g \notin raised => slot.target[g] = goal[g].target)
               /\ goal[g].metric = "VERSES"
      PROVE  IInv'
  <2>1. handler'[h] = slot /\ \A g \in Handler \ {h} : handler'[g] = handler[g]
    BY <1>4, SlotOf DEF IInv
  <2>2. handler[h].verse # NoVerse /\ Fresh(h)
    BY <1>2 DEF IInv, RowLocked, FreshIds, Fresh
  <2>3. RowLocked(h)' /\ DayOnlyGrew(h)'
    BY <1>2, <1>4, <2>1, <2>2 DEF RowLocked, DayOnlyGrew
  <2>4. TargetsStand(h)'
    BY <1>2, <1>4, <2>1 DEF TargetsStand
  <2>5. Fresh(h)'
    BY <1>2, <1>4, <2>1, <2>2 DEF Fresh
  <2>6. \A g \in Handler \ {h} : lock' = g <=> lock = g
    BY <1>2, <1>4, ReadingAssumption
  <2>7. requests <= requests'
    BY <1>2 DEF IInv, GoalsTypeOK
  <2>8. QED
    BY <1>1, <1>2, <1>3, <2>1, <2>3, <2>4, <2>5, <2>6, <2>7, Frame
<1>5. CASE CountOpen(h)
  <2> DEFINE n == day[handler[h].date] + 1
             slot == [handler[h] EXCEPT !.pc = "readGoals", !.count = n]
  <2>0. n \in Nat
    BY SlotFacts DEF IInv
  <2>1. handler' = [handler EXCEPT ![h] = slot] /\ lock' = h
    BY <1>5, CountOpenSlot DEF IInv, CountOpen
  <2> HIDE DEF n
  <2>2. slot \in HandlerSlot
    BY <2>0, SlotFacts DEF HandlerSlot, Pc, IInv
  <2>3. /\ slot.pc = "readGoals" /\ slot.id = handler[h].id /\ slot.verse = handler[h].verse
        /\ slot.date = handler[h].date /\ slot.count = n
    BY SlotFacts DEF HandlerSlot, IInv
  <2> HIDE DEF slot
  <2>4. QED
    BY <2>1, <2>2, <2>3, <1>4 DEF n
<1>6. CASE ReadVerseGoals(h)
  <2>1. PICK found \in SUBSET Goal, pc \in {"commit", "readResults"} :
          /\ found = {g \in Goal : goal[g].metric = "VERSES" /\ ActiveOn(g, handler[h].date)}
          /\ handler' = [handler EXCEPT ![h] =
               [handler[h] EXCEPT !.pc = pc, !.goals = found, !.target = TargetsOf(found)]]
    BY <1>6, ReadVerseGoalsSlot DEF IInv
  <2> PICK slot : slot = [handler[h] EXCEPT !.pc = pc, !.goals = found, !.target = TargetsOf(found)]
    OBVIOUS
  <2>2. slot \in HandlerSlot
    BY TargetsType, SlotFacts DEF HandlerSlot, Pc, IInv
  <2>3. /\ slot.pc = pc /\ slot.id = handler[h].id /\ slot.verse = handler[h].verse
        /\ slot.date = handler[h].date /\ slot.count = handler[h].count /\ slot.goals = found
        /\ slot.target = TargetsOf(found)
    BY SlotFacts DEF HandlerSlot, IInv
  <2>4. lock' = h /\ handler[h].count = day[handler[h].date] + 1
    BY <1>6 DEF ReadVerseGoals, At, IInv, RowLocked
  <2>5. \A g \in found : goal[g].exists /\ goal[g].metric = "VERSES" /\ TargetsOf(found)[g] = goal[g].target
    BY <2>1 DEF ActiveOn, Enabled, TargetsOf
  <2>6. handler' = [handler EXCEPT ![h] = slot] /\ lock' = h
    BY <2>1, <2>4
  <2>7. slot.pc \in AfterCount /\ slot.count = day[slot.date] + 1
    BY <2>1, <2>3, <2>4
  <2>8. \A g \in slot.goals : goal[g].exists /\ (g \notin raised => slot.target[g] = goal[g].target)
                             /\ goal[g].metric = "VERSES"
    BY <2>3, <2>5
  <2>9. slot.id = handler[h].id /\ slot.verse = handler[h].verse
    BY <2>3
  <2>10. QED
    BY <2>2, <2>6, <2>7, <2>8, <2>9, <1>4
<1>7. CASE ReadResults(h)
  <2> DEFINE slot == [handler[h] EXCEPT !.pc = "commit", !.was = CompletedAt(h)]
  <2>1. handler' = [handler EXCEPT ![h] = slot]
    BY <1>7, ReadResultsSlot DEF IInv
  <2>2. slot \in HandlerSlot
    <3>1. CompletedAt(h) \in [Goal -> Moment \union {Unset}]
      BY CompletedType DEF IInv
    <3> HIDE DEF CompletedAt
    <3>2. QED
      BY <3>1, SlotFacts DEF HandlerSlot, Pc, IInv
  <2>3. /\ slot.pc = "commit" /\ slot.id = handler[h].id /\ slot.verse = handler[h].verse
        /\ slot.date = handler[h].date /\ slot.count = handler[h].count /\ slot.goals = handler[h].goals
        /\ slot.target = handler[h].target
    BY SlotFacts DEF HandlerSlot, IInv
  <2>4. /\ lock' = h /\ handler[h].count = day[handler[h].date] + 1
        /\ handler[h].pc = "readResults" /\ TargetsStand(h)
    BY <1>7 DEF ReadResults, At, IInv, RowLocked
  <2> HIDE DEF slot
  <2>5. QED
    BY <2>1, <2>2, <2>3, <2>4, <1>4 DEF TargetsStand
<1>8. QED
  BY <1>5, <1>6, <1>7

(* What an upsert of results writes: for the goals and the day of the      *)
(* request, complete exactly when the count reaches the target.            *)
LEMMA UpsertEffect ==
  ASSUME GoalsTypeOK, NEW h \in Handler, NEW moment \in Moment, UpsertResults(h, moment),
         NEW g \in Goal, NEW d \in Date
  PROVE  /\ ~(g \in handler[h].goals /\ d = handler[h].date) => result'[<<g, d>>] = result[<<g, d>>]
         /\ g \in handler[h].goals /\ d = handler[h].date =>
              result'[<<g, d>>].completedAt = Unset <=>
                (IF goal[g].metric = "VERSES" THEN handler[h].count ELSE 0) < handler[h].target[g]
<1> DEFINE k == <<g, d>>
           n == IF goal[g].metric = "VERSES" THEN handler[h].count ELSE 0
<1>1. k \in Goal \X Date /\ k[1] = g /\ k[2] = d
  OBVIOUS
<1>2. result'[k] = IF k[1] \in handler[h].goals /\ k[2] = handler[h].date
                   THEN Written(n, handler[h].target[k[1]], handler[h].was[k[1]], moment)
                   ELSE result[k]
  BY <1>1 DEF UpsertResults
<1>3. handler[h].was[g] \in Moment \union {Unset} /\ moment # Unset
  BY SlotFacts DEF Moment, Unset
<1> HIDE DEF k, n
<1>4. g \in handler[h].goals /\ d = handler[h].date =>
        result'[k] = Written(n, handler[h].target[g], handler[h].was[g], moment)
  BY <1>1, <1>2
<1>5. Written(n, handler[h].target[g], handler[h].was[g], moment).completedAt = Unset
        <=> n < handler[h].target[g]
  BY <1>3 DEF Written
<1>6. ~(g \in handler[h].goals /\ d = handler[h].date) => result'[k] = result[k]
  BY <1>1, <1>2
<1>7. QED
  BY <1>4, <1>5, <1>6 DEF k, n

(* The commit of an open counts one open more, on its verse and its day.   *)
LEMMA CommitCounts ==
  ASSUME IInv, NEW h \in Handler, CommitOpen(h)
  PROVE  RollupsMatchHistory' /\ IsFiniteSet(history)'
<1> DEFINE o == [id |-> handler[h].id, verse |-> handler[h].verse, at |-> handler[h].at, date |-> handler[h].date]
<1>1. /\ history' = history \union {o}
      /\ readCount' = [readCount EXCEPT ![handler[h].verse] = readCount[handler[h].verse] + 1]
      /\ day' = [day EXCEPT ![handler[h].date] = day[handler[h].date] + 1]
  BY DEF CommitOpen, At, IInv, RowLocked, AfterCount
<1>2. o \notin history
  <2>1. \A x \in history : x.id # handler[h].id
    BY DEF CommitOpen, At, IInv, FreshIds, Opening
  <2>2. QED
    BY <2>1
<1>3. o.verse = handler[h].verse /\ o.date = handler[h].date /\ IsFiniteSet(history) /\ GoalsTypeOK
  BY DEF IInv
<1> HIDE DEF o
<1>4. ASSUME NEW v \in Verse
      PROVE  readCount'[v] = Cardinality({x \in history' : x.verse = v})
  <2> DEFINE S == {x \in history : x.verse = v}
  <2>1. IsFiniteSet(S) /\ S \subseteq history
    BY <1>3, FS_Subset
  <2>2. readCount[v] = Cardinality(S) /\ readCount[v] \in Nat
    BY <1>3 DEF IInv, RollupsMatchHistory, GoalsTypeOK
  <2>3. CASE v = handler[h].verse
    <3>1. {x \in history' : x.verse = v} = S \union {o}
      BY <1>1, <1>3, <2>3
    <3>2. Cardinality(S \union {o}) = Cardinality(S) + 1
      BY <1>2, <2>1, FS_AddElement
    <3>3. readCount'[v] = readCount[v] + 1
      BY <1>1, <1>3, <2>3 DEF GoalsTypeOK
    <3>4. QED
      BY <2>2, <3>1, <3>2, <3>3
  <2>4. CASE v # handler[h].verse
    <3>1. {x \in history' : x.verse = v} = S
      BY <1>1, <1>3, <2>4
    <3>2. readCount'[v] = readCount[v]
      BY <1>1, <1>3, <2>4 DEF GoalsTypeOK
    <3>3. QED
      BY <2>2, <3>1, <3>2
  <2>5. QED
    BY <2>3, <2>4
<1>5. ASSUME NEW d \in Date
      PROVE  day'[d] = Cardinality({x \in history' : x.date = d})
  <2> DEFINE S == {x \in history : x.date = d}
  <2>1. IsFiniteSet(S) /\ S \subseteq history
    BY <1>3, FS_Subset
  <2>2. day[d] = Cardinality(S) /\ day[d] \in Nat
    BY <1>3 DEF IInv, RollupsMatchHistory, GoalsTypeOK
  <2>3. CASE d = handler[h].date
    <3>1. {x \in history' : x.date = d} = S \union {o}
      BY <1>1, <1>3, <2>3
    <3>2. Cardinality(S \union {o}) = Cardinality(S) + 1
      BY <1>2, <2>1, FS_AddElement
    <3>3. day'[d] = day[d] + 1
      BY <1>1, <1>3, <2>3 DEF GoalsTypeOK
    <3>4. QED
      BY <2>2, <3>1, <3>2, <3>3
  <2>4. CASE d # handler[h].date
    <3>1. {x \in history' : x.date = d} = S
      BY <1>1, <1>3, <2>4
    <3>2. day'[d] = day[d]
      BY <1>1, <1>3, <2>4 DEF GoalsTypeOK
    <3>3. QED
      BY <2>2, <3>1, <3>2
  <2>5. QED
    BY <2>3, <2>4
<1>6. IsFiniteSet(history')
  BY <1>1, <1>2, <1>3, FS_AddElement
<1>7. QED
  BY <1>4, <1>5, <1>6 DEF RollupsMatchHistory

LEMMA CommitKeeps ==
  ASSUME IInv, NEW h \in Handler, CommitOpen(h)
  PROVE  IInv'
<1> USE DEF Opening, AfterCount, Reading, GoalsRead
<1>0. GoalsTypeOK /\ GoalsTypeOK' /\ handler[h].pc = "commit"
  BY OpenType DEF IInv, OpenStep, CommitOpen, At
<1>1. /\ history' = history \union
           {[id |-> handler[h].id, verse |-> handler[h].verse, at |-> handler[h].at, date |-> handler[h].date]}
      /\ day' = [day EXCEPT ![handler[h].date] = handler[h].count]
      /\ UpsertResults(h, handler[h].at)
      /\ lock' = NoHandler
      /\ UNCHANGED <<goal, raised, requests>>
  BY DEF CommitOpen
<1>2. handler'[h] = IdleHandler /\ \A g \in Handler \ {h} : handler'[g] = handler[g]
  BY <1>0, SlotOf DEF CommitOpen
<1>3. lock = h /\ handler[h].count = day[handler[h].date] + 1
  BY <1>0 DEF IInv, RowLocked
<1>4. \A d \in Date : day[d] \in Nat /\ day'[d] \in Nat /\ day[d] <= day'[d]
  BY <1>0, <1>1, <1>3, SlotFacts DEF GoalsTypeOK
<1>5. RowLocked(h)' /\ DayOnlyGrew(h)' /\ TargetsStand(h)' /\ Fresh(h)'
  BY <1>1, <1>2, Over, ReadingAssumption
<1>6. ASSUME NEW g \in Handler \ {h}
      PROVE  RowLocked(g)' /\ DayOnlyGrew(g)' /\ TargetsStand(g)'
  <2>1. handler'[g] = handler[g] /\ RowLocked(g) /\ DayOnlyGrew(g) /\ TargetsStand(g)
    BY <1>2 DEF IInv
  <2>2. handler[g].pc \notin AfterCount
    BY <1>3, <2>1 DEF RowLocked
  <2>3. RowLocked(g)'
    BY <1>1, <2>1, <2>2, ReadingAssumption DEF RowLocked
  <2>4. DayOnlyGrew(g)'
    <3>1. handler[g].date \in Date /\ handler[g].count \in Nat \union {Unset}
      BY <1>0, SlotFacts
    <3>2. QED
      BY <1>4, <2>1, <3>1 DEF DayOnlyGrew, Unset
  <2>5. TargetsStand(g)'
    BY <1>1, <2>1 DEF TargetsStand
  <2>6. QED
    BY <2>3, <2>4, <2>5
<1>7. FreshIds'
  <2>1. handler[h].id < requests
    BY <1>0 DEF IInv, FreshIds
  <2>2. \A o \in history' : o.id < requests'
    BY <1>1, <2>1 DEF IInv, FreshIds
  <2>3. ASSUME NEW g \in Handler \ {h}
        PROVE  Fresh(g)'
    <3>1. handler'[g] = handler[g] /\ Fresh(g)
      BY <1>2 DEF IInv, FreshIds, Fresh
    <3>2. handler[g].pc \in Opening => handler[h].id # handler[g].id
      BY <1>0, <3>1 DEF Fresh
    <3>3. handler[g].pc \in Opening => \A o \in history' : o.id # handler[g].id
      BY <1>1, <3>1, <3>2 DEF Fresh
    <3>4. \A f \in Handler \ {g} : handler'[f].pc \in Opening => handler[f].pc \in Opening /\ handler'[f] = handler[f]
      BY <1>2, IdleHandlerType
    <3>5. QED
      BY <1>1, <3>1, <3>3, <3>4 DEF Fresh
  <2>4. QED
    BY <1>5, <2>2, <2>3 DEF FreshIds, Fresh
<1>8. CompletionsEarned'
  <2> SUFFICES ASSUME NEW g \in Goal, NEW d \in Date, result'[<<g, d>>].completedAt # Unset, g \notin raised
               PROVE  goal[g].exists /\ goal[g].metric = "VERSES" /\ goal[g].target <= day'[d]
    BY <1>1 DEF CompletionsEarned
  <2>0. goal[g].target \in Nat
    BY <1>0, ReadingAssumption DEF GoalsTypeOK, GoalRow
  <2>1. CASE g \in handler[h].goals /\ d = handler[h].date
    <3>1. ~((IF goal[g].metric = "VERSES" THEN handler[h].count ELSE 0) < handler[h].target[g])
      BY <1>0, <1>1, <2>1, SlotFacts, UpsertEffect
    <3>2. goal[g].exists /\ goal[g].metric = "VERSES" /\ handler[h].target[g] = goal[g].target
      BY <1>0, <2>1 DEF IInv, TargetsStand
    <3>3. day'[d] = handler[h].count
      BY <1>0, <1>1, <2>1 DEF GoalsTypeOK
    <3>4. QED
      BY <1>4, <2>0, <3>1, <3>2, <3>3
  <2>2. CASE ~(g \in handler[h].goals /\ d = handler[h].date)
    <3>1. result'[<<g, d>>] = result[<<g, d>>]
      BY <1>0, <1>1, <2>2, SlotFacts, UpsertEffect
    <3>2. goal[g].exists /\ goal[g].metric = "VERSES" /\ goal[g].target <= day[d]
      BY <3>1 DEF IInv, CompletionsEarned
    <3>3. QED
      BY <1>4, <2>0, <3>2
  <2>3. QED
    BY <2>1, <2>2
<1>9. QED
  BY <1>0, <1>5, <1>6, <1>7, <1>8, CommitCounts DEF IInv

(* A request for the progress reads a day that only grows. *)
LEMMA ProgressKeeps ==
  ASSUME IInv, NEW h \in Handler, ProgressStep(h)
  PROVE  IInv'
<1> USE DEF Opening, AfterCount, Reading, GoalsRead
<1>1. GoalsTypeOK /\ GoalsTypeOK' /\ RowLocked(h) /\ DayOnlyGrew(h) /\ TargetsStand(h)
  BY ProgressType DEF IInv
<1>2. /\ UNCHANGED <<history, readCount, day, goal, raised, requests, lock>>
      /\ handler[h].pc \in Reading
  BY DEF ProgressStep, FindActiveGoals, FindReadingDay, FindGoalResults, UpsertGoalResults, At, reading
<1>3. GoalsKept /\ lock # h /\ requests <= requests'
  BY <1>1, <1>2, GoalsUntouched DEF RowLocked, GoalsTypeOK
<1>4. ASSUME NEW slot \in HandlerSlot, handler' = [handler EXCEPT ![h] = slot], result' = result,
             slot.pc \in Reading, slot.count # Unset => slot.count <= day[slot.date],
             slot.pc # "progress" => slot.count # Unset,
             \A g \in slot.goals :
               goal[g].exists /\ (g \notin raised => slot.target[g] = goal[g].target)
      PROVE  IInv'
  <2>1. handler'[h] = slot /\ \A g \in Handler \ {h} : handler'[g] = handler[g]
    BY <1>1, <1>4, SlotOf
  <2>2. RowLocked(h)' /\ DayOnlyGrew(h)' /\ TargetsStand(h)' /\ Fresh(h)'
    BY <1>2, <1>3, <1>4, <2>1 DEF RowLocked, DayOnlyGrew, TargetsStand, Fresh
  <2>3. CompletionsEarned'
    BY <1>2, <1>3, <1>4, ResultsUntouched
  <2>4. QED
    BY <1>1, <1>2, <1>3, <2>1, <2>2, <2>3, Frame
<1>5. ASSUME Done(h), CompletionsEarned'
      PROVE  IInv'
  <2>1. handler'[h] = IdleHandler /\ \A g \in Handler \ {h} : handler'[g] = handler[g]
    BY <1>1, <1>5, SlotOf
  <2>2. RowLocked(h)' /\ DayOnlyGrew(h)' /\ TargetsStand(h)' /\ Fresh(h)'
    BY <1>2, <1>3, <2>1, Over
  <2>3. QED
    BY <1>1, <1>2, <1>3, <1>5, <2>1, <2>2, Frame
<1>6. CASE FindActiveGoals(h)
  <2>1. PICK found \in SUBSET Goal, pc \in {"progress", "readOldResults"} :
          /\ found = {g \in Goal : ActiveOn(g, handler[h].date)}
          /\ pc = "readOldResults" => handler[h].count # Unset
          /\ handler' = [handler EXCEPT ![h] =
               [handler[h] EXCEPT !.gotGoals = TRUE, !.goals = found, !.target = TargetsOf(found), !.pc = pc]]
    BY <1>1, <1>6, FindActiveGoalsSlot
  <2> DEFINE slot == [handler[h] EXCEPT !.gotGoals = TRUE, !.goals = found, !.target = TargetsOf(found), !.pc = pc]
  <2>2. slot \in HandlerSlot
    BY <1>1, TargetsType, SlotFacts DEF HandlerSlot, Pc
  <2>3. /\ slot.pc = pc /\ slot.date = handler[h].date /\ slot.count = handler[h].count
        /\ slot.goals = found /\ slot.target = TargetsOf(found)
    BY <1>1, SlotFacts DEF HandlerSlot
  <2>4. \A g \in found : goal[g].exists /\ TargetsOf(found)[g] = goal[g].target
    BY <2>1 DEF ActiveOn, Enabled, TargetsOf
  <2>5. result' = result
    BY <1>6 DEF FindActiveGoals
  <2>6. handler[h].count # Unset => handler[h].count <= day[handler[h].date]
    BY <1>1, <1>2 DEF DayOnlyGrew
  <2>7. slot.pc # "progress" => slot.count # Unset
    BY <2>1, <2>3
  <2>8. handler' = [handler EXCEPT ![h] = slot]
    BY <2>1
  <2> HIDE DEF slot
  <2>9. QED
    BY <1>4, <2>2, <2>3, <2>4, <2>5, <2>6, <2>7, <2>8
<1>7. CASE FindReadingDay(h)
  <2>1. PICK pc \in {"progress", "readOldResults"} :
          handler' = [handler EXCEPT ![h] = [handler[h] EXCEPT !.count = day[handler[h].date], !.pc = pc]]
    BY <1>1, <1>7, FindReadingDaySlot
  <2> DEFINE slot == [handler[h] EXCEPT !.count = day[handler[h].date], !.pc = pc]
  <2>2. slot \in HandlerSlot
    BY <1>1, SlotFacts DEF HandlerSlot, Pc
  <2>3. /\ slot.pc = pc /\ slot.date = handler[h].date /\ slot.count = day[handler[h].date]
        /\ slot.goals = handler[h].goals /\ slot.target = handler[h].target
    BY <1>1, SlotFacts DEF HandlerSlot
  <2>4. result' = result /\ handler' = [handler EXCEPT ![h] = slot]
    BY <1>7, <2>1 DEF FindReadingDay
  <2>5. \A g \in handler[h].goals :
          goal[g].exists /\ (g \notin raised => handler[h].target[g] = goal[g].target)
    BY <1>1, <1>2 DEF TargetsStand
  <2>6. day[handler[h].date] \in Nat
    BY <1>1, SlotFacts
  <2>7. slot.count <= day[slot.date] /\ slot.count # Unset
    BY <2>3, <2>6 DEF Unset
  <2>8. slot.pc \in Reading
    BY <2>1, <2>3
  <2>9. \A g \in slot.goals :
          goal[g].exists /\ (g \notin raised => slot.target[g] = goal[g].target)
    BY <2>3, <2>5
  <2> HIDE DEF slot
  <2>10. QED
    BY <1>4, <2>2, <2>4, <2>7, <2>8, <2>9
<1>8. CASE FindGoalResults(h)
  <2>0. result' = result
    BY <1>8 DEF FindGoalResults
  <2>1. CASE Done(h)
    BY <1>2, <1>3, <1>5, <2>0, <2>1, ResultsUntouched
  <2>2. CASE handler' = [handler EXCEPT ![h] =
               [handler[h] EXCEPT !.pc = "writeResults", !.was = CompletedAt(h), !.at = now]]
    <3> DEFINE slot == [handler[h] EXCEPT !.pc = "writeResults", !.was = CompletedAt(h), !.at = now]
    <3>1. slot \in HandlerSlot
      <4>1. CompletedAt(h) \in [Goal -> Moment \union {Unset}] /\ now \in Moment
        BY <1>1, CompletedType DEF GoalsTypeOK
      <4> HIDE DEF CompletedAt
      <4>2. QED
        BY <1>1, <4>1, SlotFacts DEF HandlerSlot, Pc
    <3>2. /\ slot.pc = "writeResults" /\ slot.date = handler[h].date /\ slot.count = handler[h].count
          /\ slot.goals = handler[h].goals /\ slot.target = handler[h].target
      BY <1>1, SlotFacts DEF HandlerSlot
    <3>3. \A g \in handler[h].goals :
            goal[g].exists /\ (g \notin raised => handler[h].target[g] = goal[g].target)
      BY <1>1, <1>2 DEF TargetsStand
    <3>4. handler[h].count # Unset /\ handler[h].count <= day[handler[h].date]
      BY <1>1, <1>8 DEF FindGoalResults, At, DayOnlyGrew
    <3>5. handler' = [handler EXCEPT ![h] = slot]
      BY <2>2
    <3> HIDE DEF slot
    <3>6. QED
      BY <1>4, <2>0, <3>1, <3>2, <3>3, <3>4, <3>5
  <2>3. QED
    BY <1>1, <1>8, <2>1, <2>2, FindGoalResultsSlot
<1>9. CASE UpsertGoalResults(h)
  <2>1. /\ Done(h) /\ UpsertResults(h, handler[h].at)
        /\ handler[h].count # Unset /\ handler[h].count <= day[handler[h].date]
    BY <1>1, <1>9 DEF UpsertGoalResults, At, DayOnlyGrew
  <2>2. CompletionsEarned'
    <3> SUFFICES ASSUME NEW g \in Goal, NEW d \in Date, result'[<<g, d>>].completedAt # Unset, g \notin raised
                 PROVE  goal[g].exists /\ goal[g].metric = "VERSES" /\ goal[g].target <= day[d]
      BY <1>2 DEF CompletionsEarned
    <3>1. CASE g \in handler[h].goals /\ d = handler[h].date
      <4>1. ~((IF goal[g].metric = "VERSES" THEN handler[h].count ELSE 0) < handler[h].target[g])
        BY <1>1, <2>1, <3>1, SlotFacts, UpsertEffect
      <4>2. goal[g].exists /\ handler[h].target[g] = goal[g].target
        BY <1>1, <1>2, <3>1 DEF TargetsStand
      <4>3. /\ handler[h].target[g] \in Nat /\ 0 < handler[h].target[g] /\ handler[h].count \in Nat
            /\ day[d] \in Nat
        <5>1. handler[h].target[g] \in Target
          BY <1>1, SlotFacts
        <5>2. \A n \in Target : n \in Nat /\ 0 < n
          BY ReadingAssumption
        <5>3. handler[h].count \in Nat /\ day[d] \in Nat
          BY <1>1, <2>1, <3>1, SlotFacts
        <5>4. QED
          BY <5>1, <5>2, <5>3
      <4>4. QED
        BY <2>1, <3>1, <4>1, <4>2, <4>3
    <3>2. CASE ~(g \in handler[h].goals /\ d = handler[h].date)
      BY <1>1, <2>1, <3>2, SlotFacts, UpsertEffect DEF IInv, CompletionsEarned
    <3>3. QED
      BY <3>1, <3>2
  <2>3. QED
    BY <1>5, <2>1, <2>2
<1>10. QED
  BY <1>6, <1>7, <1>8, <1>9 DEF ProgressStep

(* The goals are only added to, closed, switched off or given a target. *)
LEMMA CreateKeeps ==
  ASSUME IInv, NEW h \in Handler, CreateStep(h)
  PROVE  IInv'
<1> USE DEF Opening, AfterCount, Reading, GoalsRead
<1>1. GoalsTypeOK /\ GoalsTypeOK' /\ RowLocked(h)
  BY CreateType DEF IInv
<1>2. /\ UNCHANGED <<history, readCount, day, result, raised, requests, lock>>
      /\ handler[h].pc \in {"readOpenEnded", "create"} /\ lock # h /\ requests <= requests'
  <2>1. /\ UNCHANGED <<history, readCount, day, result, raised, requests, lock>>
        /\ handler[h].pc \in {"readOpenEnded", "create"}
    BY DEF CreateStep, ReadOpenEnded, CreateClosingOpenEnded, At, reading
  <2>2. lock # h
    BY <1>1, <2>1 DEF RowLocked
  <2>3. requests <= requests'
    BY <1>1, <2>1 DEF GoalsTypeOK
  <2>4. QED
    BY <2>1, <2>2, <2>3
<1>3. CASE ReadOpenEnded(h)
  <2>1. PICK found \in SUBSET Goal :
          handler' = [handler EXCEPT ![h] = [handler[h] EXCEPT !.pc = "create", !.goals = found]]
    BY <1>1, <1>3, ReadOpenEndedSlot
  <2>2. handler'[h].pc = "create" /\ \A g \in Handler \ {h} : handler'[g] = handler[g]
    <3> DEFINE slot == [handler[h] EXCEPT !.pc = "create", !.goals = found]
    <3>1. slot.pc = "create"
      BY <1>1, SlotFacts DEF HandlerSlot
    <3> HIDE DEF slot
    <3>2. QED
      BY <1>1, <2>1, <3>1, SlotOf DEF slot
  <2>3. RowLocked(h)' /\ DayOnlyGrew(h)' /\ TargetsStand(h)' /\ Fresh(h)'
    BY <1>2, <2>2 DEF RowLocked, DayOnlyGrew, TargetsStand, Fresh
  <2>4. GoalsKept /\ CompletionsEarned'
    <3>1. UNCHANGED <<goal, raised>>
      BY <1>3 DEF ReadOpenEnded
    <3>2. QED
      BY <1>2, <3>1, GoalsUntouched, ResultsUntouched
  <2>5. QED
    BY <1>1, <1>2, <2>2, <2>3, <2>4, Frame
<1>4. ASSUME NEW g \in Goal, CreateClosingOpenEnded(h, g)
      PROVE  IInv'
  <2>1. handler'[h] = IdleHandler /\ \A f \in Handler \ {h} : handler'[f] = handler[f]
    BY <1>1, <1>4, SlotOf DEF CreateClosingOpenEnded
  <2>2. GoalsKept
    <3>1. ASSUME NEW x \in Goal, goal[x].exists
          PROVE  goal'[x].exists /\ goal'[x].metric = goal[x].metric /\ goal'[x].target = goal[x].target
      <4>1. goal'[x] \in {goal[x], Closed(goal[x], handler[h].new.from)}
        BY <1>4, <3>1 DEF CreateClosingOpenEnded
      <4>2. goal[x] \in GoalRow
        BY <1>1 DEF GoalsTypeOK
      <4>3. QED
        BY <3>1, <4>1, <4>2 DEF Closed, GoalRow
    <3>2. QED
      BY <1>2, <3>1 DEF GoalsKept
  <2>3. RowLocked(h)' /\ DayOnlyGrew(h)' /\ TargetsStand(h)' /\ Fresh(h)' /\ CompletionsEarned'
    BY <1>2, <2>1, <2>2, Over, ResultsUntouched
  <2>4. QED
    BY <1>1, <1>2, <2>1, <2>2, <2>3, Frame
<1>5. QED
  BY <1>3, <1>4 DEF CreateStep

LEMMA QuietKeeps ==
  ASSUME IInv,
         \/ ClockTicks \/ UNCHANGED goalVars
         \/ \E h \in Handler : Fail(h)
         \/ \E g \in Goal : EditStep(g)
  PROVE  IInv'
<1>1. GoalsTypeOK /\ GoalsTypeOK'
  BY QuietType, EditType DEF IInv
<1>2. ASSUME NEW h \in Handler, Fail(h)
      PROVE  IInv'
  <2>1. handler'[h] = IdleHandler /\ \A g \in Handler \ {h} : handler'[g] = handler[g]
    BY <1>1, <1>2, SlotOf DEF Fail
  <2>2. /\ UNCHANGED <<history, readCount, day, goal, result, raised, requests>>
        /\ lock' = IF lock = h THEN NoHandler ELSE lock
        /\ requests <= requests'
    BY <1>1, <1>2 DEF Fail, reading, GoalsTypeOK
  <2>3. lock' # h /\ \A g \in Handler \ {h} : lock' = g <=> lock = g
    BY <2>2, ReadingAssumption
  <2>4. GoalsKept /\ CompletionsEarned'
    BY <2>2, GoalsUntouched, ResultsUntouched
  <2>5. QED
    BY <1>1, <2>1, <2>2, <2>3, <2>4, Over, Frame
<1>3. ASSUME UNCHANGED <<history, readCount, day, result, lock, handler>>, requests <= requests', GoalsKept
      PROVE  IInv'
  <2>1. CompletionsEarned'
    BY <1>3, ResultsUntouched
  <2>2. \A h \in Handler : RowLocked(h)' /\ DayOnlyGrew(h)'
    BY <1>3 DEF IInv, RowLocked, DayOnlyGrew
  <2>3. ASSUME NEW h \in Handler
        PROVE  TargetsStand(h)'
    <3>1. TargetsStand(h) /\ handler[h].goals \subseteq Goal
      BY SlotFacts DEF IInv
    <3>2. QED
      BY <1>3, <3>1 DEF TargetsStand, GoalsKept
  <2>4. FreshIds'
    <3>1. \A o \in history : o.id \in Nat
      BY <1>1 DEF GoalsTypeOK, Opened
    <3>2. \A g \in Handler : handler[g].id \in Nat
      BY <1>1, SlotFacts
    <3>3. requests \in Nat /\ requests' \in Nat
      BY <1>1 DEF GoalsTypeOK
    <3>4. \A o \in history' : o.id < requests'
      BY <1>3, <3>1, <3>3 DEF IInv, FreshIds
    <3>5. \A g \in Handler : handler[g].pc \in Opening => handler[g].id < requests'
      BY <1>3, <3>2, <3>3 DEF IInv, FreshIds
    <3>6. QED
      BY <1>3, <3>4, <3>5 DEF IInv, FreshIds
  <2>5. RollupsMatchHistory' /\ IsFiniteSet(history)'
    BY <1>3 DEF IInv, RollupsMatchHistory
  <2>6. QED
    BY <1>1, <2>1, <2>2, <2>3, <2>4, <2>5 DEF IInv
<1>4. CASE ClockTicks \/ UNCHANGED goalVars
  <2>1. UNCHANGED <<history, readCount, day, result, lock, handler, goal, raised, requests>>
    BY <1>4 DEF ClockTicks, goalVars, reading
  <2>2. QED
    BY <1>1, <1>3, <2>1, GoalsUntouched DEF GoalsTypeOK
<1>5. ASSUME NEW g \in Goal, EditStep(g)
      PROVE  IInv'
  <2>1. UNCHANGED <<history, readCount, day, result, lock, handler>> /\ Request
    BY <1>5 DEF EditStep, UpdateGoal, RemoveGoal, reading
  <2>2. requests <= requests'
    BY <1>1, <2>1 DEF Request, GoalsTypeOK
  <2>3. GoalsKept
    <3>0. \A x \in Goal : goal[x] \in GoalRow
      BY <1>1 DEF GoalsTypeOK
    <3>1. ASSUME NEW n \in Target, NEW b \in BOOLEAN, NEW d \in Date \union {OpenEnd}, UpdateGoal(g, n, b, d)
          PROVE  GoalsKept
      <4>1. /\ goal' = [goal EXCEPT ![g].target = n, ![g].enabled = b, ![g].to = d]
            /\ raised' = IF n # goal[g].target THEN raised \union {g} ELSE raised
        BY <3>1 DEF UpdateGoal
      <4>2. \A x \in Goal : goal'[x].exists = goal[x].exists /\ goal'[x].metric = goal[x].metric
        BY <1>1, <3>0, <4>1 DEF GoalsTypeOK, GoalRow
      <4>3. \A x \in Goal : x \notin raised' => goal'[x].target = goal[x].target
        BY <1>1, <3>0, <4>1 DEF GoalsTypeOK, GoalRow
      <4>4. QED
        BY <4>1, <4>2, <4>3 DEF GoalsKept
    <3>2. CASE RemoveGoal(g)
      BY <1>1, <3>0, <3>2 DEF RemoveGoal, GoalsKept, GoalsTypeOK, GoalRow
    <3>3. QED
      BY <1>5, <3>1, <3>2 DEF EditStep
  <2>4. QED
    BY <1>3, <2>1, <2>2, <2>3
<1>6. QED
  BY <1>2, <1>4, <1>5

LEMMA InvInit == GoalsInit => IInv
<1> SUFFICES ASSUME GoalsInit PROVE IInv
  OBVIOUS
<1>1. GoalsTypeOK /\ history = {} /\ lock = NoHandler /\ \A h \in Handler : handler[h] = IdleHandler
  BY InitType DEF GoalsInit
<1>2. \A h \in Handler : RowLocked(h) /\ DayOnlyGrew(h) /\ TargetsStand(h)
  BY <1>1, IdleHandlerType, ReadingAssumption
     DEF RowLocked, DayOnlyGrew, TargetsStand, Opening, AfterCount, Reading, GoalsRead
<1>3. FreshIds
  BY <1>1, IdleHandlerType DEF FreshIds, Opening
<1>4. CompletionsEarned
  BY DEF GoalsInit, CompletionsEarned, NoResult
<1>5. RollupsMatchHistory
  <2>1. \A v \in Verse : {o \in history : o.verse = v} = {} /\ readCount[v] = 0
    BY <1>1 DEF GoalsInit
  <2>2. \A d \in Date : {o \in history : o.date = d} = {} /\ day[d] = 0
    BY <1>1 DEF GoalsInit
  <2>3. QED
    BY <2>1, <2>2, FS_EmptySet DEF RollupsMatchHistory
<1>6. IsFiniteSet(history)
  BY <1>1, FS_EmptySet
<1>7. QED
  BY <1>1, <1>2, <1>3, <1>4, <1>5, <1>6 DEF IInv

LEMMA InvNext == IInv /\ [GoalsNext]_goalVars => IInv'
<1> SUFFICES ASSUME IInv, [GoalsNext]_goalVars PROVE IInv'
  OBVIOUS
<1>1. ASSUME NEW h \in Handler, RequestStep(h) \/ OpenStep(h) \/ ProgressStep(h) \/ CreateStep(h) \/ Fail(h)
      PROVE  IInv'
  BY <1>1, RequestKeeps, OpenReads, CommitKeeps, ProgressKeeps, CreateKeeps, QuietKeeps DEF OpenStep
<1>2. QED
  BY <1>1, QuietKeeps DEF GoalsNext

LEMMA Invariance == GoalsSpec => []IInv
BY InvInit, InvNext, PTL DEF GoalsSpec

----------------------------------------------------------------------------
(* Every variable stays of its type. *)
THEOREM GoalsTypeCorrect == GoalsSpec => []GoalsTypeOK
<1>1. IInv => GoalsTypeOK
  BY DEF IInv
<1>2. QED
  BY <1>1, Invariance, PTL

(* However the opens of a user interleave, fail and are rolled back, each  *)
(* verse and each day has been counted once for every open in the history. *)
THEOREM RollupsAlwaysMatch == GoalsSpec => []RollupsMatchHistory
<1>1. IInv => RollupsMatchHistory
  BY DEF IInv
<1>2. QED
  BY <1>1, Invariance, PTL

(* The clock and the edits of goals are no step of a request, and write no *)
(* result.                                                                 *)
LEMMA QuietActions ==
  /\ ClockTicks \/ UNCHANGED goalVars => UNCHANGED <<result, handler>>
  /\ \A x \in Goal : EditStep(x) => UNCHANGED <<result, handler>>
<1>1. ClockTicks \/ UNCHANGED goalVars => UNCHANGED <<result, handler>>
  BY DEF ClockTicks, goalVars
<1>2. ASSUME NEW x \in Goal, EditStep(x)
      PROVE  UNCHANGED <<result, handler>>
  BY <1>2 DEF EditStep, UpdateGoal, RemoveGoal
<1>3. QED
  BY <1>1, <1>2

(* Only a progress request that read the day before an open counted on it  *)
(* takes back the completion of a goal whose target was left alone.        *)
LEMMA CompletionStandsStep ==
  ASSUME IInv, [GoalsNext]_goalVars, NEW g \in Goal, NEW d \in Date,
         result[<<g, d>>].completedAt # Unset, result'[<<g, d>>].completedAt = Unset, g \notin raised
  PROVE  \E h \in Handler : At(h, "writeResults") /\ handler[h].date = d /\ handler[h].count < day[d]
<1>1. GoalsTypeOK /\ goal[g].metric = "VERSES" /\ goal[g].target <= day[d] /\ result' # result
  BY DEF IInv, CompletionsEarned
<1>2. PICK h \in Handler : CommitOpen(h) \/ UpsertGoalResults(h)
  <2>1. ASSUME NEW h \in Handler,
               RequestStep(h) \/ OpenStep(h) \/ ProgressStep(h) \/ CreateStep(h) \/ Fail(h)
        PROVE  CommitOpen(h) \/ UpsertGoalResults(h)
    <3>1. ~RequestStep(h) /\ ~CreateStep(h) /\ ~Fail(h)
      BY <1>1 DEF RequestStep, GetProgress, RecordAyahOpen, CreateGoal, CreateStep, ReadOpenEnded,
                  CreateClosingOpenEnded, Fail
    <3>2. ~CountOpen(h) /\ ~ReadVerseGoals(h) /\ ~ReadResults(h)
      BY <1>1 DEF CountOpen, ReadVerseGoals, ReadResults
    <3>3. ~FindActiveGoals(h) /\ ~FindReadingDay(h) /\ ~FindGoalResults(h)
      BY <1>1 DEF FindActiveGoals, FindReadingDay, FindGoalResults
    <3>4. QED
      BY <2>1, <3>1, <3>2, <3>3 DEF OpenStep, ProgressStep
  <2>2. ~ClockTicks /\ ~UNCHANGED goalVars /\ \A x \in Goal : ~EditStep(x)
    BY <1>1, QuietActions
  <2>3. QED
    BY <2>1, <2>2 DEF GoalsNext
<1>3. UpsertResults(h, handler[h].at) /\ handler[h].pc \in {"commit", "writeResults"}
  BY <1>2 DEF CommitOpen, UpsertGoalResults, At
<1>4. g \in handler[h].goals /\ d = handler[h].date /\ handler[h].count < handler[h].target[g]
  BY <1>1, <1>3, SlotFacts, UpsertEffect
<1>5. handler[h].target[g] = goal[g].target
  BY <1>3, <1>4 DEF IInv, TargetsStand, GoalsRead, Reading
<1>6. handler[h].count \in Int /\ goal[g].target \in Int /\ day[d] \in Int
  <2>1. handler[h].count \in Int /\ day[d] \in Int
    BY <1>1, SlotFacts DEF Unset, GoalsTypeOK
  <2>2. goal[g].target \in Target
    BY <1>1 DEF GoalsTypeOK, GoalRow
  <2>3. Target \subseteq Int
    BY ReadingAssumption
  <2>4. QED
    BY <2>1, <2>2, <2>3
<1>7. handler[h].count < day[d]
  BY <1>1, <1>4, <1>5, <1>6
<1>8. ~CommitOpen(h)
  <2> SUFFICES ASSUME CommitOpen(h) PROVE FALSE
    OBVIOUS
  <2>1. handler[h].count = day[d] + 1
    BY <1>4 DEF CommitOpen, At, IInv, RowLocked, AfterCount
  <2>2. QED
    BY <1>6, <1>7, <2>1
<1>9. QED
  BY <1>2, <1>4, <1>7, <1>8 DEF UpsertGoalResults

(* A completion is taken back only when the target of its goal was changed *)
(* or by a progress request that read the day before an open counted on it. *)
THEOREM CompletionsStand == GoalsSpec => CompletionStands
<1>1. IInv /\ [GoalsNext]_goalVars =>
        [\A g \in Goal, d \in Date :
           result[<<g, d>>].completedAt # Unset /\ result'[<<g, d>>].completedAt = Unset /\ g \notin raised
             => \E h \in Handler : At(h, "writeResults") /\ handler[h].date = d /\ handler[h].count < day[d]]_goalVars
  BY CompletionStandsStep
<1>2. QED
  BY <1>1, Invariance, PTL DEF GoalsSpec, CompletionStands

LEMMA CreateStepKeepsThePast ==
  ASSUME GoalsTypeOK, GoalsTypeOK', [GoalsNext]_goalVars, NEW h \in Handler, NEW g \in Goal, NEW d \in Date,
         At(h, "create"), handler'[h].pc = "idle", d < handler[h].new.from, ActiveOn(g, d)
  PROVE  ActiveOn(g, d)'
<1>1. handler'[h] # handler[h] /\ handler[h].new.from \in Nat /\ d \in Nat
  BY SlotFacts, DateBound DEF At, GoalRow
<1>2. goal[g] \in GoalRow /\ goal[g].from \in Nat
  BY DateBound DEF GoalsTypeOK, GoalRow
<1>3. CASE Fail(h)
  BY <1>3 DEF Fail, ActiveOn, Enabled
<1>4. ASSUME NEW x \in Goal, CreateClosingOpenEnded(h, x)
      PROVE  ActiveOn(g, d)'
  <2>1. goal'[g] \in {goal[g], Closed(goal[g], handler[h].new.from)}
    BY <1>4 DEF CreateClosingOpenEnded, ActiveOn, Enabled
  <2>2. CASE goal'[g] = goal[g]
    BY <2>2 DEF ActiveOn, Enabled
  <2>3. CASE goal'[g] = Closed(goal[g], handler[h].new.from)
    <3>1. goal[g].from < handler[h].new.from
      BY <1>1, <1>2 DEF ActiveOn
    <3>2. goal'[g] = [goal[g] EXCEPT !.to = handler[h].new.from - 1]
      BY <2>3, <3>1 DEF Closed
    <3>3. /\ goal'[g].exists = goal[g].exists /\ goal'[g].enabled = goal[g].enabled
          /\ goal'[g].deleted = goal[g].deleted /\ goal'[g].from = goal[g].from
          /\ goal'[g].to = handler[h].new.from - 1
      BY <1>2, <3>2 DEF GoalRow
    <3>4. d <= handler[h].new.from - 1
      BY <1>1
    <3>5. QED
      BY <3>3, <3>4 DEF ActiveOn, Enabled
  <2>4. QED
    BY <2>1, <2>2, <2>3
<1>5. Fail(h) \/ \E x \in Goal : CreateClosingOpenEnded(h, x)
  <2>1. \A f \in Handler :
          RequestStep(f) \/ OpenStep(f) \/ ProgressStep(f) \/ CreateStep(f) \/ Fail(f) => f = h
    <3>1. ASSUME NEW f \in Handler, f # h,
                 RequestStep(f) \/ OpenStep(f) \/ ProgressStep(f) \/ CreateStep(f) \/ Fail(f)
          PROVE  handler'[h] = handler[h]
      <4>1. CASE RequestStep(f)
        BY <3>1, <4>1 DEF RequestStep, GetProgress, RecordAyahOpen, CreateGoal, Begin, GoalsTypeOK
      <4>2. CASE OpenStep(f)
        BY <3>1, <4>2 DEF OpenStep, CountOpen, ReadVerseGoals, ReadResults, CommitOpen, Done, GoalsTypeOK
      <4>3. CASE ProgressStep(f)
        BY <3>1, <4>3 DEF ProgressStep, FindActiveGoals, FindReadingDay, FindGoalResults, UpsertGoalResults,
                          Done, GoalsTypeOK
      <4>4. CASE CreateStep(f) \/ Fail(f)
        BY <3>1, <4>4 DEF CreateStep, ReadOpenEnded, CreateClosingOpenEnded, Fail, Done, GoalsTypeOK
      <4>5. QED
        BY <3>1, <4>1, <4>2, <4>3, <4>4
    <3>2. QED
      BY <1>1, <3>1
  <2>2. ~UNCHANGED handler
    BY <1>1
  <2>3. RequestStep(h) \/ OpenStep(h) \/ ProgressStep(h) \/ CreateStep(h) \/ Fail(h)
    <3>1. ~ClockTicks /\ ~UNCHANGED goalVars /\ \A x \in Goal : ~EditStep(x)
      BY <2>2, QuietActions
    <3>2. QED
      BY <2>1, <3>1 DEF GoalsNext
  <2>4. ~RequestStep(h) /\ ~OpenStep(h) /\ ~ProgressStep(h)
    BY DEF At, RequestStep, GetProgress, RecordAyahOpen, CreateGoal, Begin, OpenStep, CountOpen,
           ReadVerseGoals, ReadResults, CommitOpen, ProgressStep, FindActiveGoals, FindReadingDay,
           FindGoalResults, UpsertGoalResults
  <2>5. ~ReadOpenEnded(h)
    <3> SUFFICES ASSUME ReadOpenEnded(h) PROVE FALSE
      OBVIOUS
    <3>1. QED
      BY DEF ReadOpenEnded, At
  <2>6. QED
    BY <2>3, <2>4, <2>5 DEF CreateStep
<1>6. QED
  BY <1>3, <1>4, <1>5

(* Creating a goal takes away none of the days another goal held before.   *)
THEOREM PastIsKept == GoalsSpec => CreateKeepsThePast
<1>1. IInv /\ IInv' /\ [GoalsNext]_goalVars =>
        [\A h \in Handler, g \in Goal, d \in Date :
           At(h, "create") /\ handler'[h].pc = "idle" /\ d < handler[h].new.from /\ ActiveOn(g, d)
             => ActiveOn(g, d)']_goalVars
  BY CreateStepKeepsThePast DEF IInv
<1>2. QED
  BY <1>1, Invariance, PTL DEF GoalsSpec, CreateKeepsThePast
=============================================================================
