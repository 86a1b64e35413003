------------------------ MODULE ReminderPreferences ------------------------
(***************************************************************************)
(* The two switches behind a user's daily ayat reminder, and the requests  *)
(* that write them.  UserSettings.ayatRemindersEnabled and                 *)
(* TelegramReminderPreference.enabled are rows of different tables; every  *)
(* handler that changes one changes the other in a second, separate write, *)
(* and the reminders API writes them in the opposite order from the        *)
(* settings API and the bot.  One step here is one statement the database  *)
(* executes; handlers of different requests interleave between them.       *)
(***************************************************************************)
EXTENDS Integers, FiniteSets

CONSTANTS
  User,         \* the users
  Actor,        \* whoever runs a handler: HTTP or bot requests, queue workers
  DayMinutes,   \* minutes in a day (1440 in production)
  MinuteTicks,  \* clock ticks in a minute
  MaxClock,     \* bound on the clock
  MaxRequests,  \* bound on the requests users make
  Fallible,     \* the actors whose handlers may be cut short between statements
  Legacy        \* may a user start with a preference and no settings row?

ASSUME PreferencesAssumption ==
  /\ User # {}
  /\ DayMinutes \in Nat \ {0}
  /\ MinuteTicks \in Nat \ {0}
  /\ MaxClock \in Nat
  /\ MaxRequests \in Nat
  /\ Fallible \subseteq Actor
  /\ Legacy \in BOOLEAN

VARIABLES
  clock,     \* the time, in ticks
  account,   \* User row: isActive (and deletedAt), allowsWriteToPm
  settings,  \* UserSettings row: ayatRemindersEnabled, lastAyatReminderAt
  pref,      \* TelegramReminderPreference row: enabled, localTime
  op,        \* the handler each actor is in the middle of
  torn,      \* has a request of the user been cut short or overlapped?
  asked,     \* the times the user's row may show: see AskTime
  requests   \* requests made so far

prefVars == <<clock, account, settings, pref, op, torn, asked, requests>>

----------------------------------------------------------------------------
(* Time.  The user's timezone is fixed, so local time is the clock's. *)

Time == 0..MaxClock
Never == -1
Minute(t) == t \div MinuteTicks
LocalMinute(t) == Minute(t) % DayMinutes
LocalDate(t) == Minute(t) \div DayMinutes
AyatReminderInterval == 2 * DayMinutes * MinuteTicks
DefaultLocalTime == 0

(* Rows.  A missing row reads as the values the database would create.     *)

Account == [active: BOOLEAN, writeToPm: BOOLEAN]
Settings == [exists: BOOLEAN, enabled: BOOLEAN, lastAt: Time \union {Never}]
Pref == [exists: BOOLEAN, enabled: BOOLEAN, localTime: 0..DayMinutes-1]
NoSettings == [exists |-> FALSE, enabled |-> FALSE, lastAt |-> Never]
NoPref == [exists |-> FALSE, enabled |-> FALSE, localTime |-> DefaultLocalTime]
SettingsOn == [exists |-> TRUE, enabled |-> TRUE, lastAt |-> Never]
PrefOn == [exists |-> TRUE, enabled |-> TRUE, localTime |-> DefaultLocalTime]

(* A handler between two of its statements: the statement it runs next.    *)

Step == {"idle", "writeSettings", "syncSettings", "readPref", "writePref"}
Op == [step: Step, user: User, enabled: BOOLEAN,
       localTime: 0..DayMinutes-1, clean: BOOLEAN]

Idle == [step |-> "idle", user |-> CHOOSE u \in User : TRUE, enabled |-> FALSE,
         localTime |-> DefaultLocalTime, clean |-> TRUE]

Busy(a, u) == op[a].step # "idle" /\ op[a].user = u
Quiet(u) == \A a \in Actor : ~Busy(a, u)

PrefTypeOK ==
  /\ clock \in Time
  /\ account \in [User -> Account]
  /\ settings \in [User -> Settings]
  /\ pref \in [User -> Pref]
  /\ op \in [Actor -> Op]
  /\ torn \in [User -> BOOLEAN]
  /\ asked \in [User -> SUBSET (0..DayMinutes-1)]
  /\ requests \in 0..MaxRequests

(* A user who never touched reminders, one who turned them on, and one who *)
(* did so before the settings row knew of them.                            *)
NeverSet(u) == settings[u] = NoSettings /\ pref[u] = NoPref
OptedIn(u) == settings[u] = SettingsOn /\ pref[u] = PrefOn
LegacyPref(u) == settings[u] = NoSettings /\ pref[u] = PrefOn

PrefInit ==
  /\ clock = 0
  /\ account \in [User -> [active: {TRUE}, writeToPm: BOOLEAN]]
  /\ settings \in [User -> {NoSettings, SettingsOn}]
  /\ pref \in [User -> {NoPref, PrefOn}]
  /\ \A u \in User : NeverSet(u) \/ OptedIn(u) \/ (Legacy /\ LegacyPref(u))
  /\ op = [a \in Actor |-> Idle]
  /\ torn = [u \in User |-> pref[u].enabled /\ ~settings[u].enabled]
  /\ asked = [u \in User |-> {DefaultLocalTime}]
  /\ requests = 0

----------------------------------------------------------------------------
(* The statements. *)

SetEnabled(row, b) == [row EXCEPT !.exists = TRUE, !.enabled = b]

\* setAyatRemindersEnabled and upsertWithUpdate, as far as this flag goes
SetAyatRemindersEnabled(u, b) == settings' = [settings EXCEPT ![u] = SetEnabled(@, b)]

\* a created row takes ayatRemindersEnabled's default, false
MarkLastAyatReminderAt(u) ==
  settings' = [settings EXCEPT ![u].exists = TRUE, ![u].lastAt = clock]

UpsertDefaults(u) == settings' = [settings EXCEPT ![u].exists = TRUE]

UpsertReminderPreference(u, b, t) ==
  pref' = [pref EXCEPT ![u] = [exists |-> TRUE, enabled |-> b, localTime |-> t]]

(* A request begins: it is clean when no other handler is at work on the   *)
(* user, and one that was loses that.                                      *)

Begin(a, u, step, b) ==
  /\ op[a].step = "idle"
  /\ op' = [x \in Actor |->
             IF x = a THEN [step |-> step, user |-> u, enabled |-> b,
                            localTime |-> DefaultLocalTime, clean |-> Quiet(u)]
             ELSE IF Busy(x, u) THEN [op[x] EXCEPT !.clean = FALSE]
             ELSE op[x]]

Goto(a, step) == op' = [op EXCEPT ![a].step = step]

\* the last statement of a handler: nothing interfered, so the flags agree again
Finish(a) ==
  /\ op' = [op EXCEPT ![a] = Idle]
  /\ torn' = [torn EXCEPT ![op[a].user] = ~op[a].clean]

(* The times a row may show from the moment it is made or its time is set: *)
(* this one, and those that other handlers have read and not written back. *)
InHand(u, others) ==
  {op[a].localTime : a \in {b \in others : op[b].step = "writePref" /\ op[b].user = u}}
AskTime(a, u, t) == asked' = [asked EXCEPT ![u] = {t} \union InHand(u, Actor \ {a})]

Request == requests < MaxRequests /\ requests' = requests + 1

----------------------------------------------------------------------------
(* The reminders API: preference first, settings second. *)

PutReminder(a, u, b, t) ==
  /\ Request
  /\ account[u].active
  /\ Begin(a, u, "syncSettings", b)
  /\ UpsertReminderPreference(u, b, t)
  /\ AskTime(a, u, t)
  /\ UNCHANGED <<clock, account, settings, torn>>

DeleteReminder(a, u) ==
  /\ Request
  /\ account[u].active
  /\ pref[u].exists
  /\ Begin(a, u, "syncSettings", FALSE)
  /\ pref' = [pref EXCEPT ![u] = NoPref]
  /\ asked' = [asked EXCEPT ![u] = {DefaultLocalTime}]
  /\ UNCHANGED <<clock, account, settings, torn>>

\* mutant: only an enabled reminder reaches the settings
SyncWhenEnabled(a) ==
  /\ op[a].step = "syncSettings"
  /\ IF op[a].enabled THEN SetAyatRemindersEnabled(op[a].user, TRUE) ELSE UNCHANGED settings
  /\ Finish(a)
  /\ UNCHANGED <<clock, account, pref, asked, requests>>

SyncSettings(a) ==
  /\ op[a].step = "syncSettings"
  /\ SetAyatRemindersEnabled(op[a].user, op[a].enabled)
  /\ Finish(a)
  /\ UNCHANGED <<clock, account, pref, asked, requests>>

(* The settings API and the bot's /stop: settings first, preference second. *)

GetSettings(u) ==
  /\ account[u].active
  /\ ~settings[u].exists
  /\ UpsertDefaults(u)
  /\ UNCHANGED <<clock, account, pref, op, torn, asked, requests>>

UpdateSettings(a, u, b) ==
  /\ Request
  /\ account[u].active
  /\ Begin(a, u, "writeSettings", b)
  /\ UpsertDefaults(u)
  /\ UNCHANGED <<clock, account, pref, torn, asked>>

StopCommand(a, u) ==
  /\ Request
  /\ Begin(a, u, "writeSettings", FALSE)
  /\ account' = [account EXCEPT ![u] = [active |-> TRUE, writeToPm |-> TRUE]]
  /\ UNCHANGED <<clock, settings, pref, torn, asked>>

WriteSettings(a) ==
  /\ op[a].step = "writeSettings"
  /\ SetAyatRemindersEnabled(op[a].user, op[a].enabled)
  /\ Goto(a, "readPref")
  /\ UNCHANGED <<clock, account, pref, torn, asked, requests>>

\* mutant: the time found is rounded up, past the end of the day
ReadPrefRoundedUp(a) ==
  /\ op[a].step = "readPref"
  /\ op' = [op EXCEPT ![a].step = "writePref",
                      ![a].localTime = pref[op[a].user].localTime + 1]
  /\ UNCHANGED <<clock, account, settings, pref, torn, asked, requests>>

ReadPref(a) ==
  /\ op[a].step = "readPref"
  /\ op' = [op EXCEPT ![a].step = "writePref",
                      ![a].localTime = pref[op[a].user].localTime]
  /\ UNCHANGED <<clock, account, settings, pref, torn, asked, requests>>

\* mutant: a row deleted since the read is created with the time that was read
WritePrefRestored(a) ==
  LET u == op[a].user IN
  /\ op[a].step = "writePref"
  /\ UpsertReminderPreference(u, op[a].enabled, op[a].localTime)
  /\ IF pref[u].exists THEN UNCHANGED asked ELSE AskTime(a, u, DefaultLocalTime)
  /\ Finish(a)
  /\ UNCHANGED <<clock, account, settings, requests>>

\* a row deleted since the read is created anew, at the default time
WritePref(a) ==
  LET u == op[a].user IN
  /\ op[a].step = "writePref"
  /\ \/ /\ pref[u].exists
        /\ UpsertReminderPreference(u, op[a].enabled, op[a].localTime)
        /\ UNCHANGED asked
     \/ /\ ~pref[u].exists
        /\ UpsertReminderPreference(u, op[a].enabled, DefaultLocalTime)
        /\ AskTime(a, u, DefaultLocalTime)
  /\ Finish(a)
  /\ UNCHANGED <<clock, account, settings, requests>>

(* A crash or a failed statement between a handler's writes. *)

Abandon(a) ==
  /\ op[a].step # "idle"
  /\ op' = [op EXCEPT ![a] = Idle]
  /\ torn' = [torn EXCEPT ![op[a].user] = @ \/ op[a].step # "writeSettings" \/ ~op[a].clean]
  /\ UNCHANGED <<clock, account, settings, pref, asked, requests>>

(* Accounts: a Telegram login or bot command, and an administrator. *)

UpsertFromTelegram(u, allows) ==
  /\ Request
  /\ account' = [account EXCEPT ![u] = [active |-> TRUE, writeToPm |-> allows]]
  /\ UNCHANGED <<clock, settings, pref, op, torn, asked>>

DeactivateUser(u) ==
  /\ account[u].active
  /\ Request
  /\ account' = [account EXCEPT ![u].active = FALSE]
  /\ UNCHANGED <<clock, settings, pref, op, torn, asked>>

Tick ==
  /\ clock < MaxClock
  /\ clock' = clock + 1
  /\ UNCHANGED <<account, settings, pref, op, torn, asked, requests>>

----------------------------------------------------------------------------
(* Whom a scan at the present time finds: findDueReminders. *)

Due(u) ==
  /\ pref[u].exists /\ pref[u].enabled
  /\ pref[u].localTime = LocalMinute(clock)
  /\ account[u].active
  /\ settings[u].exists => settings[u].enabled
  /\ settings[u].lastAt # Never => settings[u].lastAt <= clock - AyatReminderInterval

RequestStep(a) ==
  \/ \E u \in User, b \in BOOLEAN :
       \/ \E t \in 0..DayMinutes-1 : PutReminder(a, u, b, t)
       \/ UpdateSettings(a, u, b)
  \/ \E u \in User : DeleteReminder(a, u) \/ StopCommand(a, u)

OpStep(a) == SyncSettings(a) \/ WriteSettings(a) \/ ReadPref(a) \/ WritePref(a)

AccountStep ==
  \E u \in User :
    \/ GetSettings(u)
    \/ DeactivateUser(u)
    \/ \E allows \in BOOLEAN : UpsertFromTelegram(u, allows)

(* The delivery worker, taken here at any moment: it stamps a reminder, or *)
(* turns reminders off for a user who blocked the bot (disableAyatReminders). *)

StampByWorker(u) ==
  /\ MarkLastAyatReminderAt(u)
  /\ UNCHANGED <<clock, account, pref, op, torn, asked, requests>>

DisableByWorker(a, u) ==
  /\ Begin(a, u, "writeSettings", FALSE)
  /\ UNCHANGED <<clock, account, settings, pref, torn, asked, requests>>

PrefNext ==
  \/ \E a \in Actor : RequestStep(a) \/ OpStep(a) \/ (a \in Fallible /\ Abandon(a))
  \/ AccountStep
  \/ \E u \in User : StampByWorker(u) \/ \E a \in Actor : DisableByWorker(a, u)
  \/ Tick

PrefSpec == PrefInit /\ [][PrefNext]_prefVars

----------------------------------------------------------------------------
Agree(u) == settings[u].enabled = pref[u].enabled

(* Once a user's requests are over the two switches say the same, unless   *)
(* one of those requests was cut short between its writes or overlapped    *)
(* another; a later request that runs alone mends them.                    *)
FlagsAgreeUnlessTorn ==
  \A u \in User : Quiet(u) /\ ~torn[u] => Agree(u)

(* However requests overlap or are cut short: a user's reminder is at the  *)
(* time he last asked for, or at one that a handler had read before he     *)
(* asked, and wrote back after; and the time of a reminder he deleted does *)
(* not come back with a row that is made anew.                             *)
LocalTimeKept ==
  \A u \in User : pref[u].localTime \in asked[u]

(* "Preserves existing localTime when present": the time a handler is      *)
(* about to write back is the one that is in the row.                      *)
LocalTimePreserved ==
  \A a \in Actor :
    op[a].step = "writePref" /\ pref[op[a].user].exists
      => op[a].localTime = pref[op[a].user].localTime

(* What the comments on the two writes promise, with no qualification: the *)
(* switches are in sync whenever no request is in flight.                  *)
FlagsInSync ==
  \A u \in User : Quiet(u) => Agree(u)

(* "Every 2 days": at the user's minute, two calendar days after the       *)
(* minute of the last reminder, a user whose switches are on is due.       *)
DueEverySecondDay ==
  \A u \in User :
    /\ Quiet(u) /\ account[u].active
    /\ pref[u].enabled /\ settings[u].enabled
    /\ pref[u].localTime = LocalMinute(clock)
    /\ settings[u].lastAt # Never
    /\ Minute(settings[u].lastAt) + 2 * DayMinutes <= Minute(clock)
    => Due(u)
============================================================================
