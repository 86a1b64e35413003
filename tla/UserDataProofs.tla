--------------------------- MODULE UserDataProofs ---------------------------
(***************************************************************************)
(* Proofs about ReminderPreferences and UserLists, for every set of users, *)
(* actors, rows and requests and every value of the bounds.  The two flags *)
(* of a switch agree unless a save is torn; a walk through a list by its   *)
(* cursors tells every row that was there all along, and told each once,   *)
(* and where reading continues is an ayah last opened.                     *)
(***************************************************************************)
EXTENDS MCUserData, FiniteSetTheorems, SequenceTheorems, WellFoundedInduction, TLAPS

(* A date's minutes are those the preference may name.                     *)
LEMMA LocalMinuteType ==
  ASSUME NEW t \in Time
  PROVE  LocalMinute(t) \in 0..DayMinutes-1
<1>1. t \in Nat /\ MinuteTicks \in Nat \ {0} /\ DayMinutes \in Nat \ {0}
  BY PreferencesAssumption DEF Time
<1>2. Minute(t) \in Nat
  BY <1>1 DEF Minute
<1>3. QED
  BY <1>1, <1>2 DEF LocalMinute

LEMMA IdleType == Idle \in Op
<1>1. (CHOOSE u \in User : TRUE) \in User
  BY PreferencesAssumption
<1>2. DefaultLocalTime \in 0..DayMinutes-1
  BY PreferencesAssumption DEF DefaultLocalTime
<1>3. QED
  BY <1>1, <1>2 DEF Idle, Op, Step

LEMMA PrefInitType == PrefInit => PrefTypeOK
<1> SUFFICES ASSUME PrefInit PROVE PrefTypeOK
  OBVIOUS
<1>1. clock \in Time /\ requests \in 0..MaxRequests
  BY PreferencesAssumption DEF PrefInit, Time
<1>2. account \in [User -> Account]
  BY DEF PrefInit, Account
<1>3. settings \in [User -> Settings]
  <2>1. {NoSettings, SettingsOn} \subseteq Settings
    BY DEF NoSettings, SettingsOn, Settings
  <2>2. QED
    BY <2>1 DEF PrefInit
<1>4. pref \in [User -> Pref]
  <2>1. DefaultLocalTime \in 0..DayMinutes-1
    BY PreferencesAssumption DEF DefaultLocalTime
  <2>2. {NoPref, PrefOn} \subseteq Pref
    BY <2>1 DEF NoPref, PrefOn, Pref
  <2>3. QED
    BY <2>2 DEF PrefInit
<1>5. op \in [Actor -> Op]
  BY IdleType DEF PrefInit
<1>6. torn \in [User -> BOOLEAN]
  BY DEF PrefInit
<1>7. asked \in [User -> SUBSET (0..DayMinutes-1)]
  BY PreferencesAssumption DEF PrefInit, DefaultLocalTime
<1>8. QED
  BY <1>1, <1>2, <1>3, <1>4, <1>5, <1>6, <1>7 DEF PrefTypeOK

----------------------------------------------------------------------------
(* What the helpers write is well typed. *)

LEMMA BeginType ==
  ASSUME PrefTypeOK, NEW a \in Actor, NEW u \in User, NEW step \in Step, NEW b \in BOOLEAN,
         Begin(a, u, step, b)
  PROVE  op' \in [Actor -> Op]
<1>1. DefaultLocalTime \in 0..DayMinutes-1
  BY PreferencesAssumption DEF DefaultLocalTime
<1>2. Quiet(u) \in BOOLEAN
  BY DEF Quiet
<1>3. [step |-> step, user |-> u, enabled |-> b, localTime |-> DefaultLocalTime,
       clean |-> Quiet(u)] \in Op
  BY <1>1, <1>2 DEF Op
<1>4. \A x \in Actor : op[x] \in Op /\ [op[x] EXCEPT !.clean = FALSE] \in Op
  BY DEF PrefTypeOK, Op
<1>5. QED
  BY <1>3, <1>4 DEF Begin

LEMMA FinishType ==
  ASSUME PrefTypeOK, NEW a \in Actor, Finish(a)
  PROVE  op' \in [Actor -> Op] /\ torn' \in [User -> BOOLEAN]
BY IdleType DEF Finish, PrefTypeOK, Op

LEMMA GotoType ==
  ASSUME PrefTypeOK, NEW a \in Actor, NEW step \in Step, Goto(a, step)
  PROVE  op' \in [Actor -> Op]
BY DEF Goto, PrefTypeOK, Op

LEMMA AskTimeType ==
  ASSUME PrefTypeOK, NEW a \in Actor, NEW u \in User, NEW t \in 0..DayMinutes-1,
         AskTime(a, u, t)
  PROVE  asked' \in [User -> SUBSET (0..DayMinutes-1)]
<1>1. \A x \in Actor : op[x].localTime \in 0..DayMinutes-1
  BY DEF PrefTypeOK, Op
<1>2. InHand(u, Actor \ {a}) \subseteq 0..DayMinutes-1
  BY <1>1 DEF InHand
<1>3. QED
  BY <1>2 DEF AskTime, PrefTypeOK

LEMMA RequestType ==
  ASSUME PrefTypeOK, Request
  PROVE  requests' \in 0..MaxRequests
BY PreferencesAssumption DEF Request, PrefTypeOK

LEMMA WritesType ==
  ASSUME PrefTypeOK, NEW u \in User, NEW b \in BOOLEAN, NEW t \in 0..DayMinutes-1
  PROVE  /\ SetAyatRemindersEnabled(u, b) => settings' \in [User -> Settings]
         /\ MarkLastAyatReminderAt(u) => settings' \in [User -> Settings]
         /\ UpsertDefaults(u) => settings' \in [User -> Settings]
         /\ UpsertReminderPreference(u, b, t) => pref' \in [User -> Pref]
<1>1. \A v \in User : settings[v] \in Settings
  BY DEF PrefTypeOK
<1>2. \A v \in User : SetEnabled(settings[v], b) \in Settings
  BY <1>1 DEF SetEnabled, Settings
<1>3. SetAyatRemindersEnabled(u, b) => settings' \in [User -> Settings]
  BY <1>2 DEF SetAyatRemindersEnabled, PrefTypeOK
<1>4. MarkLastAyatReminderAt(u) => settings' \in [User -> Settings]
  <2>1. [settings[u] EXCEPT !.exists = TRUE, !.lastAt = clock] \in Settings
    BY <1>1 DEF PrefTypeOK, Settings
  <2>2. QED
    BY <2>1 DEF MarkLastAyatReminderAt, PrefTypeOK
<1>5. UpsertDefaults(u) => settings' \in [User -> Settings]
  BY <1>1 DEF UpsertDefaults, PrefTypeOK, Settings
<1>6. UpsertReminderPreference(u, b, t) => pref' \in [User -> Pref]
  BY DEF UpsertReminderPreference, PrefTypeOK, Pref
<1>7. QED
  BY <1>3, <1>4, <1>5, <1>6

----------------------------------------------------------------------------
(* Every step keeps the types. *)

LEMMA RequestStepType ==
  ASSUME PrefTypeOK, NEW a \in Actor, RequestStep(a)
  PROVE  PrefTypeOK'
<1>0. Request => requests' \in 0..MaxRequests
  BY RequestType
<1>1. ASSUME NEW u \in User, NEW b \in BOOLEAN, NEW t \in 0..DayMinutes-1, PutReminder(a, u, b, t)
      PROVE  PrefTypeOK'
  <2>1. op' \in [Actor -> Op]
    BY <1>1, BeginType DEF PutReminder, Step
  <2>2. pref' \in [User -> Pref]
    BY <1>1, WritesType DEF PutReminder
  <2>3. asked' \in [User -> SUBSET (0..DayMinutes-1)]
    BY <1>1, AskTimeType DEF PutReminder
  <2>4. QED
    BY <1>0, <1>1, <2>1, <2>2, <2>3 DEF PutReminder, PrefTypeOK
<1>2. ASSUME NEW u \in User, NEW b \in BOOLEAN, UpdateSettings(a, u, b)
      PROVE  PrefTypeOK'
  <2>1. op' \in [Actor -> Op]
    BY <1>2, BeginType DEF UpdateSettings, Step
  <2>2. settings' \in [User -> Settings]
    <3>1. 0 \in 0..DayMinutes-1
      BY PreferencesAssumption
    <3>2. QED
      BY <1>2, <3>1, WritesType DEF UpdateSettings
  <2>3. QED
    BY <1>0, <1>2, <2>1, <2>2 DEF UpdateSettings, PrefTypeOK
<1>3. ASSUME NEW u \in User, DeleteReminder(a, u)
      PROVE  PrefTypeOK'
  <2>1. op' \in [Actor -> Op]
    BY <1>3, BeginType DEF DeleteReminder, Step
  <2>2. NoPref \in Pref
    BY PreferencesAssumption DEF NoPref, Pref, DefaultLocalTime
  <2>3. pref' \in [User -> Pref]
    BY <1>3, <2>2 DEF DeleteReminder, PrefTypeOK
  <2>4. asked' \in [User -> SUBSET (0..DayMinutes-1)]
    BY <1>3, PreferencesAssumption DEF DeleteReminder, PrefTypeOK, DefaultLocalTime
  <2>5. QED
    BY <1>0, <1>3, <2>1, <2>3, <2>4 DEF DeleteReminder, PrefTypeOK
<1>4. ASSUME NEW u \in User, StopCommand(a, u)
      PROVE  PrefTypeOK'
  <2>1. op' \in [Actor -> Op]
    BY <1>4, BeginType DEF StopCommand, Step
  <2>2. account' \in [User -> Account]
    BY <1>4 DEF StopCommand, PrefTypeOK, Account
  <2>3. QED
    BY <1>0, <1>4, <2>1, <2>2 DEF StopCommand, PrefTypeOK
<1>5. QED
  BY <1>1, <1>2, <1>3, <1>4 DEF RequestStep

LEMMA OpStepType ==
  ASSUME PrefTypeOK, NEW a \in Actor, OpStep(a)
  PROVE  PrefTypeOK'
<1>0. /\ op[a].user \in User /\ op[a].enabled \in BOOLEAN
      /\ op[a].localTime \in 0..DayMinutes-1
  BY DEF PrefTypeOK, Op
<1>1. CASE SyncSettings(a)
  <2>1. settings' \in [User -> Settings]
    BY <1>0, <1>1, WritesType DEF SyncSettings
  <2>2. op' \in [Actor -> Op] /\ torn' \in [User -> BOOLEAN]
    BY <1>1, FinishType DEF SyncSettings
  <2>3. QED
    BY <1>1, <2>1, <2>2 DEF SyncSettings, PrefTypeOK
<1>2. CASE WriteSettings(a)
  <2>1. settings' \in [User -> Settings]
    BY <1>0, <1>2, WritesType DEF WriteSettings
  <2>2. op' \in [Actor -> Op]
    BY <1>2, GotoType DEF WriteSettings, Step
  <2>3. QED
    BY <1>2, <2>1, <2>2 DEF WriteSettings, PrefTypeOK
<1>3. CASE ReadPref(a)
  <2>1. pref[op[a].user].localTime \in 0..DayMinutes-1
    BY <1>0 DEF PrefTypeOK, Pref
  <2>2. [op[a] EXCEPT !.step = "writePref", !.localTime = pref[op[a].user].localTime] \in Op
    BY <2>1 DEF PrefTypeOK, Op, Step
  <2>3. op' \in [Actor -> Op]
    BY <1>3, <2>2 DEF ReadPref, PrefTypeOK
  <2>4. QED
    BY <1>3, <2>3 DEF ReadPref, PrefTypeOK
<1>4. CASE WritePref(a)
  <2>0. DefaultLocalTime \in 0..DayMinutes-1
    BY PreferencesAssumption DEF DefaultLocalTime
  <2>1. pref' \in [User -> Pref]
    BY <1>0, <1>4, <2>0, WritesType DEF WritePref
  <2>2. asked' \in [User -> SUBSET (0..DayMinutes-1)]
    BY <1>0, <1>4, <2>0, AskTimeType DEF WritePref, PrefTypeOK
  <2>3. op' \in [Actor -> Op] /\ torn' \in [User -> BOOLEAN]
    BY <1>4, FinishType DEF WritePref
  <2>4. QED
    BY <1>4, <2>1, <2>2, <2>3 DEF WritePref, PrefTypeOK
<1>5. QED
  BY <1>1, <1>2, <1>3, <1>4 DEF OpStep

LEMMA AbandonType ==
  ASSUME PrefTypeOK, NEW a \in Actor, Abandon(a)
  PROVE  PrefTypeOK'
<1>1. op' \in [Actor -> Op]
  BY IdleType DEF Abandon, PrefTypeOK
<1>2. torn' \in [User -> BOOLEAN]
  BY DEF Abandon, PrefTypeOK, Op
<1>3. QED
  BY <1>1, <1>2 DEF Abandon, PrefTypeOK

LEMMA AccountStepType ==
  ASSUME PrefTypeOK, AccountStep
  PROVE  PrefTypeOK'
<1>1. ASSUME NEW u \in User, GetSettings(u)
      PROVE  PrefTypeOK'
  <2>1. 0 \in 0..DayMinutes-1
    BY PreferencesAssumption
  <2>2. settings' \in [User -> Settings]
    BY <1>1, <2>1, WritesType DEF GetSettings
  <2>3. QED
    BY <1>1, <2>2 DEF GetSettings, PrefTypeOK
<1>2. ASSUME NEW u \in User, DeactivateUser(u)
      PROVE  PrefTypeOK'
  <2>1. requests' \in 0..MaxRequests
    BY <1>2, RequestType DEF DeactivateUser
  <2>2. account' \in [User -> Account]
    BY <1>2 DEF DeactivateUser, PrefTypeOK, Account
  <2>3. QED
    BY <1>2, <2>1, <2>2 DEF DeactivateUser, PrefTypeOK
<1>3. ASSUME NEW u \in User, NEW b \in BOOLEAN, UpsertFromTelegram(u, b)
      PROVE  PrefTypeOK'
  <2>1. requests' \in 0..MaxRequests
    BY <1>3, RequestType DEF UpsertFromTelegram
  <2>2. account' \in [User -> Account]
    BY <1>3 DEF UpsertFromTelegram, PrefTypeOK, Account
  <2>3. QED
    BY <1>3, <2>1, <2>2 DEF UpsertFromTelegram, PrefTypeOK
<1>4. QED
  BY <1>1, <1>2, <1>3 DEF AccountStep

LEMMA TickType ==
  ASSUME PrefTypeOK, Tick
  PROVE  PrefTypeOK'
BY PreferencesAssumption DEF Tick, PrefTypeOK, Time

LEMMA StampType ==
  ASSUME PrefTypeOK, NEW u \in User, StampByWorker(u)
  PROVE  PrefTypeOK'
<1>1. 0 \in 0..DayMinutes-1
  BY PreferencesAssumption
<1>2. settings' \in [User -> Settings]
  BY <1>1, WritesType DEF StampByWorker
<1>3. QED
  BY <1>2 DEF PrefTypeOK, StampByWorker

LEMMA DisableType ==
  ASSUME PrefTypeOK, NEW a \in Actor, NEW u \in User, DisableByWorker(a, u)
  PROVE  PrefTypeOK'
<1>1. op' \in [Actor -> Op]
  BY BeginType DEF DisableByWorker, Step
<1>2. QED
  BY <1>1 DEF DisableByWorker, PrefTypeOK

LEMMA PrefStutterType ==
  ASSUME PrefTypeOK, UNCHANGED prefVars
  PROVE  PrefTypeOK'
BY DEF PrefTypeOK, prefVars

LEMMA PrefTypeStep == PrefTypeOK /\ [PrefNext]_prefVars => PrefTypeOK'
<1> SUFFICES ASSUME PrefTypeOK, [PrefNext]_prefVars PROVE PrefTypeOK'
  OBVIOUS
<1>1. ASSUME NEW a \in Actor, RequestStep(a) \/ OpStep(a) \/ Abandon(a)
      PROVE  PrefTypeOK'
  BY <1>1, RequestStepType, OpStepType, AbandonType
<1>2. CASE AccountStep
  BY <1>2, AccountStepType
<1>3. ASSUME NEW u \in User, StampByWorker(u)
      PROVE  PrefTypeOK'
  BY <1>3, StampType
<1>4. CASE Tick
  BY <1>4, TickType
<1>5. CASE UNCHANGED prefVars
  BY <1>5, PrefStutterType
<1>6. ASSUME NEW u \in User, NEW a \in Actor, DisableByWorker(a, u)
      PROVE  PrefTypeOK'
  BY <1>6, DisableType
<1>7. QED
  BY <1>1, <1>2, <1>3, <1>4, <1>5, <1>6 DEF PrefNext
(* The rows and the handlers in flight always have the types the code gives *)
(* them: no legal sequence of requests, stamps, crashes and logins leaves   *)
(* a settings or preference row out of its columns' domains.                *)
THEOREM PrefTypeCorrect == PrefSpec => []PrefTypeOK
BY PrefInitType, PrefTypeStep, PTL DEF PrefSpec

----------------------------------------------------------------------------
(* Agreement of the two switches.  FlagsAgreeUnlessTorn speaks of users no  *)
(* handler is at work on; the strengthening says what a handler that runs   *)
(* alone has so far achieved, and that it does run alone.                   *)

Alone(x) == \A y \in Actor : y # x => ~Busy(y, op[x].user)

Achieved(x) ==
  LET u == op[x].user IN
  /\ op[x].step = "writeSettings" /\ ~torn[u] => Agree(u)
  /\ op[x].step = "syncSettings" => pref[u].enabled = op[x].enabled
  /\ op[x].step \in {"readPref", "writePref"} => settings[u].enabled = op[x].enabled

CleanOps ==
  \A x \in Actor : op[x].step # "idle" /\ op[x].clean => Alone(x) /\ Achieved(x)

FlagInv == PrefTypeOK /\ CleanOps /\ FlagsAgreeUnlessTorn

(* A handler that begins on u: those at work on u are no longer clean, so   *)
(* it is enough that the new one, if alone, has achieved its first write.   *)
LEMMA BeginInv ==
  ASSUME FlagInv, NEW a \in Actor, NEW u \in User, NEW step \in Step \ {"idle", "readPref", "writePref"},
         NEW b \in BOOLEAN, Begin(a, u, step, b), torn' = torn,
         \A v \in User \ {u} : pref'[v] = pref[v] /\ settings'[v].enabled = settings[v].enabled,
         step = "writeSettings" =>
           settings'[u].enabled = settings[u].enabled /\ pref'[u].enabled = pref[u].enabled,
         step = "syncSettings" => pref'[u].enabled = b
  PROVE  CleanOps' /\ FlagsAgreeUnlessTorn'
<1> USE DEF FlagInv, PrefTypeOK, Step
<1>1. /\ op'[a] = [step |-> step, user |-> u, enabled |-> b,
                    localTime |-> DefaultLocalTime, clean |-> Quiet(u)]
      /\ \A x \in Actor \ {a} :
           /\ op'[x].step = op[x].step /\ op'[x].user = op[x].user
           /\ op'[x].enabled = op[x].enabled
           /\ op'[x].localTime = op[x].localTime
           /\ Busy(x, u) => ~op'[x].clean
           /\ ~Busy(x, u) => op'[x].clean = op[x].clean
  BY DEF Begin, Op
<1>2. op[a].step = "idle"
  BY DEF Begin
<1>3. ASSUME NEW x \in Actor \ {a}, NEW v \in User
      PROVE  Busy(x, v)' <=> Busy(x, v)
  BY <1>1 DEF Busy
<1>4. \A v \in User : Busy(a, v)' <=> (v = u)
  BY <1>1 DEF Busy
<1>5. ASSUME NEW x \in Actor, op'[x].step # "idle", op'[x].clean
      PROVE  (Alone(x) /\ Achieved(x))'
  <2>1. CASE x = a
    <3>1. Quiet(u)
      BY <1>1, <1>5, <2>1
    <3>2. Alone(x)'
      BY <1>1, <1>3, <2>1, <3>1 DEF Alone, Quiet
    <3>3. step = "writeSettings" /\ ~torn[u] => Agree(u)'
      BY <3>1 DEF FlagsAgreeUnlessTorn, Agree
    <3>4. Achieved(x)'
      BY <1>1, <2>1, <3>3 DEF Achieved
    <3>5. QED
      BY <3>2, <3>4
  <2>2. CASE x # a
    <3>1. op[x].user \in User /\ op[x].user # u /\ op[x].clean /\ op[x].step # "idle"
      BY <1>1, <1>5, <2>2 DEF Busy, Op
    <3>2. Alone(x) /\ Achieved(x)
      BY <3>1 DEF CleanOps
    <3>3. Alone(x)'
      BY <1>1, <1>3, <1>4, <2>2, <3>1, <3>2 DEF Alone
    <3>4. Achieved(x)'
      BY <1>1, <2>2, <3>1, <3>2 DEF Achieved, Agree
    <3>5. QED
      BY <3>3, <3>4
  <2>3. QED
    BY <2>1, <2>2
<1>6. CleanOps'
  BY <1>5 DEF CleanOps
<1>7. ASSUME NEW v \in User, Quiet(v)', ~torn[v]
      PROVE  Agree(v)'
  <2>1. v # u
    BY <1>4, <1>7 DEF Quiet
  <2>2. Quiet(v)
    BY <1>2, <1>3, <1>7 DEF Quiet, Busy
  <2>3. QED
    BY <1>7, <2>1, <2>2 DEF FlagsAgreeUnlessTorn, Agree
<1>8. QED
  BY <1>6, <1>7 DEF FlagsAgreeUnlessTorn

(* A handler moves on, its user's rows already as its new place demands.    *)
LEMMA MoveInv ==
  ASSUME FlagInv, NEW a \in Actor, NEW o \in Op, op' = [op EXCEPT ![a] = o], torn' = torn,
         op[a].step # "idle", o.step # "idle", o.user = op[a].user, o.clean = op[a].clean,
         \A v \in User \ {o.user} : pref'[v] = pref[v] /\ settings'[v] = settings[v],
         o.clean /\ Alone(a) /\ Achieved(a) => Achieved(a)'
  PROVE  CleanOps' /\ FlagsAgreeUnlessTorn'
<1> USE DEF FlagInv, PrefTypeOK
<1>1. op'[a] = o /\ \A x \in Actor \ {a} : op'[x] = op[x]
  OBVIOUS
<1>2. ASSUME NEW x \in Actor, NEW v \in User
      PROVE  Busy(x, v)' <=> Busy(x, v)
  BY <1>1 DEF Busy
<1>3. Busy(a, o.user)
  BY DEF Busy
<1>4. ASSUME NEW x \in Actor, op'[x].step # "idle", op'[x].clean
      PROVE  (Alone(x) /\ Achieved(x))'
  <2>1. op[x].user \in User /\ op'[x].user = op[x].user /\ Alone(x) /\ Achieved(x)
    BY <1>1, <1>4 DEF CleanOps, Op
  <2>2. Alone(x)'
    BY <1>2, <2>1 DEF Alone
  <2>3. CASE x = a
    BY <1>1, <1>4, <2>1, <2>2, <2>3
  <2>4. CASE x # a
    <3>1. op[x].user # o.user
      BY <1>3, <2>1, <2>4 DEF Alone
    <3>2. Achieved(x)'
      BY <1>1, <2>1, <2>4, <3>1 DEF Achieved, Agree
    <3>3. QED
      BY <2>2, <3>2
  <2>5. QED
    BY <2>3, <2>4
<1>5. ASSUME NEW v \in User, Quiet(v)', ~torn'[v]
      PROVE  Agree(v)'
  <2>1. Quiet(v) /\ v # o.user
    BY <1>2, <1>3, <1>5 DEF Quiet
  <2>2. QED
    BY <1>5, <2>1 DEF FlagsAgreeUnlessTorn, Agree
<1>6. QED
  BY <1>4, <1>5 DEF CleanOps, FlagsAgreeUnlessTorn

(* A handler ends: if it claims the switches agree, they do.                *)
LEMMA EndInv ==
  ASSUME FlagInv, NEW a \in Actor, NEW u \in User, NEW b \in BOOLEAN, Busy(a, u),
         op' = [op EXCEPT ![a] = Idle], torn' = [torn EXCEPT ![u] = b],
         \A v \in User \ {u} : pref'[v] = pref[v] /\ settings'[v] = settings[v],
         ~b => op[a].clean /\ (Achieved(a) => Agree(u)')
  PROVE  CleanOps' /\ FlagsAgreeUnlessTorn'
<1> USE DEF FlagInv, PrefTypeOK
<1>1. op'[a].step = "idle" /\ \A x \in Actor \ {a} : op'[x] = op[x]
  BY DEF Idle
<1>2. op[a].user = u /\ op[a].step # "idle"
  BY DEF Busy
<1>3. ASSUME NEW x \in Actor \ {a}, NEW v \in User
      PROVE  Busy(x, v)' <=> Busy(x, v)
  BY <1>1 DEF Busy
<1>4. \A v \in User : ~Busy(a, v)'
  BY <1>1 DEF Busy
<1>5. ASSUME NEW x \in Actor, op'[x].step # "idle", op'[x].clean
      PROVE  (Alone(x) /\ Achieved(x))'
  <2>1. x # a /\ op'[x] = op[x] /\ op[x].user \in User /\ Alone(x) /\ Achieved(x)
    BY <1>1, <1>5 DEF CleanOps, Op
  <2>2. op[x].user # op[a].user
    BY <1>2, <2>1 DEF Alone, Busy
  <2>3. Alone(x)'
    BY <1>3, <1>4, <2>1 DEF Alone
  <2>4. Achieved(x)'
    BY <1>2, <2>1, <2>2 DEF Achieved, Agree
  <2>5. QED
    BY <2>3, <2>4
<1>6. ASSUME NEW v \in User, Quiet(v)', ~torn'[v]
      PROVE  Agree(v)'
  <2>1. CASE v = u
    <3>1. ~b
      BY <1>6, <2>1
    <3>2. Achieved(a)
      BY <1>2, <3>1 DEF CleanOps
    <3>3. QED
      BY <2>1, <3>1, <3>2
  <2>2. CASE v # u
    <3>1. ~Busy(a, v)
      BY <1>2, <2>2 DEF Busy
    <3>2. Quiet(v)
      BY <1>3, <1>6, <3>1 DEF Quiet
    <3>3. QED
      BY <1>6, <2>2, <3>2 DEF FlagsAgreeUnlessTorn, Agree
  <2>3. QED
    BY <2>1, <2>2
<1>7. QED
  BY <1>5, <1>6 DEF CleanOps, FlagsAgreeUnlessTorn

(* A step that leaves the handlers and the switches alone.                  *)
LEMMA KeepInv ==
  ASSUME FlagInv, UNCHANGED <<op, torn, pref>>,
         \A v \in User : settings'[v].enabled = settings[v].enabled
  PROVE  CleanOps' /\ FlagsAgreeUnlessTorn'
<1> USE DEF FlagInv, PrefTypeOK
<1>1. \A x \in Actor : op[x].user \in User
  BY DEF Op
<1>2. \A v \in User : Agree(v)' <=> Agree(v)
  BY DEF Agree
<1>3. \A x \in Actor : Achieved(x) => Achieved(x)'
  BY <1>1, <1>2 DEF Achieved
<1>4. \A x \in Actor : Alone(x)' <=> Alone(x)
  BY DEF Alone, Busy
<1>5. CleanOps'
  BY <1>3, <1>4 DEF CleanOps
<1>6. FlagsAgreeUnlessTorn'
  BY <1>2 DEF FlagsAgreeUnlessTorn, Quiet, Busy
<1>7. QED
  BY <1>5, <1>6

LEMMA RequestStepInv ==
  ASSUME FlagInv, NEW a \in Actor, RequestStep(a)
  PROVE  CleanOps' /\ FlagsAgreeUnlessTorn'
<1> USE DEF FlagInv, PrefTypeOK, Step
<1>1. ASSUME NEW u \in User, NEW b \in BOOLEAN, NEW t \in 0..DayMinutes-1, PutReminder(a, u, b, t)
      PROVE  CleanOps' /\ FlagsAgreeUnlessTorn'
  <2>1. /\ Begin(a, u, "syncSettings", b) /\ torn' = torn /\ settings' = settings
        /\ pref'[u].enabled = b /\ \A v \in User \ {u} : pref'[v] = pref[v]
    BY <1>1 DEF PutReminder, UpsertReminderPreference
  <2>2. QED
    BY <2>1, BeginInv
<1>2. ASSUME NEW u \in User, DeleteReminder(a, u)
      PROVE  CleanOps' /\ FlagsAgreeUnlessTorn'
  <2>1. /\ Begin(a, u, "syncSettings", FALSE) /\ torn' = torn /\ settings' = settings
        /\ pref'[u].enabled = FALSE /\ \A v \in User \ {u} : pref'[v] = pref[v]
    BY <1>2 DEF DeleteReminder, NoPref
  <2>2. QED
    BY <2>1, BeginInv
<1>3. ASSUME NEW u \in User, NEW b \in BOOLEAN, UpdateSettings(a, u, b)
      PROVE  CleanOps' /\ FlagsAgreeUnlessTorn'
  <2>1. /\ Begin(a, u, "writeSettings", b) /\ torn' = torn /\ pref' = pref
        /\ \A v \in User : settings'[v].enabled = settings[v].enabled
    BY <1>3 DEF UpdateSettings, UpsertDefaults, Settings
  <2>2. QED
    BY <2>1, BeginInv
<1>4. ASSUME NEW u \in User, StopCommand(a, u)
      PROVE  CleanOps' /\ FlagsAgreeUnlessTorn'
  <2>1. Begin(a, u, "writeSettings", FALSE) /\ UNCHANGED <<settings, pref, torn>>
    BY <1>4 DEF StopCommand
  <2>2. QED
    BY <2>1, BeginInv
<1>5. QED
  BY <1>1, <1>2, <1>3, <1>4 DEF RequestStep

LEMMA OpStepInv ==
  ASSUME FlagInv, NEW a \in Actor, OpStep(a)
  PROVE  CleanOps' /\ FlagsAgreeUnlessTorn'
<1> USE DEF FlagInv, PrefTypeOK
<1> DEFINE u == op[a].user
<1>0. /\ op[a] \in Op /\ u \in User /\ op[a].enabled \in BOOLEAN
      /\ op[a].localTime \in 0..DayMinutes-1 /\ op[a].clean \in BOOLEAN
  BY DEF Op
<1>1. CASE SyncSettings(a)
  <2>1. /\ op[a].step = "syncSettings" /\ op' = [op EXCEPT ![a] = Idle]
        /\ torn' = [torn EXCEPT ![u] = ~op[a].clean] /\ pref' = pref
        /\ settings'[u].enabled = op[a].enabled
        /\ \A v \in User \ {u} : settings'[v] = settings[v]
    BY <1>0, <1>1 DEF SyncSettings, Finish, SetAyatRemindersEnabled, SetEnabled, Settings
  <2>2. ASSUME NEW v \in User, v = u, Achieved(a)
        PROVE  Agree(v)'
    BY <2>1, <2>2 DEF Achieved, Agree
  <2>3. QED
    BY <1>0, <2>1, <2>2, EndInv DEF Busy
<1>2. CASE WriteSettings(a)
  <2> DEFINE o == [op[a] EXCEPT !.step = "readPref"]
  <2>1. /\ op[a].step = "writeSettings" /\ op' = [op EXCEPT ![a] = o]
        /\ torn' = torn /\ pref' = pref
        /\ settings'[u].enabled = op[a].enabled
        /\ \A v \in User \ {u} : settings'[v] = settings[v]
    BY <1>0, <1>2 DEF WriteSettings, Goto, SetAyatRemindersEnabled, SetEnabled, Settings
  <2>2. o \in Op /\ o.step = "readPref" /\ o.user = u /\ o.clean = op[a].clean
    BY <1>0 DEF Op, Step
  <2>3. Achieved(a)'
    BY <1>0, <2>1 DEF Achieved, Op
  <2> HIDE DEF o
  <2>4. QED
    BY <2>1, <2>2, <2>3, MoveInv
<1>3. CASE ReadPref(a)
  <2> DEFINE o == [op[a] EXCEPT !.step = "writePref", !.localTime = pref[u].localTime]
  <2>1. /\ op[a].step = "readPref" /\ op' = [op EXCEPT ![a] = o]
        /\ torn' = torn /\ pref' = pref /\ settings' = settings
    BY <1>0, <1>3 DEF ReadPref
  <2>2. /\ o \in Op /\ o.step = "writePref" /\ o.user = u /\ o.clean = op[a].clean
        /\ o.enabled = op[a].enabled /\ o.localTime = pref[u].localTime
    BY <1>0 DEF Op, Step, Pref
  <2> HIDE DEF o
  <2>3. op'[a] = o
    BY <2>1
  <2>4. Achieved(a) => Achieved(a)'
    BY <1>0, <2>1, <2>2, <2>3 DEF Achieved
  <2>5. QED
    BY <2>1, <2>2, <2>4, MoveInv
<1>4. CASE WritePref(a)
  <2>1. /\ op[a].step = "writePref" /\ op' = [op EXCEPT ![a] = Idle]
        /\ torn' = [torn EXCEPT ![u] = ~op[a].clean] /\ settings' = settings
        /\ pref'[u].enabled = op[a].enabled
        /\ \A v \in User \ {u} : pref'[v] = pref[v]
    BY <1>0, <1>4 DEF WritePref, Finish, UpsertReminderPreference
  <2>2. ASSUME NEW v \in User, v = u, Achieved(a)
        PROVE  Agree(v)'
    BY <2>1, <2>2 DEF Achieved, Agree
  <2>3. QED
    BY <1>0, <2>1, <2>2, EndInv DEF Busy
<1>5. QED
  BY <1>1, <1>2, <1>3, <1>4 DEF OpStep

LEMMA AbandonInv ==
  ASSUME FlagInv, NEW a \in Actor, Abandon(a)
  PROVE  CleanOps' /\ FlagsAgreeUnlessTorn'
<1> USE DEF FlagInv, PrefTypeOK
<1> DEFINE u == op[a].user
           b == torn[u] \/ op[a].step # "writeSettings" \/ ~op[a].clean
<1>1. u \in User /\ b \in BOOLEAN /\ Busy(a, u)
  BY DEF Abandon, Op, Busy
<1>2. /\ op' = [op EXCEPT ![a] = Idle] /\ torn' = [torn EXCEPT ![u] = b]
      /\ pref' = pref /\ settings' = settings
  BY <1>1 DEF Abandon
<1>3. ASSUME NEW v \in User, v = u, ~b, Achieved(a)
      PROVE  Agree(v)'
  BY <1>2, <1>3 DEF Achieved, Agree
<1>4. ~b => op[a].clean
  BY <1>1 DEF Op
<1> HIDE DEF b
<1>5. QED
  BY <1>1, <1>2, <1>3, <1>4, EndInv

LEMMA OtherStepInv ==
  ASSUME FlagInv, NEW u \in User, GetSettings(u) \/ StampByWorker(u)
  PROVE  CleanOps' /\ FlagsAgreeUnlessTorn'
<1>0. settings \in [User -> Settings]
  BY DEF FlagInv, PrefTypeOK
<1>1. \A v \in User : settings'[v].enabled = settings[v].enabled
  <2>1. CASE GetSettings(u)
    <3>1. settings' = [settings EXCEPT ![u].exists = TRUE]
      BY <2>1 DEF GetSettings, UpsertDefaults
    <3>2. QED
      BY <1>0, <3>1 DEF Settings
  <2>2. CASE StampByWorker(u)
    <3>1. settings' = [settings EXCEPT ![u].exists = TRUE, ![u].lastAt = clock]
      BY <2>2 DEF StampByWorker, MarkLastAyatReminderAt
    <3>2. QED
      BY <1>0, <3>1 DEF Settings
  <2>3. QED
    BY <2>1, <2>2
<1>2. UNCHANGED <<op, torn, pref>>
  BY DEF GetSettings, StampByWorker
<1>3. QED
  BY <1>1, <1>2, KeepInv

LEMMA DisableInv ==
  ASSUME FlagInv, NEW a \in Actor, NEW u \in User, DisableByWorker(a, u)
  PROVE  CleanOps' /\ FlagsAgreeUnlessTorn'
<1>1. Begin(a, u, "writeSettings", FALSE) /\ UNCHANGED <<settings, pref, torn>>
  BY DEF DisableByWorker
<1>2. QED
  BY <1>1, BeginInv DEF Step

LEMMA QuietStepInv ==
  ASSUME FlagInv, UNCHANGED <<settings, pref, op, torn>>
  PROVE  CleanOps' /\ FlagsAgreeUnlessTorn'
BY KeepInv

LEMMA FlagInvInit == PrefInit => FlagInv
<1> SUFFICES ASSUME PrefInit PROVE FlagInv
  OBVIOUS
<1>1. PrefTypeOK
  BY PrefInitType
<1>2. CleanOps
  BY DEF PrefInit, CleanOps, Idle
<1>3. FlagsAgreeUnlessTorn
  <2> SUFFICES ASSUME NEW u \in User, ~torn[u] PROVE Agree(u)
    BY DEF FlagsAgreeUnlessTorn
  <2>1. NeverSet(u) \/ OptedIn(u) \/ LegacyPref(u)
    BY DEF PrefInit
  <2>2. torn[u] = (pref[u].enabled /\ ~settings[u].enabled)
    BY DEF PrefInit
  <2>0. /\ NoSettings.enabled = FALSE /\ NoPref.enabled = FALSE
        /\ SettingsOn.enabled = TRUE /\ PrefOn.enabled = TRUE
    BY DEF NoSettings, NoPref, SettingsOn, PrefOn
  <2>3. NeverSet(u) \/ OptedIn(u) => Agree(u)
    BY <2>0 DEF NeverSet, OptedIn, Agree
  <2>4. ~LegacyPref(u)
    BY <2>0, <2>2 DEF LegacyPref
  <2>5. QED
    BY <2>1, <2>3, <2>4
<1>4. QED
  BY <1>1, <1>2, <1>3 DEF FlagInv

LEMMA FlagInvStep == FlagInv /\ [PrefNext]_prefVars => FlagInv'
<1> SUFFICES ASSUME FlagInv, [PrefNext]_prefVars PROVE FlagInv'
  OBVIOUS
<1>1. PrefTypeOK'
  BY PrefTypeStep DEF FlagInv
<1>2. ASSUME NEW a \in Actor, RequestStep(a) \/ OpStep(a) \/ Abandon(a)
      PROVE  CleanOps' /\ FlagsAgreeUnlessTorn'
  BY <1>2, RequestStepInv, OpStepInv, AbandonInv
<1>3. ASSUME AccountStep
      PROVE  CleanOps' /\ FlagsAgreeUnlessTorn'
  <2>1. ASSUME NEW u \in User, DeactivateUser(u) \/ \E b \in BOOLEAN : UpsertFromTelegram(u, b)
        PROVE  CleanOps' /\ FlagsAgreeUnlessTorn'
    BY <2>1, QuietStepInv DEF DeactivateUser, UpsertFromTelegram
  <2>2. QED
    BY <1>3, <2>1, OtherStepInv DEF AccountStep
<1>4. ASSUME NEW u \in User, StampByWorker(u) \/ \E a \in Actor : DisableByWorker(a, u)
      PROVE  CleanOps' /\ FlagsAgreeUnlessTorn'
  BY <1>4, OtherStepInv, DisableInv
<1>5. ASSUME Tick \/ UNCHANGED prefVars
      PROVE  CleanOps' /\ FlagsAgreeUnlessTorn'
  BY <1>5, QuietStepInv DEF Tick, prefVars
<1>6. CleanOps' /\ FlagsAgreeUnlessTorn'
  BY <1>2, <1>3, <1>4, <1>5 DEF PrefNext
<1>7. QED
  BY <1>1, <1>6 DEF FlagInv

(* The settings row and the preference row of a user agree whenever no      *)
(* handler is at work on the user and none was cut short or overlapped      *)
(* since they last agreed: whatever requests, /stop commands, workers and   *)
(* crashes there were.                                                      *)
THEOREM FlagsAgree == PrefSpec => []FlagsAgreeUnlessTorn
<1>1. FlagInv => FlagsAgreeUnlessTorn
  BY DEF FlagInv
<1>2. QED
  BY <1>1, FlagInvInit, FlagInvStep, PTL DEF PrefSpec

(* The times rows show.  LocalTimeKept speaks of the rows; the strengthening *)
(* adds the times that handlers have in hand for a row that is there, and    *)
(* that a missing row reads as the default.                                  *)

HandsHold ==
  \A x \in Actor :
    op[x].step = "writePref" /\ pref[op[x].user].exists
      => op[x].localTime \in asked[op[x].user]

MissingIsDefault ==
  \A u \in User : ~pref[u].exists => pref[u].localTime = DefaultLocalTime

TimesInv == PrefTypeOK /\ HandsHold /\ MissingIsDefault /\ LocalTimeKept

LEMMA TimesInvInit == PrefInit => TimesInv
<1> SUFFICES ASSUME PrefInit PROVE TimesInv
  OBVIOUS
<1>1. PrefTypeOK
  BY PrefInitType
<1>2. HandsHold
  BY DEF PrefInit, HandsHold, Idle
<1>3. \A u \in User : pref[u].localTime = DefaultLocalTime
  BY DEF PrefInit, NeverSet, OptedIn, LegacyPref, NoPref, PrefOn
<1>4. MissingIsDefault /\ LocalTimeKept
  BY <1>3 DEF PrefInit, MissingIsDefault, LocalTimeKept
<1>5. QED
  BY <1>1, <1>2, <1>4 DEF TimesInv

(* No row and no set of times changes, and no handler takes a time in hand. *)
LEMMA TimesStay ==
  ASSUME TimesInv, pref' = pref, asked' = asked,
         \A x \in Actor : op'[x].step = "writePref"
           => /\ op[x].step = "writePref" /\ op'[x].user = op[x].user
              /\ op'[x].localTime = op[x].localTime
  PROVE  (HandsHold /\ MissingIsDefault /\ LocalTimeKept)'
BY DEF TimesInv, HandsHold, MissingIsDefault, LocalTimeKept

LEMMA BeginTakesNoTime ==
  ASSUME PrefTypeOK, NEW a \in Actor, NEW u \in User, NEW step \in Step \ {"writePref"},
         NEW b \in BOOLEAN, Begin(a, u, step, b)
  PROVE  \A x \in Actor : op'[x].step = "writePref"
           => /\ x # a /\ op[x].step = "writePref" /\ op'[x].user = op[x].user
              /\ op'[x].localTime = op[x].localTime
<1>1. ASSUME NEW x \in Actor \ {a}
      PROVE  op'[x].step = op[x].step /\ op'[x].user = op[x].user
               /\ op'[x].localTime = op[x].localTime
  BY DEF Begin, PrefTypeOK, Op
<1>2. op'[a].step = step
  BY DEF Begin, PrefTypeOK
<1>3. QED
  BY <1>1, <1>2

LEMMA EndTakesNoTime ==
  ASSUME PrefTypeOK, NEW a \in Actor, op' = [op EXCEPT ![a] = Idle]
  PROVE  /\ op'[a].step = "idle"
         /\ \A x \in Actor \ {a} : op'[x] = op[x]
BY DEF PrefTypeOK, Idle

(* A row made, or given its time, by a: what the others have in hand for it *)
(* is among the times asked for, and so is the time it shows now.           *)
LEMMA TimeAsked ==
  ASSUME TimesInv, NEW a \in Actor, NEW u \in User, NEW b \in BOOLEAN,
         NEW t \in 0..DayMinutes-1,
         UpsertReminderPreference(u, b, t), AskTime(a, u, t),
         \A x \in Actor : op'[x].step = "writePref"
           => /\ x # a /\ op[x].step = "writePref" /\ op'[x].user = op[x].user
              /\ op'[x].localTime = op[x].localTime
  PROVE  (HandsHold /\ MissingIsDefault /\ LocalTimeKept)'
<1> USE DEF TimesInv, PrefTypeOK
<1>1. /\ pref'[u] = [exists |-> TRUE, enabled |-> b, localTime |-> t]
      /\ \A v \in User \ {u} : pref'[v] = pref[v]
  BY DEF UpsertReminderPreference
<1>2. /\ asked'[u] = {t} \union InHand(u, Actor \ {a})
      /\ \A v \in User \ {u} : asked'[v] = asked[v]
  BY DEF AskTime
<1>3. ASSUME NEW x \in Actor, op'[x].step = "writePref", pref'[op'[x].user].exists
      PROVE  op'[x].localTime \in asked'[op'[x].user]
  <2>1. /\ x # a /\ op[x].step = "writePref" /\ op'[x].user = op[x].user
        /\ op'[x].localTime = op[x].localTime /\ op[x].user \in User
    BY <1>3 DEF Op
  <2>2. CASE op[x].user = u
    <3>1. op[x].localTime \in InHand(u, Actor \ {a})
      BY <2>1, <2>2 DEF InHand
    <3>2. QED
      BY <1>2, <2>1, <2>2, <3>1
  <2>3. CASE op[x].user # u
    BY <1>1, <1>2, <1>3, <2>1, <2>3 DEF HandsHold
  <2>4. QED
    BY <2>2, <2>3
<1>4. MissingIsDefault'
  BY <1>1 DEF MissingIsDefault
<1>5. ASSUME NEW v \in User
      PROVE  pref'[v].localTime \in asked'[v]
  BY <1>1, <1>2 DEF LocalTimeKept
<1>6. QED
  BY <1>3, <1>4, <1>5 DEF HandsHold, LocalTimeKept

LEMMA RequestStepTimes ==
  ASSUME TimesInv, NEW a \in Actor, RequestStep(a)
  PROVE  (HandsHold /\ MissingIsDefault /\ LocalTimeKept)'
<1> USE DEF TimesInv
<1>1. ASSUME NEW u \in User, NEW b \in BOOLEAN, NEW t \in 0..DayMinutes-1, PutReminder(a, u, b, t)
      PROVE  (HandsHold /\ MissingIsDefault /\ LocalTimeKept)'
  <2>1. /\ Begin(a, u, "syncSettings", b) /\ UpsertReminderPreference(u, b, t)
        /\ AskTime(a, u, t)
    BY <1>1 DEF PutReminder
  <2>2. QED
    BY <2>1, BeginTakesNoTime, TimeAsked DEF Step
<1>2. ASSUME NEW u \in User, NEW b \in BOOLEAN, UpdateSettings(a, u, b) \/ StopCommand(a, u)
      PROVE  (HandsHold /\ MissingIsDefault /\ LocalTimeKept)'
  <2>1. pref' = pref /\ asked' = asked
    BY <1>2 DEF UpdateSettings, StopCommand
  <2>2. Begin(a, u, "writeSettings", b) \/ Begin(a, u, "writeSettings", FALSE)
    BY <1>2 DEF UpdateSettings, StopCommand
  <2>3. QED
    BY <2>1, <2>2, BeginTakesNoTime, TimesStay DEF Step
<1>3. ASSUME NEW u \in User, DeleteReminder(a, u)
      PROVE  (HandsHold /\ MissingIsDefault /\ LocalTimeKept)'
  <2>1. /\ Begin(a, u, "syncSettings", FALSE)
        /\ pref' = [pref EXCEPT ![u] = NoPref]
        /\ asked' = [asked EXCEPT ![u] = {DefaultLocalTime}]
    BY <1>3 DEF DeleteReminder
  <2>2. \A x \in Actor : op'[x].step = "writePref"
           => /\ x # a /\ op[x].step = "writePref" /\ op'[x].user = op[x].user
              /\ op'[x].localTime = op[x].localTime
    BY <2>1, BeginTakesNoTime DEF Step
  <2>3. /\ ~pref'[u].exists /\ pref'[u].localTime = DefaultLocalTime
        /\ asked'[u] = {DefaultLocalTime}
        /\ \A v \in User \ {u} : pref'[v] = pref[v] /\ asked'[v] = asked[v]
    BY <2>1 DEF PrefTypeOK, NoPref
  <2>4. HandsHold'
    BY <2>2, <2>3 DEF HandsHold, PrefTypeOK, Op
  <2>5. (MissingIsDefault /\ LocalTimeKept)'
    BY <2>3 DEF MissingIsDefault, LocalTimeKept
  <2>6. QED
    BY <2>4, <2>5
<1>4. QED
  BY <1>1, <1>2, <1>3 DEF RequestStep

LEMMA OpStepTimes ==
  ASSUME TimesInv, NEW a \in Actor, OpStep(a)
  PROVE  (HandsHold /\ MissingIsDefault /\ LocalTimeKept)'
<1> USE DEF TimesInv
<1> DEFINE u == op[a].user
<1>0. op[a] \in Op /\ u \in User /\ op[a].localTime \in 0..DayMinutes-1
        /\ op[a].enabled \in BOOLEAN /\ DefaultLocalTime \in 0..DayMinutes-1
  BY PreferencesAssumption DEF PrefTypeOK, Op, DefaultLocalTime
<1>1. CASE SyncSettings(a)
  <2>1. op' = [op EXCEPT ![a] = Idle] /\ pref' = pref /\ asked' = asked
    BY <1>1 DEF SyncSettings, Finish
  <2>2. QED
    BY <2>1, EndTakesNoTime, TimesStay
<1>2. CASE WriteSettings(a)
  <2>1. op' = [op EXCEPT ![a].step = "readPref"] /\ pref' = pref /\ asked' = asked
    BY <1>2 DEF WriteSettings, Goto
  <2>2. QED
    BY <1>0, <2>1, TimesStay DEF PrefTypeOK, Op
<1>3. CASE ReadPref(a)
  <2>1. /\ op' = [op EXCEPT ![a].step = "writePref", ![a].localTime = pref[u].localTime]
        /\ pref' = pref /\ asked' = asked
    BY <1>3 DEF ReadPref
  <2>2. /\ op'[a].step = "writePref" /\ op'[a].user = u /\ op'[a].localTime = pref[u].localTime
        /\ \A x \in Actor \ {a} : op'[x] = op[x]
    BY <1>0, <2>1 DEF PrefTypeOK, Op
  <2>3. HandsHold'
    BY <1>0, <2>1, <2>2 DEF HandsHold, LocalTimeKept
  <2>4. QED
    BY <2>1, <2>3 DEF MissingIsDefault, LocalTimeKept
<1>4. CASE WritePref(a)
  <2>1. op[a].step = "writePref" /\ op' = [op EXCEPT ![a] = Idle]
    BY <1>4 DEF WritePref, Finish
  <2>2. op'[a].step = "idle" /\ \A x \in Actor \ {a} : op'[x] = op[x]
    BY <2>1, EndTakesNoTime
  <2>3. CASE /\ pref[u].exists /\ asked' = asked
             /\ UpsertReminderPreference(u, op[a].enabled, op[a].localTime)
    <3>1. /\ pref'[u].exists /\ pref'[u].localTime = op[a].localTime
          /\ \A v \in User \ {u} : pref'[v] = pref[v]
      BY <1>0, <2>3 DEF UpsertReminderPreference, PrefTypeOK
    <3>2. op[a].localTime \in asked[u]
      BY <2>1, <2>3 DEF HandsHold
    <3>3. HandsHold'
      BY <2>2, <2>3, <3>1 DEF HandsHold, PrefTypeOK, Op
    <3>4. (MissingIsDefault /\ LocalTimeKept)'
      BY <2>3, <3>1, <3>2 DEF MissingIsDefault, LocalTimeKept
    <3>5. QED
      BY <3>3, <3>4
  <2>4. CASE /\ ~pref[u].exists /\ AskTime(a, u, DefaultLocalTime)
             /\ UpsertReminderPreference(u, op[a].enabled, DefaultLocalTime)
    <3>1. \A x \in Actor : op'[x].step = "writePref"
           => /\ x # a /\ op[x].step = "writePref" /\ op'[x].user = op[x].user
              /\ op'[x].localTime = op[x].localTime
      BY <2>2
    <3>2. QED
      BY <1>0, <2>4, <3>1, TimeAsked
  <2>5. QED
    BY <1>4, <2>3, <2>4 DEF WritePref
<1>5. QED
  BY <1>1, <1>2, <1>3, <1>4 DEF OpStep

LEMMA TimesInvStep == TimesInv /\ [PrefNext]_prefVars => TimesInv'
<1> SUFFICES ASSUME TimesInv, [PrefNext]_prefVars PROVE TimesInv'
  OBVIOUS
<1>1. PrefTypeOK'
  BY PrefTypeStep DEF TimesInv
<1>2. ASSUME NEW a \in Actor, Abandon(a)
      PROVE  (HandsHold /\ MissingIsDefault /\ LocalTimeKept)'
  <2>1. op' = [op EXCEPT ![a] = Idle] /\ pref' = pref /\ asked' = asked
    BY <1>2 DEF Abandon
  <2>2. QED
    BY <2>1, EndTakesNoTime, TimesStay DEF TimesInv
<1>3. ASSUME AccountStep \/ Tick \/ UNCHANGED prefVars \/ \E u \in User : StampByWorker(u)
      PROVE  (HandsHold /\ MissingIsDefault /\ LocalTimeKept)'
  <2>1. UNCHANGED <<pref, asked, op>>
    BY <1>3 DEF AccountStep, GetSettings, DeactivateUser, UpsertFromTelegram, Tick, prefVars,
                StampByWorker
  <2>2. QED
    BY <2>1, TimesStay
<1>4. ASSUME NEW a \in Actor, NEW u \in User, DisableByWorker(a, u)
      PROVE  (HandsHold /\ MissingIsDefault /\ LocalTimeKept)'
  <2>1. Begin(a, u, "writeSettings", FALSE) /\ pref' = pref /\ asked' = asked
    BY <1>4 DEF DisableByWorker
  <2>2. QED
    BY <2>1, BeginTakesNoTime, TimesStay DEF TimesInv, Step
<1>5. (HandsHold /\ MissingIsDefault /\ LocalTimeKept)'
  BY <1>2, <1>3, <1>4, RequestStepTimes, OpStepTimes DEF PrefNext
<1>6. QED
  BY <1>1, <1>5 DEF TimesInv

(* However many requests, /stop commands, workers and crashes overlap: a    *)
(* reminder is at the time its user last asked for, or at one a handler had *)
(* read from the row before he asked and wrote back after; and a row made   *)
(* anew never shows the time of the one that was deleted.                   *)
THEOREM LocalTimeIsKept == PrefSpec => []LocalTimeKept
<1>1. TimesInv => LocalTimeKept
  BY DEF TimesInv
<1>2. QED
  BY <1>1, TimesInvInit, TimesInvStep, PTL DEF PrefSpec

----------------------------------------------------------------------------
(* The least of a set of numbers, which stands for induction here.         *)

Before == {p \in Nat \X Nat : p[1] < p[2]}

LEMMA BeforePairs == \A a, b \in Nat : a < b => <<a, b>> \in Before
BY DEF Before

LEMMA BeforeIsWellFounded == IsWellFoundedOn(Before, Nat)
<1>1. Before = OpToRel(<, Nat)
  BY Zenon DEF OpToRel, Before
<1> QED BY <1>1, NatLessThanWellFounded, Zenon

LEMMA LeastOf ==
  ASSUME NEW T, T \subseteq Nat, T # {}
  PROVE  \E x \in T : \A y \in T : x <= y
<1>1. PICK x \in T : \A y \in T : ~ (<<y, x>> \in Before)
  BY BeforeIsWellFounded, WFMin
<1>2. ASSUME NEW y \in T PROVE x <= y
  <2>1. x \in Nat /\ y \in Nat /\ ~(<<y, x>> \in Before)
    BY <1>1
  <2>2. ~(y < x)
    BY <2>1, BeforePairs
  <2> QED BY <2>1, <2>2
<1> QED BY <1>2

----------------------------------------------------------------------------
(* The order of a list: total on the rows, so that every set of rows can   *)
(* be put in order.                                                        *)

Positions == [RowId -> ListRow]

LEMMA PrecedesIsTotal ==
  ASSUME rows \in Positions, NEW i \in RowId, NEW j \in RowId
  PROVE  /\ rows[i].at \in Int /\ i \in Int
         /\ ~Precedes(i, i)
         /\ i # j => Precedes(i, j) \/ Precedes(j, i)
         /\ ~(Precedes(i, j) /\ Precedes(j, i))
         /\ \A k \in RowId : Precedes(i, j) /\ Precedes(j, k) => Precedes(i, k)
<1>1. \A k \in RowId : rows[k].at \in Int /\ k \in Int
  BY ListsAssumption DEF Positions, ListRow, Instant
<1> QED BY <1>1 DEF Precedes

(* A set of rows that is not empty has a last one. *)
HasLast(set) == \E x \in set : \A y \in set \ {x} : Precedes(y, x)

LEMMA LastExists ==
  ASSUME rows \in Positions, NEW set \in SUBSET RowId, set # {}
  PROVE  HasLast(set)
<1> DEFINE Bad(n) == \E s \in SUBSET RowId : s # {} /\ Cardinality(s) = n /\ ~HasLast(s)
           T == {n \in Nat : Bad(n)}
<1>1. \A s \in SUBSET RowId : IsFiniteSet(s) /\ Cardinality(s) \in Nat
  BY ListsAssumption, FS_Subset, FS_CardinalityType
<1>2. SUFFICES ASSUME T # {} PROVE FALSE
  BY <1>1
<1>3. PICK n \in T : \A m \in T : n <= m
  BY <1>2, LeastOf
<1>4. PICK s \in SUBSET RowId : s # {} /\ Cardinality(s) = n /\ ~HasLast(s)
  BY <1>3
<1>5. PICK x \in s : TRUE
  BY <1>4
<1>6. Cardinality(s \ {x}) = n - 1 /\ n - 1 \in Nat /\ n \in Nat
  <2>1. IsFiniteSet(s) /\ Cardinality(s) = n /\ s \ {x} \in SUBSET RowId /\ x \in s
    BY <1>1, <1>4, <1>5
  <2>2. Cardinality(s \ {x}) = Cardinality(s) - 1
    BY <2>1, FS_RemoveElement
  <2>3. Cardinality(s \ {x}) \in Nat
    BY <1>1, <2>1
  <2> QED BY <1>3, <2>1, <2>2, <2>3
<1>7. n - 1 \notin T
  BY <1>3, <1>6
<1>8. s \ {x} = {} \/ HasLast(s \ {x})
  BY <1>4, <1>6, <1>7
<1>9. CASE s \ {x} = {}
  BY <1>4, <1>9 DEF HasLast
<1>10. CASE HasLast(s \ {x})
  <2>1. PICK y \in s \ {x} : \A z \in (s \ {x}) \ {y} : Precedes(z, y)
    BY <1>10 DEF HasLast
  <2>2. x \in RowId /\ y \in RowId /\ s \subseteq RowId
    BY <1>4, <1>5, <2>1
  <2>3. CASE Precedes(x, y)
    BY <1>4, <2>1, <2>3 DEF HasLast
  <2>4. CASE Precedes(y, x)
    <3>1. \A z \in s \ {x} : Precedes(z, x)
      BY <2>1, <2>2, <2>4, PrecedesIsTotal
    <3> QED BY <1>4, <3>1 DEF HasLast
  <2> QED BY <2>1, <2>2, <2>3, <2>4, PrecedesIsTotal
<1> QED BY <1>8, <1>9, <1>10

(* A sequence of all the rows of a set, in order. *)
Sorts(s, set) ==
  /\ s \in [1..Cardinality(set) -> set]
  /\ \A i \in set : \E n \in DOMAIN s : s[n] = i
  /\ \A m, n \in DOMAIN s : m < n => Precedes(s[m], s[n])

LEMMA SortedExists ==
  ASSUME rows \in Positions, NEW set \in SUBSET RowId
  PROVE  \E s : Sorts(s, set)
<1> DEFINE Bad(n) == \E t \in SUBSET RowId : Cardinality(t) = n /\ ~(\E s : Sorts(s, t))
           T == {n \in Nat : Bad(n)}
<1>1. \A t \in SUBSET RowId : IsFiniteSet(t) /\ Cardinality(t) \in Nat
  BY ListsAssumption, FS_Subset, FS_CardinalityType
<1>2. SUFFICES ASSUME T # {} PROVE FALSE
  BY <1>1
<1>3. PICK n \in T : \A m \in T : n <= m
  BY <1>2, LeastOf
<1>4. PICK t \in SUBSET RowId : Cardinality(t) = n /\ ~(\E s : Sorts(s, t))
  BY <1>3
<1>5. t # {}
  <2>1. Cardinality({}) = 0
    BY FS_EmptySet
  <2>2. Sorts([k \in 1..0 |-> 0], {})
    BY <2>1 DEF Sorts
  <2> QED BY <2>2, <1>4
<1>6. PICK x \in t : \A y \in t \ {x} : Precedes(y, x)
  BY <1>5, LastExists DEF HasLast
<1>7. Cardinality(t \ {x}) = n - 1 /\ n - 1 \in Nat /\ n \in Nat
  <2>1. IsFiniteSet(t) /\ Cardinality(t) = n /\ t \ {x} \in SUBSET RowId /\ x \in t
    BY <1>1, <1>4, <1>6
  <2>2. Cardinality(t \ {x}) = Cardinality(t) - 1
    BY <2>1, FS_RemoveElement
  <2>3. Cardinality(t \ {x}) \in Nat
    BY <1>1, <2>1
  <2> QED BY <1>3, <2>1, <2>2, <2>3
<1>8. n - 1 \notin T
  BY <1>3, <1>7
<1>9. PICK s : Sorts(s, t \ {x})
  BY <1>7, <1>8
<1>10. PICK r : r = [k \in 1..n |-> IF k = n THEN x ELSE s[k]]
  OBVIOUS
<1>11. s \in [1..n - 1 -> t \ {x}]
  BY <1>7, <1>9 DEF Sorts
<1>12. r[n] = x /\ \A k \in 1..n - 1 : r[k] = s[k] /\ r[k] \in t \ {x}
  BY <1>7, <1>10, <1>11
<1>13. r \in [1..n -> t] /\ DOMAIN r = 1..n
  BY <1>7, <1>10, <1>11
<1>14. \A i \in t : \E k \in 1..n : r[k] = i
  <2>1. \A i \in t \ {x} : \E k \in 1..n - 1 : s[k] = i
    BY <1>9, <1>11 DEF Sorts
  <2>2. n \in 1..n
    BY <1>7
  <2> QED BY <1>7, <1>12, <2>1, <2>2
<1>15. \A k, l \in 1..n : k < l => Precedes(r[k], r[l])
  <2>1. \A k, l \in 1..n - 1 : k < l => Precedes(s[k], s[l])
    BY <1>9, <1>11 DEF Sorts
  <2>2. \A k \in 1..n - 1 : Precedes(r[k], r[n])
    BY <1>6, <1>12
  <2>3. \A k, l \in 1..n : k < l => k \in 1..n - 1 /\ (l = n \/ l \in 1..n - 1)
    BY <1>7
  <2> QED BY <2>1, <2>2, <2>3, <1>12
<1>16. Sorts(r, t)
  BY <1>4, <1>13, <1>14, <1>15 DEF Sorts
<1> QED BY <1>4, <1>16

LEMMA InOrderSorts ==
  ASSUME rows \in Positions, NEW set \in SUBSET RowId
  PROVE  Sorts(InOrder(set), set)
BY SortedExists DEF Sorts, InOrder

----------------------------------------------------------------------------
(* The invariant. *)

Cursors == [at: 0..LastTick + 1, id: Nat]

ListsTypes ==
  /\ ListsTypeOK
  /\ page \in [pc: {"idle", "turning", "end"}, filter: Filter \union {NoFilter}, cursor: Cursors,
               shown: Seq(RowId), stayed: SUBSET RowId]

(* What a request holds: an instant that is past, and, of a saved row, a   *)
(* verse of the Quran; each kind of request is of the lists that have it.  *)
EditFits(r, l, t) ==
  /\ r.at <= t
  /\ r.pc = "insert" => l \notin Read
  /\ r.pc = "commit" => l \in Read
  /\ r.pc \in {"insert", "find", "write"} /\ l \in Saved => IsValidAyahCoordinate(r.chapter, r.verse)
  /\ r.pc \in {"find", "write"} => l \in Saved

EditsSound == pointer.committed <= now /\ \A e \in Editor : EditFits(edit[e], list, now)

EditRecord == [pc: {"idle", "insert", "find", "write", "commit"}, id: RowId,
               chapter: Chapter \union {Absent}, verse: VerseNumber \union {Absent}, at: Instant]

(* A row that stayed is on the pages turned so far exactly once if it is   *)
(* before the cursor, and not at all if it is after it.                    *)
Once(q, i) == \E n \in DOMAIN q : \A m \in DOMAIN q : q[m] = i <=> m = n
Nowhere(q, i) == \A n \in DOMAIN q : q[n] # i

Turned(i) ==
  /\ Listed(rows[i], page.filter)
  /\ page.pc # "idle"
  /\ page.pc = "turning" /\ AfterCursor(i, page.cursor) => Nowhere(page.shown, i)
  /\ page.pc = "turning" /\ ~AfterCursor(i, page.cursor) => Once(page.shown, i)
  /\ page.pc = "end" => Once(page.shown, i)

AllTurned == \A i \in page.stayed : Turned(i)

ListsInv == ListsTypes /\ EditsSound /\ SavedAyahsExist /\ ContinueIsRecent /\ AllTurned

LEMMA NumbersTyped ==
  /\ Chapter \subseteq Nat /\ VerseNumber \subseteq Nat /\ Absent \in Nat
  /\ Instant \subseteq Int /\ LastTick \in Nat /\ MaxEdits \in Nat
  /\ 0 \in Instant
  /\ Absent \notin Chapter
  /\ \A c, v : IsValidAyahCoordinate(c, v)
                 => c \in Chapter /\ v \in VerseNumber /\ c # Absent /\ v # Absent
<1>1. \A c \in Chapter : c \in Nat /\ c # 0 /\ VersesIn[c] \in Nat
  BY ListsAssumption DEF Chapter
<1> QED BY <1>1, ListsAssumption DEF Chapter, VerseNumber, Absent, Instant, IsValidAyahCoordinate

LEMMA NothingTyped ==
  /\ EmptyRow \in ListRow
  /\ NoEdit \in EditRecord
  /\ NoEdit.pc = "idle" /\ NoEdit.at = 0
  /\ NoPage \in [pc: {"idle", "turning", "end"}, filter: Filter \union {NoFilter}, cursor: Cursors,
                 shown: Seq(RowId), stayed: SUBSET RowId]
  /\ NoPage.pc = "idle" /\ NoPage.stayed = {} /\ NoPage.shown = <<>> /\ NoPage.cursor = NoCursor
<1>1. (CHOOSE i \in RowId : TRUE) \in RowId
  BY ListsAssumption
<1>2. NoCursor \in Cursors
  BY ListsAssumption DEF NoCursor, Cursors
<1>3. <<>> \in Seq(RowId)
  OBVIOUS
<1> QED BY <1>1, <1>2, <1>3, NumbersTyped DEF EmptyRow, ListRow, NoEdit, NoPage, EditRecord

LEMMA ListsInitInv == ListsInit => ListsInv
<1> SUFFICES ASSUME ListsInit PROVE ListsInv
  OBVIOUS
<1>1. ListsTypes
  BY NothingTyped, NumbersTyped DEF ListsInit, ListsTypes, ListsTypeOK, Instant, EditRecord
<1>2. EditsSound
  BY NothingTyped DEF ListsInit, EditsSound, EditFits
<1>3. SavedAyahsExist /\ ContinueIsRecent
  BY DEF ListsInit, SavedAyahsExist, ContinueIsRecent, EmptyRow
<1>4. AllTurned
  BY NothingTyped DEF ListsInit, AllTurned
<1> QED BY <1>1, <1>2, <1>3, <1>4 DEF ListsInv

----------------------------------------------------------------------------
(* What every step is made of: a request moves, the rows change.           *)

LEMMA EditMoves ==
  ASSUME ListsTypes, EditsSound, NEW e \in Editor, NEW r \in EditRecord,
         edit' = [edit EXCEPT ![e] = r], list' = list, now' = now,
         pointer'.committed <= now, EditFits(r, list, now)
  PROVE  edit' \in [Editor -> EditRecord] /\ EditsSound'
<1>1. edit \in [Editor -> EditRecord]
  BY DEF ListsTypes, ListsTypeOK, EditRecord
<1>2. edit' \in [Editor -> EditRecord]
  BY <1>1
<1>3. \A f \in Editor : EditFits(edit'[f], list', now')
  BY <1>1 DEF EditsSound
<1> QED BY <1>2, <1>3 DEF EditsSound

LEMMA EditEnding ==
  ASSUME ListsTypes, EditsSound, NEW e \in Editor, EditEnds(e), list' = list, now' = now,
         pointer'.committed <= now
  PROVE  edit' \in [Editor -> EditRecord] /\ EditsSound'
<1>1. NoEdit \in EditRecord /\ EditFits(NoEdit, list, now)
  BY NothingTyped, NumbersTyped DEF EditFits, ListsTypes, ListsTypeOK, Instant
<1> QED BY <1>1, EditMoves DEF EditEnds

LEMMA RowsPut ==
  ASSUME ListsTypes, AllTurned, NEW new, new \in Positions, PutRows(new)
  PROVE  /\ rows' \in Positions
         /\ page' \in [pc: {"idle", "turning", "end"}, filter: Filter \union {NoFilter},
                       cursor: Cursors, shown: Seq(RowId), stayed: SUBSET RowId]
         /\ AllTurned'
<1>1. rows' = new /\ page'.stayed = {i \in page.stayed : Listed(new[i], page.filter) /\ new[i].at = rows[i].at}
  BY DEF PutRows, ListsTypes
<1>2. page' = [page EXCEPT !.stayed = page'.stayed]
  BY <1>1 DEF PutRows, ListsTypes
<1>3. /\ page'.pc = page.pc /\ page'.filter = page.filter
      /\ page'.cursor = page.cursor /\ page'.shown = page.shown
  BY <1>2 DEF ListsTypes
<1>4. ASSUME NEW i \in page'.stayed PROVE Turned(i)'
  <2>1. i \in page.stayed /\ Listed(rows'[i], page'.filter) /\ rows'[i].at = rows[i].at
    BY <1>1, <1>3
  <2>2. AfterCursor(i, page.cursor)' <=> AfterCursor(i, page.cursor)
    BY <1>3, <2>1 DEF AfterCursor
  <2>3. (Nowhere(page.shown, i)' <=> Nowhere(page.shown, i)) /\ (Once(page.shown, i)' <=> Once(page.shown, i))
    BY <1>3 DEF Nowhere, Once
  <2>4. Turned(i)
    BY <2>1 DEF AllTurned
  <2> QED BY <1>3, <2>1, <2>2, <2>3, <2>4 DEF Turned
<1>5. page'.stayed \subseteq RowId
  BY <1>1 DEF ListsTypes
<1>6. page' \in [pc: {"idle", "turning", "end"}, filter: Filter \union {NoFilter},
                 cursor: Cursors, shown: Seq(RowId), stayed: SUBSET RowId]
  BY <1>2, <1>5 DEF ListsTypes
<1> QED BY <1>1, <1>4, <1>6 DEF AllTurned

LEMMA RowsStay ==
  ASSUME UNCHANGED <<rows, page>>, AllTurned
  PROVE  AllTurned'
BY DEF AllTurned, Turned, Listed, AfterCursor

LEMMA SavedStay ==
  ASSUME UNCHANGED <<list, rows>>, SavedAyahsExist
  PROVE  SavedAyahsExist'
BY DEF SavedAyahsExist, IsValidAyahCoordinate

LEMMA PointerStays ==
  ASSUME UNCHANGED <<list, rows, pointer>>, ContinueIsRecent
  PROVE  ContinueIsRecent'
BY DEF ContinueIsRecent

LEMMA TypesFollow ==
  ASSUME ListsTypes, list' = list, rows' \in Positions, edit' \in [Editor -> EditRecord],
         pointer' \in [began: Instant, committed: Instant],
         page' \in [pc: {"idle", "turning", "end"}, filter: Filter \union {NoFilter},
                    cursor: Cursors, shown: Seq(RowId), stayed: SUBSET RowId],
         now' \in Instant, edits' \in 0..MaxEdits
  PROVE  ListsTypes'
BY DEF ListsTypes, ListsTypeOK, Positions, EditRecord

LEMMA TypesSpelled ==
  ASSUME ListsTypes
  PROVE  /\ rows \in Positions /\ edit \in [Editor -> EditRecord]
         /\ pointer \in [began: Instant, committed: Instant]
         /\ page \in [pc: {"idle", "turning", "end"}, filter: Filter \union {NoFilter},
                      cursor: Cursors, shown: Seq(RowId), stayed: SUBSET RowId]
         /\ now \in Instant /\ edits \in 0..MaxEdits
BY DEF ListsTypes, ListsTypeOK, Positions, EditRecord

(* A request begins. *)
LEMMA EditAsked ==
  ASSUME ListsInv, NEW e \in Editor, NEW r \in EditRecord, EditFits(r, list, now), AskEdit(e, r)
  PROVE  ListsInv'
<1>1. ListsTypes /\ EditsSound /\ SavedAyahsExist /\ ContinueIsRecent /\ AllTurned
  BY DEF ListsInv
<1>2. /\ edit' = [edit EXCEPT ![e] = r] /\ edits' = edits + 1 /\ edits < MaxEdits
      /\ UNCHANGED <<list, rows, pointer, page, now>>
  BY DEF AskEdit
<1>3. edit' \in [Editor -> EditRecord] /\ EditsSound'
  <2>1. pointer'.committed <= now
    BY <1>1, <1>2 DEF EditsSound
  <2> QED BY <1>1, <1>2, <2>1, EditMoves
<1>4. ListsTypes'
  <2>1. edits' \in 0..MaxEdits
    BY <1>1, <1>2, TypesSpelled, NumbersTyped
  <2> QED BY <1>1, <1>2, <1>3, <2>1, TypesSpelled, TypesFollow
<1> QED BY <1>1, <1>2, <1>3, <1>4, RowsStay, SavedStay, PointerStays DEF ListsInv

(* A request ends, or moves, and the rows stay. *)
LEMMA EditGoes ==
  ASSUME ListsInv, NEW e \in Editor, NEW r \in EditRecord, EditFits(r, list, now),
         edit' = [edit EXCEPT ![e] = r], UNCHANGED <<list, rows, pointer, page, now, edits>>
  PROVE  ListsInv'
<1>1. ListsTypes /\ EditsSound /\ SavedAyahsExist /\ ContinueIsRecent /\ AllTurned
  BY DEF ListsInv
<1>2. pointer'.committed <= now
  BY <1>1 DEF EditsSound
<1>3. edit' \in [Editor -> EditRecord] /\ EditsSound'
  BY <1>1, <1>2, EditMoves
<1>4. ListsTypes'
  BY <1>1, <1>3, TypesSpelled, TypesFollow
<1> QED BY <1>1, <1>3, <1>4, RowsStay, SavedStay, PointerStays DEF ListsInv

LEMMA EditOver ==
  ASSUME ListsInv, NEW e \in Editor, EditEnds(e), UNCHANGED <<list, rows, pointer, page, now, edits>>
  PROVE  ListsInv'
<1>1. NoEdit \in EditRecord /\ EditFits(NoEdit, list, now)
  BY NothingTyped, NumbersTyped DEF EditFits, ListsInv, ListsTypes, ListsTypeOK, Instant
<1> QED BY <1>1, EditGoes DEF EditEnds

----------------------------------------------------------------------------
(* The requests. *)

LEMMA AskCreateStep ==
  ASSUME ListsInv, NEW e \in Editor, NEW c, NEW v, list \in Saved, AskCreate(e, c, v)
  PROVE  ListsInv'
<1>1. PICK r : r = [NoEdit EXCEPT !.pc = "insert", !.chapter = c, !.verse = v, !.at = now]
  OBVIOUS
<1>2. c \in Chapter /\ v \in VerseNumber /\ IsValidAyahCoordinate(c, v) /\ now \in Instant
  BY NumbersTyped DEF AskCreate, ListsInv, ListsTypes, ListsTypeOK
<1>3. r \in EditRecord /\ r.pc = "insert" /\ r.chapter = c /\ r.verse = v /\ r.at = now
  BY <1>1, <1>2, NothingTyped DEF EditRecord
<1>4. EditFits(r, list, now)
  BY <1>2, <1>3, NumbersTyped DEF EditFits, Saved, Read
<1> QED BY <1>1, <1>3, <1>4, EditAsked DEF AskCreate

LEMMA NotifyStep ==
  ASSUME ListsInv, NEW e \in Editor, Notify(e)
  PROVE  ListsInv'
<1>1. PICK r : r = [NoEdit EXCEPT !.pc = "insert", !.at = now]
  OBVIOUS
<1>2. now \in Instant
  BY DEF ListsInv, ListsTypes, ListsTypeOK
<1>3. r \in EditRecord /\ r.pc = "insert" /\ r.at = now
  BY <1>1, <1>2, NothingTyped DEF EditRecord
<1>4. EditFits(r, list, now)
  BY <1>2, <1>3, NumbersTyped DEF EditFits, Saved, Read, Notify
<1> QED BY <1>1, <1>3, <1>4, EditAsked DEF Notify

LEMMA AskUpdateStep ==
  ASSUME ListsInv, NEW e \in Editor, NEW i \in RowId, NEW c, NEW v, list \in Saved, AskUpdate(e, i, c, v)
  PROVE  ListsInv'
<1>1. PICK chapter, verse : chapter = Given(c, rows[i].chapter) /\ verse = Given(v, rows[i].verse)
  OBVIOUS
<1>2. PICK r : r = [NoEdit EXCEPT !.pc = "find", !.id = i, !.chapter = chapter, !.verse = verse]
  OBVIOUS
<1>3. IsValidAyahCoordinate(chapter, verse) /\ AskEdit(e, r)
  BY <1>1, <1>2 DEF AskUpdate, WriteBack
<1>4. chapter \in Chapter /\ verse \in VerseNumber
  BY <1>3, NumbersTyped
<1>5. r \in EditRecord /\ r.pc = "find" /\ r.chapter = chapter /\ r.verse = verse /\ r.at = 0
  BY <1>2, <1>4, NothingTyped DEF EditRecord
<1>6. EditFits(r, list, now)
  BY <1>3, <1>5, NumbersTyped DEF EditFits, Saved, Read, ListsInv, ListsTypes, ListsTypeOK, Instant
<1> QED BY <1>3, <1>5, <1>6, EditAsked

LEMMA OpenAyahStep ==
  ASSUME ListsInv, NEW e \in Editor, NEW c, NEW v, OpenAyah(e, c, v)
  PROVE  ListsInv'
<1>1. PICK r : r = [NoEdit EXCEPT !.pc = "commit", !.chapter = c, !.verse = v, !.at = now]
  OBVIOUS
<1>2. c \in Chapter /\ v \in VerseNumber /\ list \in Read /\ now \in Instant
  BY NumbersTyped DEF OpenAyah, ListsInv, ListsTypes, ListsTypeOK
<1>3. r \in EditRecord /\ r.pc = "commit" /\ r.at = now
  BY <1>1, <1>2, NothingTyped DEF EditRecord
<1>4. EditFits(r, list, now)
  BY <1>2, <1>3, NumbersTyped DEF EditFits, Saved, Read
<1> QED BY <1>1, <1>3, <1>4, EditAsked DEF OpenAyah

LEMMA FindStep ==
  ASSUME ListsInv, NEW e \in Editor, FindOwnedActive(e)
  PROVE  ListsInv'
<1>1. edit \in [Editor -> EditRecord] /\ EditFits(edit[e], list, now)
  BY TypesSpelled DEF ListsInv, EditsSound
<1>2. CASE edit' = [edit EXCEPT ![e].pc = "write"]
  <2>1. PICK r : r = [edit[e] EXCEPT !.pc = "write"]
    OBVIOUS
  <2>2. r \in EditRecord /\ edit' = [edit EXCEPT ![e] = r]
    BY <1>1, <1>2, <2>1 DEF EditRecord
  <2>3. EditFits(r, list, now)
    BY <1>1, <2>1 DEF EditFits, FindOwnedActive, EditRecord
  <2> QED BY <2>2, <2>3, EditGoes DEF FindOwnedActive
<1>3. CASE EditEnds(e)
  BY <1>3, EditOver DEF FindOwnedActive
<1> QED BY <1>2, <1>3 DEF FindOwnedActive

LEMMA EditFailsStep ==
  ASSUME ListsInv, NEW e \in Editor, EditFails(e)
  PROVE  ListsInv'
BY EditOver DEF EditFails

LEMMA ListsTimeStep ==
  ASSUME ListsInv, TimePasses
  PROVE  ListsInv'
<1>1. ListsTypes /\ EditsSound /\ SavedAyahsExist /\ ContinueIsRecent /\ AllTurned
  BY DEF ListsInv
<1>2. now' = now + 1 /\ now < LastTick /\ UNCHANGED <<list, rows, edit, pointer, page, edits>>
  BY DEF TimePasses
<1>3. now \in Int /\ now' \in Instant /\ edit \in [Editor -> EditRecord] /\ pointer.committed \in Int
  BY <1>1, <1>2, TypesSpelled, NumbersTyped DEF Instant
<1>4. ListsTypes'
  BY <1>1, <1>2, <1>3, TypesSpelled, TypesFollow
<1>5. EditsSound'
  <2>1. \A e \in Editor : edit[e].at \in Int
    BY <1>3, NumbersTyped DEF EditRecord
  <2>2. \A e \in Editor : EditFits(edit[e], list, now + 1)
    BY <1>1, <1>3, <2>1 DEF EditsSound, EditFits
  <2> QED BY <1>1, <1>2, <1>3, <2>2 DEF EditsSound
<1> QED BY <1>1, <1>2, <1>4, <1>5, RowsStay, SavedStay, PointerStays DEF ListsInv

LEMMA StartListingStep ==
  ASSUME ListsInv, NEW f \in Filter, StartListing(f)
  PROVE  ListsInv'
<1>1. ListsTypes /\ EditsSound /\ SavedAyahsExist /\ ContinueIsRecent /\ AllTurned
  BY DEF ListsInv
<1>2. UNCHANGED <<list, rows, edit, pointer, now, edits>>
  BY DEF StartListing
<1>3. PICK all \in SUBSET RowId : all = {i \in RowId : Listed(rows[i], f)}
  OBVIOUS
<1>4. page' = [NoPage EXCEPT !.pc = "turning", !.filter = f, !.stayed = all]
  BY <1>3 DEF StartListing
<1>5. /\ page' \in [pc: {"idle", "turning", "end"}, filter: Filter \union {NoFilter}, cursor: Cursors,
                    shown: Seq(RowId), stayed: SUBSET RowId]
      /\ page'.pc = "turning" /\ page'.filter = f /\ page'.stayed = all
      /\ page'.shown = <<>> /\ page'.cursor = NoCursor
  BY <1>4, NothingTyped
<1>6. ListsTypes'
  BY <1>1, <1>2, <1>5, TypesSpelled, TypesFollow
<1>7. EditsSound'
  BY <1>1, <1>2 DEF EditsSound
<1>8. ASSUME NEW i \in page'.stayed PROVE Turned(i)'
  <2>1. i \in RowId /\ Listed(rows[i], f)
    BY <1>3, <1>5
  <2>2. rows[i].at \in 0..LastTick
    BY <1>1, <2>1, TypesSpelled DEF Positions, ListRow, Instant
  <2>3. AfterCursor(i, NoCursor)
    BY <2>2, NumbersTyped DEF AfterCursor, NoCursor
  <2>4. AfterCursor(i, page.cursor)'
    BY <1>2, <1>5, <2>3 DEF AfterCursor
  <2>5. Listed(rows'[i], page'.filter)
    BY <1>2, <1>5, <2>1
  <2>6. Nowhere(page.shown, i)'
    BY <1>5 DEF Nowhere
  <2> QED BY <1>5, <2>4, <2>5, <2>6 DEF Turned
<1>9. AllTurned'
  BY <1>8 DEF AllTurned
<1> QED BY <1>1, <1>2, <1>6, <1>7, <1>9, SavedStay, PointerStays DEF ListsInv

----------------------------------------------------------------------------
(* The rows. *)

SavedIn(new) == \A i \in RowId : new[i].state # "none" => IsValidAyahCoordinate(new[i].chapter, new[i].verse)

LEMMA RowsChange ==
  ASSUME ListsInv, NEW new, new \in Positions, PutRows(new), list \notin Read,
         list \in Saved => SavedIn(new),
         UNCHANGED <<list, pointer, now>>,
         edit' \in [Editor -> EditRecord], EditsSound', edits' \in 0..MaxEdits
  PROVE  ListsInv'
<1>1. ListsTypes /\ AllTurned
  BY DEF ListsInv
<1>2. /\ rows' \in Positions
      /\ page' \in [pc: {"idle", "turning", "end"}, filter: Filter \union {NoFilter},
                    cursor: Cursors, shown: Seq(RowId), stayed: SUBSET RowId]
      /\ AllTurned'
  BY <1>1, RowsPut
<1>3. ListsTypes'
  BY <1>1, <1>2, TypesSpelled, TypesFollow
<1>4. rows' = new
  BY DEF PutRows
<1>5. SavedAyahsExist' /\ ContinueIsRecent'
  BY <1>4 DEF SavedAyahsExist, ContinueIsRecent, SavedIn, IsValidAyahCoordinate
<1> QED BY <1>2, <1>3, <1>5 DEF ListsInv

LEMMA InsertStep ==
  ASSUME ListsInv, NEW e \in Editor, NEW i \in RowId, InsertRow(e, i)
  PROVE  ListsInv'
<1>1. ListsTypes /\ EditsSound /\ SavedAyahsExist
  BY DEF ListsInv
<1>2. edit \in [Editor -> EditRecord] /\ EditFits(edit[e], list, now) /\ rows \in Positions
  BY <1>1, TypesSpelled DEF EditsSound
<1>3. edit[e].pc = "insert" /\ EditEnds(e) /\ UNCHANGED <<list, pointer, now, edits>>
  BY DEF InsertRow
<1>4. CASE Taken(edit[e].chapter, edit[e].verse, i)
  BY <1>3, <1>4, EditOver DEF InsertRow
<1>5. CASE ~Taken(edit[e].chapter, edit[e].verse, i)
  <2>1. PICK r : r = [state |-> "active", chapter |-> edit[e].chapter, verse |-> edit[e].verse,
                      unread |-> list = "notifications", at |-> edit[e].at]
    OBVIOUS
  <2>2. PICK new : new = [rows EXCEPT ![i] = r]
    OBVIOUS
  <2>3. (list = "notifications") \in BOOLEAN /\ edit[e] \in EditRecord
    BY <1>2
  <2>4. r \in ListRow
    BY <2>1, <2>3 DEF ListRow, EditRecord
  <2>5. new \in Positions /\ new[i] = r /\ \A j \in RowId \ {i} : new[j] = rows[j]
    BY <1>2, <2>2, <2>4 DEF Positions
  <2>6. PutRows(new)
    BY <1>5, <2>1, <2>2 DEF InsertRow
  <2>7. list \notin Read /\ (list \in Saved => IsValidAyahCoordinate(r.chapter, r.verse))
    BY <1>2, <1>3, <2>1 DEF EditFits
  <2>8. list \in Saved => SavedIn(new)
    BY <1>1, <2>5, <2>7 DEF SavedAyahsExist, SavedIn
  <2>9. pointer'.committed <= now
    BY <1>1, <1>3 DEF EditsSound
  <2>10. edit' \in [Editor -> EditRecord] /\ EditsSound' /\ edits' \in 0..MaxEdits
    BY <1>1, <1>3, <2>9, EditEnding, TypesSpelled
  <2> QED BY <1>3, <2>5, <2>6, <2>7, <2>8, <2>10, RowsChange
<1> QED BY <1>4, <1>5

LEMMA GivenGiven ==
  ASSUME NEW c, NEW o, c # Absent
  PROVE  Given(c, o) = c
BY DEF Given

LEMMA UpdateStep ==
  ASSUME ListsInv, NEW e \in Editor, UpdateOwned(e)
  PROVE  ListsInv'
<1>1. ListsTypes /\ EditsSound /\ SavedAyahsExist
  BY DEF ListsInv
<1>2. edit \in [Editor -> EditRecord] /\ EditFits(edit[e], list, now) /\ rows \in Positions
  BY <1>1, TypesSpelled DEF EditsSound
<1>3. edit[e].pc = "write" /\ EditEnds(e) /\ UNCHANGED <<list, pointer, now, edits>>
  BY DEF UpdateOwned
<1>4. PICK i \in RowId : i = edit[e].id
  BY <1>2 DEF EditRecord
<1>5. CASE UNCHANGED <<rows, page>>
  BY <1>3, <1>5, EditOver
<1>6. CASE PutRows([rows EXCEPT ![i].chapter = Given(edit[e].chapter, rows[i].chapter),
                                ![i].verse = Given(edit[e].verse, rows[i].verse)])
  <2>1. PICK c, v : c = edit[e].chapter /\ v = edit[e].verse
    OBVIOUS
  <2>2. list \in Saved /\ IsValidAyahCoordinate(c, v)
    BY <1>2, <1>3, <2>1 DEF EditFits
  <2>3. c \in Chapter /\ v \in VerseNumber /\ c # Absent /\ v # Absent
    BY <2>2, NumbersTyped
  <2>4. Given(edit[e].chapter, rows[i].chapter) = c /\ Given(edit[e].verse, rows[i].verse) = v
    BY <2>1, <2>3, GivenGiven
  <2>5. PICK r : r = [rows[i] EXCEPT !.chapter = c, !.verse = v]
    OBVIOUS
  <2>6. rows[i] \in ListRow
    BY <1>2 DEF Positions
  <2>7. r \in ListRow /\ r.chapter = c /\ r.verse = v
    BY <2>3, <2>5, <2>6 DEF ListRow
  <2>8. PICK new : new = [rows EXCEPT ![i] = r]
    OBVIOUS
  <2>9. new \in Positions /\ new[i] = r /\ \A j \in RowId \ {i} : new[j] = rows[j]
    BY <1>2, <2>7, <2>8 DEF Positions
  <2>10. [rows EXCEPT ![i].chapter = c, ![i].verse = v] = new
    BY <1>2, <2>5, <2>8 DEF Positions, ListRow
  <2>11. PutRows(new)
    BY <1>6, <2>4, <2>10
  <2>12. SavedIn(new)
    BY <1>1, <2>2, <2>7, <2>9 DEF SavedAyahsExist, SavedIn
  <2>13. pointer'.committed <= now
    BY <1>1, <1>3 DEF EditsSound
  <2>14. edit' \in [Editor -> EditRecord] /\ EditsSound' /\ edits' \in 0..MaxEdits
    BY <1>1, <1>3, <2>13, EditEnding, TypesSpelled
  <2>15. list \notin Read
    BY <2>2 DEF Saved, Read
  <2> QED BY <1>3, <2>9, <2>11, <2>12, <2>14, <2>15, RowsChange
<1> QED BY <1>4, <1>5, <1>6 DEF UpdateOwned

LEMMA RequestCounted ==
  ASSUME ListsInv, UNCHANGED <<list, edit, pointer, now>>, edits < MaxEdits, edits' = edits + 1
  PROVE  edit' \in [Editor -> EditRecord] /\ EditsSound' /\ edits' \in 0..MaxEdits
<1>1. ListsTypes /\ EditsSound
  BY DEF ListsInv
<1>2. edits' \in 0..MaxEdits
  BY <1>1, TypesSpelled, NumbersTyped
<1>3. EditsSound'
  BY <1>1 DEF EditsSound
<1> QED BY <1>1, <1>2, <1>3, TypesSpelled

LEMMA RemoveStep ==
  ASSUME ListsInv, NEW i \in RowId, list \in Saved, RemoveRow(i)
  PROVE  ListsInv'
<1>1. ListsTypes /\ SavedAyahsExist /\ rows \in Positions
  BY TypesSpelled DEF ListsInv
<1>2. PICK r : r = [rows[i] EXCEPT !.state = "deleted"]
  OBVIOUS
<1>3. rows[i] \in ListRow /\ rows[i].state = "active"
  BY <1>1 DEF Positions, RemoveRow
<1>4. r \in ListRow /\ r.chapter = rows[i].chapter /\ r.verse = rows[i].verse
  BY <1>2, <1>3 DEF ListRow
<1>5. PICK new : new = [rows EXCEPT ![i] = r]
  OBVIOUS
<1>6. new \in Positions /\ new[i] = r /\ \A j \in RowId \ {i} : new[j] = rows[j]
  BY <1>1, <1>4, <1>5 DEF Positions
<1>7. [rows EXCEPT ![i].state = "deleted"] = new
  BY <1>1, <1>2, <1>5 DEF Positions, ListRow
<1>8. PutRows(new) /\ UNCHANGED <<list, edit, pointer, now>> /\ edits < MaxEdits /\ edits' = edits + 1
  BY <1>7 DEF RemoveRow
<1>9. SavedIn(new) /\ list \notin Read
  BY <1>1, <1>3, <1>4, <1>6 DEF SavedAyahsExist, SavedIn, Saved, Read
<1> QED BY <1>6, <1>8, <1>9, RequestCounted, RowsChange

LEMMA MarkReadStep ==
  ASSUME ListsInv, NEW some, MarkRead(some)
  PROVE  ListsInv'
<1>1. rows \in Positions
  BY TypesSpelled DEF ListsInv
<1>2. PICK new : new = [i \in RowId |-> IF i \in some /\ rows[i].state = "active"
                                        THEN [rows[i] EXCEPT !.unread = FALSE] ELSE rows[i]]
  OBVIOUS
<1>3. \A i \in RowId : rows[i] \in ListRow /\ [rows[i] EXCEPT !.unread = FALSE] \in ListRow
  BY <1>1 DEF Positions, ListRow
<1>4. new \in Positions
  BY <1>2, <1>3 DEF Positions
<1>5. /\ PutRows(new) /\ UNCHANGED <<list, edit, pointer, now>> /\ edits < MaxEdits /\ edits' = edits + 1
      /\ list = "notifications"
  BY <1>2 DEF MarkRead
<1>6. list \notin Read /\ list \notin Saved
  BY <1>5 DEF Read, Saved
<1> QED BY <1>4, <1>5, <1>6, RequestCounted, RowsChange

LEMMA CommitStep ==
  ASSUME ListsInv, NEW e \in Editor, NEW i \in RowId, CommitOpened(e, i)
  PROVE  ListsInv'
<1>1. ListsTypes /\ EditsSound /\ ContinueIsRecent /\ AllTurned
  BY DEF ListsInv
<1>2. /\ edit \in [Editor -> EditRecord] /\ EditFits(edit[e], list, now) /\ rows \in Positions
      /\ now \in Instant
  BY <1>1, TypesSpelled DEF EditsSound
<1>3. edit[e].pc = "commit" /\ EditEnds(e) /\ UNCHANGED <<list, now, edits>>
  BY DEF CommitOpened
<1>4. PICK r : r = [state |-> "active", chapter |-> edit[e].chapter, verse |-> edit[e].verse,
                    unread |-> FALSE, at |-> edit[e].at]
  OBVIOUS
<1>5. PICK new : new = [rows EXCEPT ![i] = r]
  OBVIOUS
<1>6. r \in ListRow /\ edit[e] \in EditRecord
  BY <1>2, <1>4 DEF ListRow, EditRecord
<1>7. new \in Positions /\ new[i] = r /\ \A j \in RowId \ {i} : new[j] = rows[j]
  BY <1>2, <1>5, <1>6 DEF Positions
<1>8. PutRows(new) /\ rows' = new
  BY <1>4, <1>5 DEF CommitOpened, PutRows
<1>9. pointer' = [began |-> edit[e].at, committed |-> now]
  BY DEF CommitOpened, PointerTo
<1>10. pointer' \in [began: Instant, committed: Instant] /\ pointer'.committed = now
  BY <1>2, <1>6, <1>9 DEF EditRecord
<1>11. edit' \in [Editor -> EditRecord] /\ EditsSound'
  <2>1. now <= now
    BY <1>2, NumbersTyped
  <2> QED BY <1>1, <1>3, <1>10, <2>1, EditEnding
<1>12. /\ rows' \in Positions
       /\ page' \in [pc: {"idle", "turning", "end"}, filter: Filter \union {NoFilter},
                     cursor: Cursors, shown: Seq(RowId), stayed: SUBSET RowId]
       /\ AllTurned'
  BY <1>1, <1>7, <1>8, RowsPut
<1>13. ListsTypes'
  BY <1>1, <1>3, <1>10, <1>11, <1>12, TypesSpelled, TypesFollow
<1>14. list \in Read
  BY <1>2, <1>3 DEF EditFits
<1>15. SavedAyahsExist'
  BY <1>3, <1>14 DEF SavedAyahsExist, Saved, Read
<1>16. ContinueIsRecent'
  <2>1. \A j \in RowId : rows[j].at \in Int
    BY <1>2, NumbersTyped DEF Positions, ListRow
  <2>2. now \in Int /\ pointer.committed \in Int /\ pointer.committed <= now
    BY <1>1, TypesSpelled, NumbersTyped DEF EditsSound
  <2>3. \A j \in RowId \ {i} : new[j].state = "active" => new[j].at <= now
    BY <1>1, <1>7, <1>14, <2>1, <2>2 DEF ContinueIsRecent
  <2>4. new[i].at <= now
    BY <1>2, <1>4, <1>7 DEF EditFits
  <2> QED BY <1>8, <1>10, <2>3, <2>4 DEF ContinueIsRecent
<1> QED BY <1>11, <1>12, <1>13, <1>15, <1>16 DEF ListsInv

----------------------------------------------------------------------------
(* A page. *)

(* What a page adds of rows in order: the first of them, and the cursor at *)
(* the last one shown when there are more.                                 *)
AddsPage(s, size, piece) ==
  /\ piece \in Seq(RowId)
  /\ Len(piece) = IF size > PageSize THEN PageSize ELSE size
  /\ \A k \in 1..Len(piece) : piece[k] = s[k]
  /\ page' = [page EXCEPT !.shown = page.shown \o piece,
                          !.pc = IF size > PageSize THEN "turning" ELSE "end",
                          !.cursor = IF size > PageSize THEN CursorOf(s[PageSize]) ELSE NoCursor]

LEMMA KeysetPage ==
  ASSUME ListsTypes, NEW s, NEW size \in Nat, s \in [1..size -> RowId],
         ToKeysetPage(SubSeq(s, 1, IF Len(s) > PageSize THEN PageSize + 1 ELSE Len(s)))
  PROVE  \E piece : AddsPage(s, size, piece)
<1>1. PageSize \in Nat \ {0}
  BY ListsAssumption
<1>2. s \in Seq(RowId) /\ Len(s) = size
  OBVIOUS
<1>3. PICK found : found = SubSeq(s, 1, IF size > PageSize THEN PageSize + 1 ELSE size)
  OBVIOUS
<1>4. ToKeysetPage(found)
  BY <1>2, <1>3
<1>5. CASE size > PageSize
  <2>1. found \in Seq(RowId) /\ Len(found) = PageSize + 1 /\ \A k \in 1..PageSize + 1 : found[k] = s[k]
    BY <1>1, <1>2, <1>3, <1>5, SubSeqProperties
  <2>2. PICK piece : piece = SubSeq(found, 1, PageSize)
    OBVIOUS
  <2>3. piece \in Seq(RowId) /\ Len(piece) = PageSize /\ \A k \in 1..PageSize : piece[k] = found[k]
    BY <1>1, <2>1, <2>2, SubSeqProperties
  <2>4. Len(found) > PageSize /\ piece[Len(piece)] = s[PageSize]
    BY <1>1, <2>1, <2>3
  <2>5. page' = [page EXCEPT !.shown = page.shown \o piece, !.pc = "turning", !.cursor = CursorOf(s[PageSize])]
    BY <1>4, <2>2, <2>4 DEF ToKeysetPage
  <2>6. \A k \in 1..PageSize : piece[k] = s[k]
    BY <1>1, <2>1, <2>3
  <2> QED BY <1>5, <2>3, <2>5, <2>6 DEF AddsPage
<1>6. CASE ~(size > PageSize)
  <2>1. found \in Seq(RowId) /\ Len(found) = size /\ \A k \in 1..size : found[k] = s[k]
    BY <1>1, <1>2, <1>3, <1>6, SubSeqProperties
  <2>2. PICK piece : piece = SubSeq(found, 1, size)
    OBVIOUS
  <2>3. piece \in Seq(RowId) /\ Len(piece) = size /\ \A k \in 1..size : piece[k] = found[k]
    BY <2>1, <2>2, SubSeqProperties
  <2>4. ~(Len(found) > PageSize)
    BY <1>1, <1>6, <2>1
  <2>5. page' = [page EXCEPT !.shown = page.shown \o piece, !.pc = "end", !.cursor = NoCursor]
    BY <1>4, <2>1, <2>2, <2>4 DEF ToKeysetPage
  <2>6. \A k \in 1..size : piece[k] = s[k]
    BY <2>1, <2>3
  <2> QED BY <1>6, <2>3, <2>5, <2>6 DEF AddsPage
<1> QED BY <1>5, <1>6

LEMMA OnceOrNowhere ==
  ASSUME NEW a \in Seq(RowId), NEW b \in Seq(RowId), NEW i
  PROVE  /\ Nowhere(a, i) /\ Nowhere(b, i) => Nowhere(a \o b, i)
         /\ Nowhere(a, i) /\ Once(b, i) => Once(a \o b, i)
         /\ Once(a, i) /\ Nowhere(b, i) => Once(a \o b, i)
<1>1. /\ DOMAIN a = 1..Len(a) /\ DOMAIN b = 1..Len(b) /\ DOMAIN (a \o b) = 1..Len(a) + Len(b)
      /\ Len(a) \in Nat /\ Len(b) \in Nat
  OBVIOUS
<1>2. \A n \in 1..Len(a) : (a \o b)[n] = a[n]
  OBVIOUS
<1>3. \A n \in 1..Len(b) : (a \o b)[Len(a) + n] = b[n]
  OBVIOUS
<1>4. \A n \in 1..Len(a) + Len(b) : n \in 1..Len(a) \/ \E m \in 1..Len(b) : n = Len(a) + m
  <2>1. ASSUME NEW n \in 1..Len(a) + Len(b), n \notin 1..Len(a)
        PROVE  n - Len(a) \in 1..Len(b) /\ n = Len(a) + (n - Len(a))
    BY <1>1, <2>1
  <2> QED BY <2>1
<1>5. ASSUME Nowhere(a, i), Nowhere(b, i) PROVE Nowhere(a \o b, i)
  <2>1. (\A n \in 1..Len(a) : a[n] # i) /\ (\A n \in 1..Len(b) : b[n] # i)
    BY <1>1, <1>5 DEF Nowhere
  <2>2. \A n \in 1..Len(a) + Len(b) : (a \o b)[n] # i
    BY <1>2, <1>3, <1>4, <2>1
  <2> QED BY <1>1, <2>2 DEF Nowhere
<1>6. ASSUME Nowhere(a, i), Once(b, i) PROVE Once(a \o b, i)
  <2>1. PICK n \in 1..Len(b) : \A m \in 1..Len(b) : b[m] = i <=> m = n
    BY <1>1, <1>6 DEF Once
  <2>2. \A m \in 1..Len(a) : a[m] # i
    BY <1>1, <1>6 DEF Nowhere
  <2>3. Len(a) + n \in 1..Len(a) + Len(b)
    BY <1>1
  <2>4. ASSUME NEW m \in 1..Len(a) + Len(b) PROVE (a \o b)[m] = i <=> m = Len(a) + n
    <3>1. CASE m \in 1..Len(a)
      BY <1>1, <1>2, <2>2, <3>1
    <3>2. CASE \E l \in 1..Len(b) : m = Len(a) + l
      BY <1>1, <1>3, <2>1, <3>2
    <3> QED BY <1>4, <3>1, <3>2
  <2>5. Len(a) + n \in DOMAIN (a \o b) /\ \A m \in DOMAIN (a \o b) : (a \o b)[m] = i <=> m = Len(a) + n
    BY <1>1, <2>3, <2>4
  <2> QED BY <2>5 DEF Once
<1>7. ASSUME Once(a, i), Nowhere(b, i) PROVE Once(a \o b, i)
  <2>0. PICK n \in DOMAIN a : \A m \in DOMAIN a : a[m] = i <=> m = n
    BY <1>7 DEF Once
  <2>1. n \in 1..Len(a) /\ \A m \in 1..Len(a) : a[m] = i <=> m = n
    BY <1>1, <2>0
  <2>2. \A m \in 1..Len(b) : b[m] # i
    BY <1>1, <1>7 DEF Nowhere
  <2>3. n \in 1..Len(a) + Len(b)
    BY <1>1
  <2>4. ASSUME NEW m \in 1..Len(a) + Len(b) PROVE (a \o b)[m] = i <=> m = n
    <3>1. CASE m \in 1..Len(a)
      BY <1>2, <2>1, <3>1
    <3>2. CASE \E l \in 1..Len(b) : m = Len(a) + l
      BY <1>1, <1>3, <2>2, <3>2
    <3> QED BY <1>4, <3>1, <3>2
  <2>5. n \in DOMAIN (a \o b) /\ \A m \in DOMAIN (a \o b) : (a \o b)[m] = i <=> m = n
    BY <1>1, <2>3, <2>4
  <2> QED BY <2>5 DEF Once
<1> QED BY <1>5, <1>6, <1>7

(* Of the rows in order, those after a cursor that is one of them. *)
LEMMA AfterIsPrecedes ==
  ASSUME rows \in Positions, NEW i \in RowId, NEW j \in RowId
  PROVE  /\ AfterCursor(i, CursorOf(j)) <=> Precedes(j, i)
         /\ CursorOf(j) \in Cursors
<1>1. rows[i].at \in Int /\ rows[j].at \in 0..LastTick /\ i \in Int /\ j \in Nat /\ LastTick \in Nat
  BY ListsAssumption DEF Positions, ListRow, Instant
<1> QED BY <1>1 DEF AfterCursor, CursorOf, Precedes, Cursors

LEMMA AfterGoesOn ==
  ASSUME rows \in Positions, NEW c \in Cursors, NEW i \in RowId, NEW j \in RowId,
         AfterCursor(j, c), Precedes(j, i)
  PROVE  AfterCursor(i, c)
<1>1. rows[i].at \in Int /\ rows[j].at \in Int /\ i \in Int /\ j \in Int /\ c.at \in Int /\ c.id \in Int
  BY ListsAssumption DEF Positions, ListRow, Instant, Cursors
<1> QED BY <1>1 DEF AfterCursor, Precedes

LEMMA SortedOnce ==
  ASSUME rows \in Positions, NEW set \in SUBSET RowId, NEW s, Sorts(s, set), NEW size \in Nat,
         size = Cardinality(set), NEW i \in set
  PROVE  \E k \in 1..size : /\ s[k] = i
                            /\ \A l \in 1..size : (s[l] = i <=> l = k)
                            /\ \A l \in 1..size : (Precedes(s[l], i) <=> l < k)
<1>1. s \in [1..size -> set] /\ \A m, n \in 1..size : m < n => Precedes(s[m], s[n])
  BY DEF Sorts
<1>2. PICK k \in 1..size : s[k] = i
  BY <1>1 DEF Sorts
<1>3. ASSUME NEW l \in 1..size PROVE (s[l] = i <=> l = k) /\ (Precedes(s[l], i) <=> l < k)
  <2>1. s[l] \in RowId /\ i \in RowId
    BY <1>1
  <2>2. CASE l = k
    BY <1>2, <2>1, <2>2, PrecedesIsTotal
  <2>3. CASE l < k
    BY <1>1, <1>2, <2>1, <2>3, PrecedesIsTotal
  <2>4. CASE k < l
    <3>1. Precedes(i, s[l])
      BY <1>1, <1>2, <2>4
    <3> QED BY <1>1, <1>2, <2>1, <2>4, <3>1, PrecedesIsTotal
  <2> QED BY <2>2, <2>3, <2>4
<1> QED BY <1>2, <1>3

LEMMA TurnStep ==
  ASSUME ListsInv, TurnPage
  PROVE  ListsInv'
<1>1. ListsTypes /\ EditsSound /\ SavedAyahsExist /\ ContinueIsRecent /\ AllTurned
  BY DEF ListsInv
<1>2. UNCHANGED <<list, rows, edit, pointer, now, edits>> /\ page.pc = "turning"
  BY DEF TurnPage
<1>3. /\ rows \in Positions /\ page.cursor \in Cursors /\ page.shown \in Seq(RowId)
      /\ page.stayed \in SUBSET RowId
      /\ page \in [pc: {"idle", "turning", "end"}, filter: Filter \union {NoFilter}, cursor: Cursors,
                   shown: Seq(RowId), stayed: SUBSET RowId]
  BY <1>1, TypesSpelled
<1>4. PICK set \in SUBSET RowId : set = {i \in RowId : Listed(rows[i], page.filter) /\ AfterCursor(i, page.cursor)}
  OBVIOUS
<1>5. PICK s : s = InOrder(set)
  OBVIOUS
<1>6. ToKeysetPage(SubSeq(s, 1, IF Len(s) > PageSize THEN PageSize + 1 ELSE Len(s)))
  BY <1>4, <1>5 DEF TurnPage
<1>7. PICK size \in Nat : size = Cardinality(set)
  BY <1>4, ListsAssumption, FS_Subset, FS_CardinalityType
<1>8. Sorts(s, set)
  BY <1>3, <1>5, InOrderSorts
<1>9. s \in [1..size -> set] /\ s \in [1..size -> RowId]
  BY <1>4, <1>7, <1>8 DEF Sorts
<1>10. PICK piece : AddsPage(s, size, piece)
  BY <1>1, <1>6, <1>9, KeysetPage
<1>11. PageSize \in Nat /\ PageSize > 0
  BY ListsAssumption
<1>12. PICK cursor : cursor = IF size > PageSize THEN CursorOf(s[PageSize]) ELSE NoCursor
  OBVIOUS
<1>13. size > PageSize => s[PageSize] \in set /\ s[PageSize] \in RowId
  BY <1>9, <1>11
<1>14. cursor \in Cursors
  BY <1>3, <1>12, <1>13, AfterIsPrecedes, NothingTyped DEF NoCursor, Cursors
<1>15. piece \in Seq(RowId) /\ page.shown \o piece \in Seq(RowId)
  BY <1>3, <1>10 DEF AddsPage
<1>16. /\ page'.shown = page.shown \o piece /\ page'.cursor = cursor
       /\ page'.pc = IF size > PageSize THEN "turning" ELSE "end"
       /\ page'.filter = page.filter /\ page'.stayed = page.stayed
       /\ page' \in [pc: {"idle", "turning", "end"}, filter: Filter \union {NoFilter}, cursor: Cursors,
                     shown: Seq(RowId), stayed: SUBSET RowId]
  BY <1>3, <1>10, <1>12, <1>14, <1>15 DEF AddsPage
<1>17. ListsTypes'
  BY <1>1, <1>2, <1>16, TypesSpelled, TypesFollow
<1>18. EditsSound'
  BY <1>1, <1>2 DEF EditsSound
<1>19. PICK many \in Nat : many = IF size > PageSize THEN PageSize ELSE size
  BY <1>11
<1>20. DOMAIN piece = 1..many /\ \A k \in 1..many : piece[k] = s[k]
  BY <1>10, <1>15, <1>19 DEF AddsPage
<1>21. many <= size
  BY <1>11, <1>19
<1>22. \A j \in RowId : size > PageSize => (AfterCursor(j, page.cursor)' <=> Precedes(s[PageSize], j))
  <2>1. ASSUME NEW j \in RowId, size > PageSize
        PROVE  AfterCursor(j, page.cursor)' <=> Precedes(s[PageSize], j)
    <3>1. AfterCursor(j, page.cursor)' <=> AfterCursor(j, CursorOf(s[PageSize]))
      BY <1>2, <1>12, <1>16, <2>1 DEF AfterCursor
    <3> QED BY <1>3, <1>13, <2>1, <3>1, AfterIsPrecedes
  <2> QED BY <2>1
<1>23. ASSUME NEW i \in page'.stayed PROVE Turned(i)'
  <2>1. i \in RowId /\ Turned(i)
    BY <1>1, <1>3, <1>16, <1>23 DEF AllTurned
  <2>2. Listed(rows[i], page.filter) /\ Listed(rows'[i], page'.filter)
    BY <1>2, <1>16, <2>1 DEF Turned
  <2>3. CASE AfterCursor(i, page.cursor)
    <3>1. i \in set /\ Nowhere(page.shown, i)
      BY <1>2, <1>4, <2>1, <2>2, <2>3 DEF Turned
    <3>2. PICK k \in 1..size : /\ s[k] = i
                               /\ \A l \in 1..size : (s[l] = i <=> l = k)
                               /\ \A l \in 1..size : (Precedes(s[l], i) <=> l < k)
      <4>1. rows \in Positions /\ set \in SUBSET RowId /\ Sorts(s, set) /\ i \in set
        BY <1>3, <1>4, <1>8, <3>1
      <4>2. size \in Nat /\ size = Cardinality(set)
        BY <1>7
      <4> QED BY <4>1, <4>2, SortedOnce
    <3>3. \A l \in 1..many : piece[l] = i <=> l = k
      BY <1>20, <1>21, <3>2
    <3>4. CASE k > many
      <4>1. Nowhere(piece, i)
        BY <1>20, <3>3, <3>4 DEF Nowhere
      <4>2. Nowhere(page'.shown, i)
        BY <1>3, <1>15, <1>16, <3>1, <4>1, OnceOrNowhere
      <4>3. size > PageSize
        BY <1>19, <3>4
      <4>4. AfterCursor(i, page.cursor)'
        <5>1. Precedes(s[PageSize], i)
          BY <1>11, <1>19, <3>2, <3>4, <4>3
        <5> QED BY <1>22, <2>1, <4>3, <5>1
      <4> QED BY <1>16, <2>2, <4>2, <4>3, <4>4 DEF Turned
    <3>5. CASE ~(k > many)
      <4>1. k \in 1..many
        BY <3>5
      <4>2. Once(piece, i)
        BY <1>20, <3>3, <4>1 DEF Once
      <4>3. Once(page'.shown, i)
        BY <1>3, <1>15, <1>16, <3>1, <4>2, OnceOrNowhere
      <4>4. size > PageSize => ~AfterCursor(i, page.cursor)'
        <5>1. size > PageSize => ~Precedes(s[PageSize], i)
          BY <1>11, <1>19, <3>2, <3>5
        <5> QED BY <1>22, <2>1, <5>1
      <4> QED BY <1>16, <2>2, <4>3, <4>4 DEF Turned
    <3> QED BY <3>4, <3>5
  <2>4. CASE ~AfterCursor(i, page.cursor)
    <3>1. Once(page.shown, i)
      BY <1>2, <2>1, <2>4 DEF Turned
    <3>2. i \notin set
      BY <1>4, <2>4
    <3>3. Nowhere(piece, i)
      BY <1>9, <1>20, <1>21, <3>2 DEF Nowhere
    <3>4. Once(page'.shown, i)
      BY <1>3, <1>15, <1>16, <3>1, <3>3, OnceOrNowhere
    <3>5. size > PageSize => ~AfterCursor(i, page.cursor)'
      <4>1. ASSUME size > PageSize, Precedes(s[PageSize], i) PROVE FALSE
        <5>1. s[PageSize] \in RowId /\ AfterCursor(s[PageSize], page.cursor)
          BY <1>4, <1>13, <4>1
        <5> QED BY <1>3, <2>1, <2>4, <4>1, <5>1, AfterGoesOn
      <4> QED BY <1>22, <2>1, <4>1
    <3> QED BY <1>16, <2>2, <3>4, <3>5 DEF Turned
  <2> QED BY <2>3, <2>4
<1>24. AllTurned'
  BY <1>23 DEF AllTurned
<1> QED BY <1>1, <1>2, <1>17, <1>18, <1>24, SavedStay, PointerStays DEF ListsInv

----------------------------------------------------------------------------
(* Together. *)

LEMMA ListsStep ==
  ASSUME ListsInv, [ListsNext]_listVars
  PROVE  ListsInv'
<1>1. CASE UNCHANGED listVars
  <2>1. ListsTypes /\ EditsSound /\ SavedAyahsExist /\ ContinueIsRecent /\ AllTurned
    BY DEF ListsInv
  <2>2. UNCHANGED <<list, rows, edit, pointer, page, now, edits>>
    BY <1>1 DEF listVars
  <2>3. ListsTypes' /\ EditsSound'
    BY <2>1, <2>2 DEF ListsTypes, ListsTypeOK, EditsSound
  <2> QED BY <2>1, <2>2, <2>3, RowsStay, SavedStay, PointerStays DEF ListsInv
<1>2. CASE \E e \in Editor, c \in Chapter, v \in VerseNumber :
             CreateBookmark(e, c, v) \/ CreateFavorite(e, c, v) \/ OpenAyah(e, c, v)
  <2>1. PICK e \in Editor, c \in Chapter, v \in VerseNumber :
          CreateBookmark(e, c, v) \/ CreateFavorite(e, c, v) \/ OpenAyah(e, c, v)
    BY <1>2
  <2>2. CASE OpenAyah(e, c, v)
    BY <2>2, OpenAyahStep
  <2>3. CASE CreateBookmark(e, c, v) \/ CreateFavorite(e, c, v)
    BY <2>3, AskCreateStep DEF CreateBookmark, CreateFavorite, Saved
  <2> QED BY <2>1, <2>2, <2>3
<1>3. CASE \E e \in Editor, i \in RowId, c \in Chapter \union {Absent}, v \in VerseNumber \union {Absent} :
             UpdateBookmark(e, i, c, v) \/ UpdateFavorite(e, i, c, v)
  BY <1>3, AskUpdateStep DEF UpdateBookmark, UpdateFavorite, Saved
<1>4. CASE \E e \in Editor : Notify(e) \/ FindOwnedActive(e) \/ UpdateOwned(e) \/ EditFails(e)
  BY <1>4, NotifyStep, FindStep, UpdateStep, EditFailsStep
<1>5. CASE \E e \in Editor, i \in RowId : InsertRow(e, i) \/ CommitOpened(e, i)
  BY <1>5, InsertStep, CommitStep
<1>6. CASE \E i \in RowId : SoftDeleteOwned(i) \/ DeleteOwned(i) \/ MarkNotificationRead(i)
  BY <1>6, RemoveStep, MarkReadStep DEF SoftDeleteOwned, DeleteOwned, MarkNotificationRead, Saved
<1>7. CASE MarkAllNotificationsRead
  BY <1>7, MarkReadStep DEF MarkAllNotificationsRead
<1>8. CASE \E f \in Filter : StartListing(f)
  BY <1>8, StartListingStep
<1>9. CASE ListBookmarks \/ ListFavorites \/ ListNotifications \/ GetRecent \/ GetHistory
  BY <1>9, TurnStep DEF ListBookmarks, ListFavorites, ListNotifications, GetRecent, GetHistory
<1>10. CASE TimePasses
  BY <1>10, ListsTimeStep
<1> QED BY <1>1, <1>2, <1>3, <1>4, <1>5, <1>6, <1>7, <1>8, <1>9, <1>10 DEF ListsNext

LEMMA ListsAlwaysSound == ListsSpec => []ListsInv
BY ListsInitInv, ListsStep, PTL DEF ListsSpec

LEMMA TurnedTellsAll ==
  ASSUME ListsInv
  PROVE  PagesTellAll
<1>1. ASSUME NEW i \in page.stayed, NEW times,
             times = Cardinality({n \in DOMAIN page.shown : page.shown[n] = i})
      PROVE  times <= 1 /\ (page.pc = "end" => times = 1)
  <2>1. Turned(i)
    BY DEF ListsInv, AllTurned
  <2>2. Once(page.shown, i) \/ (Nowhere(page.shown, i) /\ page.pc # "end")
    <3>1. page.pc \in {"idle", "turning", "end"}
      BY DEF ListsInv, ListsTypes
    <3> QED BY <2>1, <3>1 DEF Turned
  <2>3. CASE Once(page.shown, i)
    <3>1. PICK n \in DOMAIN page.shown : \A m \in DOMAIN page.shown : page.shown[m] = i <=> m = n
      BY <2>3 DEF Once
    <3>2. {m \in DOMAIN page.shown : page.shown[m] = i} = {n}
      BY <3>1
    <3> QED BY <1>1, <3>2, FS_Singleton
  <2>4. CASE Nowhere(page.shown, i) /\ page.pc # "end"
    <3>1. {m \in DOMAIN page.shown : page.shown[m] = i} = {}
      BY <2>4 DEF Nowhere
    <3> QED BY <1>1, <2>4, <3>1, FS_EmptySet
  <2> QED BY <2>2, <2>3, <2>4
<1> QED BY <1>1 DEF PagesTellAll

(* Turning the pages of any list, of any length and with pages of any      *)
(* size, shows every row that stayed in its place exactly once, whatever   *)
(* requests add, change, move and remove others meanwhile.                 *)
THEOREM EveryPageTellsAll == ListsSpec => []PagesTellAll
BY ListsAlwaysSound, TurnedTellsAll, PTL

(* However many changes of chapter and verse overlap, and whatever fails,  *)
(* a bookmark or favorite is at a verse of the Quran.                      *)
THEOREM SavedAyahsAreReal == ListsSpec => []SavedAyahsExist
<1>1. ListsInv => SavedAyahsExist
  BY DEF ListsInv
<1> QED BY <1>1, ListsAlwaysSound, PTL

(* However many opens overlap, the continue pointer is never one that was  *)
(* committed before another, recorded, open began.                         *)
THEOREM ThePointerIsRecent == ListsSpec => []ContinueIsRecent
<1>1. ListsInv => ContinueIsRecent
  BY DEF ListsInv
<1> QED BY <1>1, ListsAlwaysSound, PTL

(* Rows, requests and pages of the user's lists keep to their types.       *)
THEOREM ListsTypeCorrect == ListsSpec => []ListsTypeOK
<1>1. ListsInv => ListsTypeOK
  BY DEF ListsInv, ListsTypes
<1> QED BY <1>1, ListsAlwaysSound, PTL

----------------------------------------------------------------------------
(* Every part keeps to its types, whichever of them a behaviour is of. *)
THEOREM PartsTypeCorrect == MCSpec => []PartsTypeOK
<1>1. MCInit => PrefInit /\ ListsInit
  BY DEF MCInit
<1>2. [MCNext]_allVars => [PrefNext]_prefVars /\ [ListsNext]_listVars
  BY DEF MCNext, allVars
<1>3. MCSpec => PrefSpec /\ ListsSpec
  BY <1>1, <1>2, PTL DEF MCSpec, PrefSpec, ListsSpec
<1>4. PrefTypeOK /\ ListsTypeOK => PartsTypeOK
  BY DEF PartsTypeOK
<1>5. MCSpec => []PrefTypeOK /\ []ListsTypeOK
  BY <1>3, PrefTypeCorrect, ListsTypeCorrect
<1> QED BY <1>4, <1>5, PTL
=============================================================================
