----------------------------- MODULE TelegramBot -----------------------------
(***************************************************************************)
(* The bot: Telegram posts an update to the webhook until it is answered   *)
(* with success, and each post is a request that runs the command in the   *)
(* update step by step.  A request that exceeds its time is answered with  *)
(* an error while its steps go on, so that an update may be handled twice  *)
(* at once.  One user writes to the bot, and switches his reminders on in  *)
(* the application.  The accounts, the events that are tracked and the     *)
(* contents of the messages are left out.                                  *)
(***************************************************************************)
EXTENDS Integers

CONSTANTS
  Update,     \* updates
  NoUpdate,   \* what an idle request holds
  BotRequest, \* requests of the webhook being handled
  MaxTries,   \* times Telegram posts an update again
  MaxLosses   \* bound on the answers that are lost

ASSUME BotAssumption == NoUpdate \notin Update /\ MaxTries \in Nat /\ MaxLosses \in Nat

VARIABLES
  update,     \* what each update is, and whether Telegram still has it
  request,    \* where each request is
  effects,    \* what the handling of each update has brought about
  replies,    \* messages the chat got for each update
  losses,     \* answers that were lost, in the handling of each update
  reminders,  \* the two switches of the reminders
  told,       \* stops the user had read of when he switched the reminders on again
  registered  \* Telegram has the secret of the webhook

botVars == <<update, request, effects, replies, losses, reminders, told, registered>>

Command == {"start", "stop", "bugun", "open"}
Button == {"button", "unknown"}
Kind == Command \union Button \union {"other"}
Effect == {"account", "settings", "preference", "message", "alert"}
BotPc == {"idle", "account", "settings", "preference", "card", "sendCard", "send",
          "answer", "alert", "ack", "failed"}

\* it is from a person, rather than from a channel or a bot
Post == [kind: Kind, person: BOOLEAN, state: {"none", "pending", "posted", "done", "dropped"},
         tries: 0..MaxTries]
NoPost == [kind |-> "other", person |-> FALSE, state |-> "none", tries |-> 0]
NoRequest == [pc |-> "idle", update |-> NoUpdate, open |-> FALSE]

BotTypeOK ==
  /\ update \in [Update -> Post]
  /\ request \in [BotRequest -> [pc: BotPc, update: Update \union {NoUpdate}, open: BOOLEAN]]
  /\ effects \in [Update -> SUBSET Effect]
  /\ replies \in [Update -> Nat] /\ losses \in [Update -> 0..MaxLosses]
  /\ reminders \in [settings: BOOLEAN, preference: BOOLEAN]
  /\ told \subseteq Update /\ registered \in BOOLEAN

BotInit ==
  /\ update = [u \in Update |-> NoPost]
  /\ request = [r \in BotRequest |-> NoRequest]
  /\ effects = [u \in Update |-> {}]
  /\ replies = [u \in Update |-> 0] /\ losses = [u \in Update |-> 0]
  /\ reminders = [settings |-> TRUE, preference |-> TRUE]
  /\ told = {}
  /\ registered = TRUE

RequestAt(r, pc) == request[r].pc = pc
Handled(r) == request[r].update

----------------------------------------------------------------------------
(* What a command does, one step after the other. *)

TurnsOff(u) == update[u].kind = "stop" /\ update[u].person
SendsCard(u) == update[u].kind = "bugun" /\ update[u].person

\* commands and buttons that are known; anything else is ignored
FirstStep(u) ==
  CASE update[u].kind \in Command -> "account"
    [] update[u].kind = "button" -> "answer"
    [] update[u].kind = "unknown" -> "alert"
    [] OTHER -> "ack"

\* mutant: /stop answers first, and then turns the reminders off
TellsFirst(pc, u) ==
  CASE pc = "send" /\ TurnsOff(u) -> "settings"
    [] pc = "settings" -> "preference"
    [] pc = "account" /\ SendsCard(u) -> "card"
    [] pc = "card" -> "sendCard"
    [] (pc = "account" /\ ~SendsCard(u)) \/ pc = "answer" -> "send"
    [] OTHER -> "ack"

Follows(pc, u) ==
  CASE pc = "account" /\ TurnsOff(u) -> "settings"
    [] pc = "settings" -> "preference"
    [] pc = "account" /\ SendsCard(u) -> "card"
    [] pc = "card" -> "sendCard"
    [] (pc = "account" /\ ~TurnsOff(u) /\ ~SendsCard(u)) \/ pc \in {"preference", "answer"} -> "send"
    [] OTHER -> "ack"

\* mutant: a message that could not be sent is only logged
OnErrorLog(pc, u) ==
  CASE pc \in {"card", "sendCard"} -> "send"
    [] pc \in {"answer", "send"} /\ update[u].kind = "button" -> "alert"
    [] pc = "send" /\ update[u].kind # "button" -> "ack"
    [] OTHER -> "failed"

\* a card has a message without it to fall back on, a button an alert
OnError(pc, u) ==
  CASE pc \in {"card", "sendCard"} -> "send"
    [] pc \in {"answer", "send"} /\ update[u].kind = "button" -> "alert"
    [] OTHER -> "failed"

Succeeds(r) == request' = [request EXCEPT ![r].pc = Follows(@, Handled(r))]
Errs(r) == request' = [request EXCEPT ![r].pc = OnError(@, Handled(r))]
Brings(r, effect) == effects' = [effects EXCEPT ![Handled(r)] = @ \union {effect}]

----------------------------------------------------------------------------
(* Telegram and the webhook. *)

Arrive(u, kind, person) ==
  /\ update[u].state = "none"
  /\ update' = [update EXCEPT ![u] = [NoPost EXCEPT !.kind = kind, !.person = person, !.state = "pending"]]
  /\ UNCHANGED <<request, effects, replies, losses, reminders, told, registered>>

\* posted again later, until it has been posted often enough
BackToTelegram(post) ==
  IF post.tries < MaxTries THEN [post EXCEPT !.state = "pending", !.tries = @ + 1]
  ELSE [post EXCEPT !.state = "dropped"]

\* the guard refuses what does not come with the secret
Refuse(u) ==
  /\ update[u].state = "pending" /\ ~registered
  /\ update' = [update EXCEPT ![u] = BackToTelegram(@)]
  /\ UNCHANGED <<request, effects, replies, losses, reminders, told, registered>>

Dispatch(r, u) ==
  /\ RequestAt(r, "idle")
  /\ update[u].state = "pending" /\ registered
  /\ update' = [update EXCEPT ![u].state = "posted"]
  /\ request' = [request EXCEPT ![r] = [pc |-> FirstStep(u), update |-> u, open |-> TRUE]]
  /\ UNCHANGED <<effects, replies, losses, reminders, told, registered>>

Loses(u) == losses[u] < MaxLosses /\ losses' = [losses EXCEPT ![u] = @ + 1]

\* success, if Telegram still waits for it and hears of it, ends the matter
Acknowledge(r, heard) ==
  LET u == Handled(r) IN
  /\ request[r].pc \in {"ack", "failed"}
  /\ heard => request[r].open
  /\ update' = IF heard /\ RequestAt(r, "ack") THEN [update EXCEPT ![u].state = "done"]
               ELSE IF request[r].open THEN [update EXCEPT ![u] = BackToTelegram(@)] ELSE update
  /\ IF request[r].open /\ ~heard THEN Loses(u) ELSE UNCHANGED losses
  /\ request' = [request EXCEPT ![r] = NoRequest]
  /\ UNCHANGED <<effects, replies, reminders, told, registered>>

\* the answer is an error, and the steps go on
TimeoutIntercepts(r) ==
  LET u == Handled(r) IN
  /\ ~RequestAt(r, "idle") /\ request[r].open
  /\ request' = [request EXCEPT ![r].open = FALSE]
  /\ update' = [update EXCEPT ![u] = BackToTelegram(@)]
  /\ Loses(u)
  /\ UNCHANGED <<effects, replies, reminders, told, registered>>

(* The process is started again, which may come with another secret.  It   *)
(* registers the webhook before it takes requests, if it is configured to  *)
(* and Telegram can be reached; updates that wait may be dropped by that.  *)
Restart(rotated, registers, drops) ==
  LET cut == {Handled(r) : r \in {x \in BotRequest : ~RequestAt(x, "idle")}}
      after(u) == IF update[u].state = "posted" THEN BackToTelegram(update[u]) ELSE update[u]
  IN
  /\ \A u \in cut : losses[u] < MaxLosses
  /\ losses' = [u \in Update |-> IF u \in cut THEN losses[u] + 1 ELSE losses[u]]
  /\ request' = [r \in BotRequest |-> NoRequest]
  /\ registered' = (registers \/ (registered /\ ~rotated))
  /\ update' = [u \in Update |-> IF registers /\ drops /\ after(u).state = "pending"
                                THEN [after(u) EXCEPT !.state = "dropped"] ELSE after(u)]
  /\ UNCHANGED <<effects, replies, reminders, told>>

----------------------------------------------------------------------------
(* The steps. *)

UpsertSender(r) ==
  /\ RequestAt(r, "account")
  /\ Succeeds(r)
  /\ IF update[Handled(r)].person THEN Brings(r, "account") ELSE UNCHANGED effects
  /\ UNCHANGED <<update, replies, losses, reminders, told, registered>>

DisableInSettings(r) ==
  /\ RequestAt(r, "settings")
  /\ Succeeds(r) /\ Brings(r, "settings")
  /\ reminders' = [reminders EXCEPT !.settings = FALSE]
  /\ UNCHANGED <<update, replies, losses, told, registered>>

DisablePreference(r) ==
  /\ RequestAt(r, "preference")
  /\ Succeeds(r) /\ Brings(r, "preference")
  /\ reminders' = [reminders EXCEPT !.preference = FALSE]
  /\ UNCHANGED <<update, replies, losses, told, registered>>

BuildCard(r) ==
  /\ RequestAt(r, "card")
  /\ Succeeds(r)
  /\ UNCHANGED <<update, effects, replies, losses, reminders, told, registered>>

\* a statement fails, or the contents of the card cannot be had
StepFails(r) ==
  /\ request[r].pc \in {"account", "settings", "preference", "card"}
  /\ Errs(r)
  /\ UNCHANGED <<update, effects, replies, losses, reminders, told, registered>>

\* a call that Telegram serves may still end in a timeout
CallTelegram(r, served, answered) ==
  /\ answered => served
  /\ IF answered THEN Succeeds(r) ELSE Errs(r)
  /\ IF served /\ ~answered THEN Loses(Handled(r)) ELSE UNCHANGED losses
  /\ UNCHANGED <<update, reminders, told, registered>>

SendMessage(r, served, answered) ==
  /\ request[r].pc \in {"sendCard", "send"}
  /\ CallTelegram(r, served, answered)
  /\ replies' = [replies EXCEPT ![Handled(r)] = @ + IF served THEN 1 ELSE 0]
  /\ IF served THEN Brings(r, "message") ELSE UNCHANGED effects

\* an empty answer, or one that says that something went wrong
AnswerCallbackQuery(r, served, answered) ==
  /\ request[r].pc \in {"answer", "alert"}
  /\ CallTelegram(r, served, answered)
  /\ IF served /\ RequestAt(r, "alert") THEN Brings(r, "alert") ELSE UNCHANGED effects
  /\ UNCHANGED replies

SwitchOn ==
  /\ reminders' = [settings |-> TRUE, preference |-> TRUE]
  /\ told' = told \union {u \in Update : TurnsOff(u) /\ "message" \in effects[u]}
  /\ UNCHANGED <<update, request, effects, replies, losses, registered>>

BotStep(r) ==
  \/ UpsertSender(r) \/ DisableInSettings(r) \/ DisablePreference(r) \/ BuildCard(r) \/ StepFails(r)
  \/ \E served, answered \in BOOLEAN :
       SendMessage(r, served, answered) \/ AnswerCallbackQuery(r, served, answered)
  \/ \E heard \in BOOLEAN : Acknowledge(r, heard)

BotNext ==
  \/ \E u \in Update, kind \in Kind, person \in BOOLEAN : Arrive(u, kind, person)
  \/ \E u \in Update : Refuse(u) \/ \E r \in BotRequest : Dispatch(r, u)
  \/ \E r \in BotRequest : BotStep(r) \/ TimeoutIntercepts(r)
  \/ \E rotated, registers, drops \in BOOLEAN : Restart(rotated, registers, drops)
  \/ SwitchOn

BotSpec == BotInit /\ [][BotNext]_botVars

----------------------------------------------------------------------------
\* what an update that was acknowledged has brought about
Owed(u) ==
  CASE update[u].kind = "other" -> {}
    [] update[u].kind = "unknown" -> {"alert"}
    [] update[u].kind = "button" -> IF "alert" \in effects[u] THEN {} ELSE {"message"}
    [] TurnsOff(u) -> {"account", "settings", "preference", "message"}
    [] OTHER -> {"message"} \union IF update[u].person THEN {"account"} ELSE {}

(* Telegram is told that an update was handled only when all it asks for   *)
(* was done, in one attempt or in several; and the chat gets a second      *)
(* message only when an answer was lost: the one to the call that sends    *)
(* it, or the one to Telegram's request, which came late or not at all.    *)
EachUpdateIsServed ==
  \A u \in Update :
    /\ update[u].state = "done" => Owed(u) \subseteq effects[u]
    /\ replies[u] <= 1 + losses[u]

(* A /stop the user had been told of when he switched his reminders on     *)
(* again does not turn them off once more, unless an answer was lost.      *)
ToldStopsAreOver ==
  \A r \in BotRequest :
    request[r].pc \in {"settings", "preference"} /\ Handled(r) \in told => losses[Handled(r)] > 0
=============================================================================
