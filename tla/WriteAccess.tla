----------------------------- MODULE WriteAccess -----------------------------
(***************************************************************************)
(* May the bot write to a user?  Each login from the Mini App or the panel *)
(* and each command of the bot brings the user's row up to date from what  *)
(* Telegram says of him.  A login may leave it open whether the bot may    *)
(* write to him: then the row keeps what it says, which is read in one     *)
(* statement and written back in the next.  The other fields of the row    *)
(* are left out.                                                           *)
(***************************************************************************)
EXTENDS Integers

CONSTANTS
  Visit,     \* logins and commands being handled
  MaxVisits  \* bound on the logins and commands

ASSUME AccessAssumption == MaxVisits \in Nat

VARIABLES
  profile,   \* the user's row
  visit,     \* what Telegram says in each visit, and what the visit has found
  visits,    \* visits so far
  lastWord,  \* what Telegram has last said, of what was written
  overtaken  \* that was written while a visit that left it open was under way

accessVars == <<profile, visit, visits, lastWord, overtaken>>

Says == {"yes", "no", "open"}
NoVisit == [pc |-> "idle", says |-> "open", found |-> FALSE]

AccessTypeOK ==
  /\ profile \in [exists: BOOLEAN, allowsWriteToPm: BOOLEAN]
  /\ visit \in [Visit -> [pc: {"idle", "upsert"}, says: Says, found: BOOLEAN]]
  /\ visits \in 0..MaxVisits
  /\ lastWord \in Says /\ overtaken \in BOOLEAN

AccessInit ==
  /\ profile = [exists |-> FALSE, allowsWriteToPm |-> FALSE]
  /\ visit = [v \in Visit |-> NoVisit]
  /\ visits = 0
  /\ lastWord = "open" /\ overtaken = FALSE

FindByTelegramId(v, says) ==
  /\ visit[v].pc = "idle"
  /\ visits < MaxVisits /\ visits' = visits + 1
  /\ visit' = [visit EXCEPT ![v] = [pc |-> "upsert", says |-> says, found |-> profile.allowsWriteToPm]]
  /\ UNCHANGED <<profile, lastWord, overtaken>>

LoginWithInitData(v, says) == FindByTelegramId(v, says)

\* who writes to the bot lets it write to him
BotCommand(v) == FindByTelegramId(v, "yes")

\* mutant: what is left open is taken for a refusal
AllowedIfSaid(v) == visit[v].says = "yes"

\* a row that is created has nothing to keep
Allowed(v) == visit[v].says = "yes" \/ (visit[v].says = "open" /\ profile.exists /\ visit[v].found)

UpsertFromInitData(v) ==
  /\ visit[v].pc = "upsert"
  /\ profile' = [exists |-> TRUE, allowsWriteToPm |-> Allowed(v)]
  /\ visit' = [visit EXCEPT ![v] = NoVisit]
  /\ IF visit[v].says = "open" THEN UNCHANGED <<lastWord, overtaken>>
     ELSE /\ lastWord' = visit[v].says
          /\ overtaken' = \E x \in Visit \ {v} : visit[x].pc = "upsert" /\ visit[x].says = "open"
  /\ UNCHANGED visits

VisitFails(v) ==
  /\ visit[v].pc = "upsert"
  /\ visit' = [visit EXCEPT ![v] = NoVisit]
  /\ UNCHANGED <<profile, visits, lastWord, overtaken>>

AccessNext ==
  \E v \in Visit :
    \/ \E says \in Says : LoginWithInitData(v, says)
    \/ BotCommand(v) \/ UpsertFromInitData(v) \/ VisitFails(v)

AccessSpec == AccessInit /\ [][AccessNext]_accessVars

----------------------------------------------------------------------------
(* The bot may write to the user when Telegram's last word was that it     *)
(* may, unless a login that leaves it open had read the row before: then   *)
(* that login may clear it, which the documentation says no login does     *)
(* that is not told to.                                                    *)
AccessIsAsTold == overtaken \/ (profile.allowsWriteToPm <=> lastWord = "yes")
=============================================================================
