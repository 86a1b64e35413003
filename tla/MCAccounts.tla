----------------------------- MODULE MCAccounts -----------------------------
(***************************************************************************)
(* How a user is met: the sessions of the application, the bot, and the    *)
(* row that both keep of him.  None reads the state of another in these    *)
(* models, so that a behaviour here is one of one of them.                 *)
(***************************************************************************)
EXTENDS AuthSessions, TelegramBot, WriteAccess

VARIABLE which  \* the part that is being checked

MCInit ==
  /\ which \in {"sessions", "bot", "access"}
  /\ Init /\ BotInit /\ AccessInit

MCNext ==
  /\ UNCHANGED which
  /\ \/ which = "sessions" /\ Next /\ UNCHANGED <<botVars, accessVars>>
     \/ which = "bot" /\ BotNext /\ UNCHANGED <<vars, accessVars>>
     \/ which = "access" /\ AccessNext /\ UNCHANGED <<vars, botVars>>

MCSpec ==
  /\ MCInit /\ [][MCNext]_<<vars, botVars, accessVars, which>>
  /\ \A h \in Handler : WF_<<vars, which>>(which = "sessions" /\ HandlerStep(h) /\ UNCHANGED which)
=============================================================================
