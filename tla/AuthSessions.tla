---------------------------- MODULE AuthSessions ----------------------------
(***************************************************************************)
(* Login sessions: Telegram login, refresh-token rotation, logout, and the *)
(* administrator's ban and deactivation, which revoke a user's sessions.   *)
(* The user app and the admin panel share accounts, sessions and refresh   *)
(* tokens.  Each action is one database statement of a handler, or the     *)
(* signing of a token, so that requests of one user interleave.            *)
(***************************************************************************)
EXTENDS Integers, FiniteSets

CONSTANTS
  User,        \* the users
  Session,     \* session identifiers a login may draw
  Handler,     \* requests being handled
  NoToken,     \* a handler that has no token yet
  MaxClock,    \* bound on the clock, in seconds
  RefreshAge,  \* seconds a refresh token and its session live
  AccessAge,   \* seconds an access token lives
  MaxRequests  \* bound on the requests

ASSUME SessionsAssumption ==
  /\ User # {} /\ Session # {}
  /\ IsFiniteSet(Session)
  /\ MaxClock \in Nat /\ MaxRequests \in Nat
  /\ RefreshAge \in Nat \ {0} /\ AccessAge \in Nat \ {0}

VARIABLES
  clock,
  account,    \* User rows: isActive (and deletedAt), isBanned
  admins,     \* users with an Admin row
  session,    \* UserSession rows
  handler,    \* where each request is
  cookies,    \* refresh tokens that reached a client, or whoever copied one
  spent,      \* tokens exchanged for one of a later second
  exchanges,  \* how often a session's token was so exchanged
  replayed,   \* spent tokens presented and not yet answered
  loose,      \* was the user's last revocation cut short, or a login under way?
  requests

vars == <<clock, account, admins, session, handler, cookies, spent, exchanges,
          replayed, loose, requests>>
history == <<spent, exchanges, replayed>>

Time == 0..MaxClock

\* sub, sid, iat and role: a signed token is a function of these
Token == [user: User, sid: Session, iat: Time, admin: BOOLEAN]
Account == [active: BOOLEAN, banned: BOOLEAN]
Row == [state: {"absent", "live", "revoked"}, user: User, hash: Token \union {NoToken},
        expiresAt: 0..MaxClock + RefreshAge]

(* The next statement of a login or refresh, of an administrator's request, *)
(* or the revocation that a handler ends with.                              *)
Pc == {"idle", "findAdmin", "signLogin", "create", "findUser", "signRefresh",
       "rotate", "answer", "revoke", "revokeAll", "addAdmin"}
Slot == [pc: Pc, user: User, sid: Session, panel: BOOLEAN,
         old: Token \union {NoToken}, new: Token \union {NoToken}]

AnyUser == CHOOSE u \in User : TRUE
AnySession == CHOOSE s \in Session : TRUE
IdleSlot == [pc |-> "idle", user |-> AnyUser, sid |-> AnySession, panel |-> FALSE,
             old |-> NoToken, new |-> NoToken]
NoRow == [state |-> "absent", user |-> AnyUser, hash |-> NoToken, expiresAt |-> 0]

TypeOK ==
  /\ clock \in Time
  /\ account \in [User -> Account]
  /\ admins \subseteq User
  /\ session \in [Session -> Row]
  /\ handler \in [Handler -> Slot]
  /\ cookies \subseteq Token /\ spent \subseteq Token /\ replayed \subseteq Token
  /\ exchanges \in [Session -> Nat]
  /\ loose \in [User -> BOOLEAN]
  /\ requests \in 0..MaxRequests

Init ==
  /\ clock = 0
  /\ account = [u \in User |-> [active |-> TRUE, banned |-> FALSE]]
  /\ admins \in SUBSET User
  /\ session = [s \in Session |-> NoRow]
  /\ handler = [h \in Handler |-> IdleSlot]
  /\ cookies = {} /\ spent = {} /\ replayed = {}
  /\ exchanges = [s \in Session |-> 0]
  /\ loose = [u \in User |-> FALSE]
  /\ requests = 0

----------------------------------------------------------------------------
At(h, pc) == handler[h].pc = pc
Goto(h, pc) == handler' = [handler EXCEPT ![h].pc = pc]
Done(h) == handler' = [handler EXCEPT ![h] = IdleSlot]
Begin(h, slot) ==
  /\ At(h, "idle")
  /\ requests < MaxRequests /\ requests' = requests + 1
  /\ handler' = [handler EXCEPT ![h] = slot]

Sign(u, s, admin) == [user |-> u, sid |-> s, iat |-> clock, admin |-> admin]
\* mutant: the session outlives its refresh token
LaterExpiry == clock + RefreshAge + AccessAge
Expiry == clock + RefreshAge
Live(s) == session[s].state = "live"
LoginsOf(u) ==
  {h \in Handler : handler[h].pc \in {"findAdmin", "signLogin", "create"} /\ handler[h].user = u}

----------------------------------------------------------------------------
(* Login, from the app or from the admin panel. *)

\* mutant: a banned user logs in
LoginUnchecked(h, u, panel) ==
  /\ account' = [account EXCEPT ![u].active = TRUE]
  /\ Begin(h, [IdleSlot EXCEPT !.pc = IF panel THEN "findAdmin" ELSE "signLogin",
                               !.user = u, !.panel = panel])
  /\ UNCHANGED <<clock, admins, session, cookies, history, loose>>

LoginWithTelegram(h, u, panel) ==
  /\ account' = [account EXCEPT ![u].active = TRUE]
  /\ Begin(h, IF account[u].banned THEN IdleSlot
              ELSE [IdleSlot EXCEPT !.pc = IF panel THEN "findAdmin" ELSE "signLogin",
                                    !.user = u, !.panel = panel])
  /\ UNCHANGED <<clock, admins, session, cookies, history, loose>>

FindAdmin(h) ==
  /\ At(h, "findAdmin")
  /\ IF handler[h].user \in admins THEN Goto(h, "signLogin") ELSE Done(h)
  /\ UNCHANGED <<clock, account, admins, session, cookies, history, loose, requests>>

\* randomUUID: an identifier no session or login has
SignLogin(h, s) ==
  /\ At(h, "signLogin")
  /\ session[s].state = "absent"
  /\ \A g \in Handler : At(g, "create") => handler[g].sid # s
  /\ handler' = [handler EXCEPT ![h].pc = "create", ![h].sid = s,
                                ![h].new = Sign(handler[h].user, s, handler[h].panel)]
  /\ UNCHANGED <<clock, account, admins, session, cookies, history, loose, requests>>

CreateSession(h) ==
  LET r == handler[h] IN
  /\ At(h, "create")
  /\ session' = [session EXCEPT ![r.sid] = [state |-> "live", user |-> r.user, hash |-> r.new,
                                            expiresAt |-> Expiry]]
  /\ Goto(h, "answer")
  /\ UNCHANGED <<clock, account, admins, cookies, history, loose, requests>>

----------------------------------------------------------------------------
(* Refresh: any token that has reached a client may be presented, spent or *)
(* not.  One whose signature has expired is refused before any statement.  *)

\* mutant: a stale token is refused and its session left alone
RefreshRefusing(h, t, panel) ==
  LET row == session[t.sid] IN
  /\ t \in cookies
  /\ clock < t.iat + RefreshAge
  /\ Begin(h, [IdleSlot EXCEPT
       !.pc = IF Live(t.sid) /\ clock < row.expiresAt /\ row.hash = t THEN "findUser" ELSE "idle",
       !.user = row.user, !.sid = t.sid, !.panel = panel, !.old = t])
  /\ replayed' = IF t \in spent THEN replayed \union {t} ELSE replayed
  /\ UNCHANGED <<clock, account, admins, session, cookies, spent, exchanges, loose>>

Refresh(h, t, panel) ==
  LET row == session[t.sid] IN
  /\ t \in cookies
  /\ clock < t.iat + RefreshAge
  /\ Begin(h, [IdleSlot EXCEPT
       !.pc = IF Live(t.sid) /\ clock < row.expiresAt /\ row.hash = t THEN "findUser" ELSE "revoke",
       !.user = row.user, !.sid = t.sid, !.panel = panel, !.old = t])
  /\ replayed' = IF t \in spent THEN replayed \union {t} ELSE replayed
  /\ UNCHANGED <<clock, account, admins, session, cookies, spent, exchanges, loose>>

FindUser(h) ==
  LET a == account[handler[h].user] IN
  /\ At(h, "findUser")
  /\ \/ ~a.active /\ Done(h)
     \/ a.active /\ Goto(h, IF a.banned THEN "revoke" ELSE "signRefresh")
  /\ UNCHANGED <<clock, account, admins, session, cookies, history, loose, requests>>

\* the admin role is read, and the panel refuses a user without one
SignRefresh(h) ==
  LET r == handler[h]
      admin == r.user \in admins
  IN
  /\ At(h, "signRefresh")
  /\ IF r.panel /\ ~admin THEN Goto(h, "revoke")
     ELSE handler' = [handler EXCEPT ![h].pc = "rotate", ![h].new = Sign(r.user, r.sid, admin)]
  /\ UNCHANGED <<clock, account, admins, session, cookies, history, loose, requests>>

\* mutants: the rotation checks only one of the two
CanRotateLive(r) == Live(r.sid)
CanRotateHash(r) == session[r.sid].hash = r.old
CanRotate(r) == Live(r.sid) /\ session[r.sid].hash = r.old

RotateIfHashMatches(h) ==
  LET r == handler[h] IN
  /\ At(h, "rotate")
  /\ CanRotate(r)
  /\ session' = [session EXCEPT ![r.sid].hash = r.new, ![r.sid].expiresAt = Expiry]
  /\ Goto(h, "answer")
  /\ IF r.new.iat > r.old.iat
     THEN /\ spent' = spent \union {r.old}
          /\ exchanges' = [exchanges EXCEPT ![r.sid] = @ + 1]
     ELSE UNCHANGED <<spent, exchanges>>
  /\ UNCHANGED <<clock, account, admins, cookies, replayed, loose, requests>>

RotateRefused(h) ==
  /\ At(h, "rotate")
  /\ ~CanRotate(handler[h])
  /\ Goto(h, "revoke")
  /\ UNCHANGED <<clock, account, admins, session, cookies, history, loose, requests>>

\* the cookie of a login or a refresh reaches the client
Answer(h) ==
  /\ At(h, "answer")
  /\ cookies' = cookies \union {handler[h].new}
  /\ Done(h)
  /\ UNCHANGED <<clock, account, admins, session, history, loose, requests>>

\* revoke reads first and leaves a revoked session alone, to the same effect
Revoke(h) ==
  LET s == handler[h].sid IN
  /\ At(h, "revoke")
  /\ session' = [session EXCEPT ![s].state = "revoked"]
  /\ replayed' = replayed \ {handler[h].old}
  /\ Done(h)
  /\ UNCHANGED <<clock, account, admins, cookies, spent, exchanges, loose, requests>>

\* an access token is issued beside each refresh token; validate reads the user
AccessValid(t) ==
  /\ clock < t.iat + AccessAge
  /\ account[t.user].active /\ ~account[t.user].banned

Logout(h, t) ==
  /\ t \in cookies
  /\ AccessValid(t)
  /\ Begin(h, [IdleSlot EXCEPT !.pc = "revoke", !.user = t.user, !.sid = t.sid])
  /\ UNCHANGED <<clock, account, admins, session, cookies, history, loose>>

----------------------------------------------------------------------------
(* Administration. *)

Ban(h, u) ==
  /\ account' = [account EXCEPT ![u].banned = TRUE]
  /\ Begin(h, [IdleSlot EXCEPT !.pc = "revokeAll", !.user = u])
  /\ UNCHANGED <<clock, admins, session, cookies, history, loose>>

Deactivate(h, u) ==
  /\ account' = [account EXCEPT ![u].active = FALSE]
  /\ Begin(h, [IdleSlot EXCEPT !.pc = "revokeAll", !.user = u])
  /\ UNCHANGED <<clock, admins, session, cookies, history, loose>>

RevokeAllForUser(h) ==
  LET u == handler[h].user IN
  /\ At(h, "revokeAll")
  /\ session' = [s \in Session |->
       IF Live(s) /\ session[s].user = u THEN [session[s] EXCEPT !.state = "revoked"]
       ELSE session[s]]
  /\ loose' = [loose EXCEPT ![u] = LoginsOf(u) # {}]
  /\ Done(h)
  /\ UNCHANGED <<clock, account, admins, cookies, history, requests>>

Unban(u) ==
  /\ account[u].banned
  /\ account' = [account EXCEPT ![u].banned = FALSE]
  /\ UNCHANGED <<clock, admins, session, handler, cookies, history, loose, requests>>

\* the user is read, then the row created: a unique index refuses a second
AddAdmin(h, u) ==
  /\ account[u].active /\ ~account[u].banned
  /\ Begin(h, [IdleSlot EXCEPT !.pc = "addAdmin", !.user = u])
  /\ UNCHANGED <<clock, account, admins, session, cookies, history, loose>>

CreateAdmin(h) ==
  /\ At(h, "addAdmin")
  /\ admins' = admins \union {handler[h].user}
  /\ Done(h)
  /\ UNCHANGED <<clock, account, session, cookies, history, loose, requests>>

RemoveAdmin(u) ==
  /\ u \in admins
  /\ admins' = admins \ {u}
  /\ UNCHANGED <<clock, account, session, handler, cookies, history, loose, requests>>

(* A handler dies, or a statement of it fails, between any two steps.      *)
Fail(h) ==
  /\ ~At(h, "idle")
  /\ loose' = [loose EXCEPT ![handler[h].user] = @ \/ At(h, "revokeAll")]
  /\ replayed' = replayed \ {handler[h].old}
  /\ Done(h)
  /\ UNCHANGED <<clock, account, admins, session, cookies, spent, exchanges, requests>>

Tick ==
  /\ clock < MaxClock
  /\ clock' = clock + 1
  /\ UNCHANGED <<account, admins, session, handler, cookies, history, loose, requests>>

----------------------------------------------------------------------------
RequestStep(h) ==
  \/ \E u \in User :
       \/ \E panel \in BOOLEAN : LoginWithTelegram(h, u, panel)
       \/ Ban(h, u) \/ Deactivate(h, u) \/ AddAdmin(h, u)
  \/ \E t \in cookies :
       \/ \E panel \in BOOLEAN : Refresh(h, t, panel)
       \/ Logout(h, t)

HandlerStep(h) ==
  \/ FindAdmin(h) \/ (\E s \in Session : SignLogin(h, s)) \/ CreateSession(h)
  \/ FindUser(h) \/ SignRefresh(h) \/ RotateIfHashMatches(h) \/ RotateRefused(h)
  \/ Answer(h) \/ Revoke(h) \/ RevokeAllForUser(h) \/ CreateAdmin(h)

Next ==
  \/ \E h \in Handler : RequestStep(h) \/ HandlerStep(h) \/ Fail(h)
  \/ \E u \in User : Unban(u) \/ RemoveAdmin(u)
  \/ Tick

Spec == Init /\ [][Next]_vars

----------------------------------------------------------------------------
(* A refresh token that was exchanged for one of a later second never      *)
(* again opens its session, whatever refreshes run at once and whatever    *)
(* roles come and go.                                                      *)
SpentIsNeverCurrent == \A t \in spent : session[t.sid].hash # t

(* Each token buys at most one later token: two refreshes that present the *)
(* same one cannot both be served.                                         *)
OneExchangePerToken ==
  \A s \in Session : exchanges[s] = Cardinality({t \in spent : t.sid = s})

(* A banned user holds no live session once the ban is through, unless the *)
(* ban was cut short or a login had passed its check before.               *)
BanEndsSessions ==
  \A u \in User :
    /\ account[u].banned /\ ~loose[u]
    /\ \A h \in Handler : ~(At(h, "revokeAll") /\ handler[h].user = u)
    => \A s \in Session : ~(Live(s) /\ session[s].user = u)

(* Whoever presents a spent token ends the session, unless his request     *)
(* fails on the way.                                                       *)
ReuseRevokes ==
  \A s \in Session :
    (\E t \in replayed : t.sid = s) ~>
      session[s].state = "revoked" \/ \A t \in replayed : t.sid # s

(* A session is a lineage: opened once, advancing only while it is live,   *)
(* one generation for each token exchanged, and dead for good.             *)
Phase(s) ==
  CASE session[s].state = "absent" -> "absent"
    [] session[s].state = "live" -> "live"
    [] session[s].state = "revoked" -> "dead"
Lineage == INSTANCE SessionLineage WITH phase <- [s \in Session |-> Phase(s)], gen <- exchanges
LineageSpec == Lineage!LineageSpec
============================================================================
