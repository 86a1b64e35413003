------------------------- MODULE AuthSessionsProofs -------------------------
(***************************************************************************)
(* Proofs about AuthSessions, for every set of users, sessions and         *)
(* requests and every value of the bounds.                                 *)
(***************************************************************************)
EXTENDS AuthSessions, FiniteSetTheorems, TLAPS

(* The strengthening.  What a request carries fits where it stands: the    *)
(* token presented and the token signed belong to its session, the signed  *)
(* one is not earlier and none is from the future, and the session exists  *)
(* exactly when the request says so.                                       *)
Presented == {"findUser", "signRefresh", "rotate"}
Signed == {"create", "rotate", "answer"}
Opened == {"findUser", "signRefresh", "rotate", "answer", "revoke"}

OldSound(r) == r.pc \in Presented => r.old \in Token /\ r.old.sid = r.sid /\ r.old.iat <= clock
NewSound(r) == r.pc \in Signed => r.new \in Token /\ r.new.sid = r.sid /\ r.new.iat <= clock
SlotSound(r) ==
  /\ OldSound(r)
  /\ NewSound(r)
  /\ r.pc = "rotate" => r.old.iat <= r.new.iat
  /\ r.pc \in Opened => session[r.sid].state # "absent"
  /\ r.pc = "create" => session[r.sid].state = "absent"

HandlersSound ==
  /\ \A h \in Handler : SlotSound(handler[h])
  /\ \A g, h \in Handler :
       At(g, "create") /\ At(h, "create") /\ handler[g].sid = handler[h].sid => g = h

CookiesSound == \A t \in cookies : t.iat <= clock /\ session[t.sid].state # "absent"

\* a spent token is older than the one its session now holds
SpentSound ==
  \A t \in spent : session[t.sid].state # "absent" /\ t.iat < session[t.sid].hash.iat

Counted == IsFiniteSet(spent) /\ OneExchangePerToken

IInv == TypeOK /\ HandlersSound /\ CookiesSound /\ SpentSound /\ Counted

LEMMA IdleSlotType == IdleSlot \in Slot /\ NoRow \in Row
<1>1. AnyUser \in User /\ AnySession \in Session
  BY SessionsAssumption DEF AnyUser, AnySession
<1>2. 0 \in 0..MaxClock + RefreshAge
  BY SessionsAssumption
<1>3. QED
  BY <1>1, <1>2 DEF IdleSlot, Slot, Pc, NoRow, Row

LEMMA InitType == Init => TypeOK
BY IdleSlotType, SessionsAssumption DEF Init, TypeOK, Account, Time

LEMMA SignType ==
  ASSUME TypeOK, NEW u \in User, NEW s \in Session, NEW b \in BOOLEAN
  PROVE  Sign(u, s, b) \in Token /\ Sign(u, s, b).sid = s /\ Sign(u, s, b).iat = clock
BY DEF Sign, Token, TypeOK

LEMMA ExpiryType ==
  ASSUME TypeOK
  PROVE  Expiry \in 0..MaxClock + RefreshAge
BY SessionsAssumption DEF Expiry, TypeOK, Time

LEMMA BeginType ==
  ASSUME TypeOK, NEW h \in Handler, NEW slot \in Slot, Begin(h, slot)
  PROVE  handler' \in [Handler -> Slot] /\ requests' \in 0..MaxRequests
BY SessionsAssumption DEF Begin, TypeOK

LEMMA GotoType ==
  ASSUME TypeOK, NEW h \in Handler, NEW pc \in Pc, Goto(h, pc)
  PROVE  handler' \in [Handler -> Slot]
BY DEF Goto, TypeOK, Slot

LEMMA DoneType ==
  ASSUME TypeOK, NEW h \in Handler, Done(h)
  PROVE  handler' \in [Handler -> Slot]
BY IdleSlotType DEF Done, TypeOK

LEMMA SlotFacts ==
  ASSUME TypeOK, NEW h \in Handler
  PROVE  /\ handler[h] \in Slot /\ handler[h].user \in User /\ handler[h].sid \in Session
         /\ handler[h].old \in Token \union {NoToken} /\ handler[h].new \in Token \union {NoToken}
         /\ handler[h].panel \in BOOLEAN
BY DEF TypeOK, Slot

LEMMA RequestType ==
  ASSUME TypeOK, NEW h \in Handler, RequestStep(h)
  PROVE  TypeOK'
<1>1. ASSUME NEW u \in User, NEW panel \in BOOLEAN, LoginWithTelegram(h, u, panel)
      PROVE  TypeOK'
  <2> DEFINE slot == IF account[u].banned THEN IdleSlot
                     ELSE [IdleSlot EXCEPT !.pc = IF panel THEN "findAdmin" ELSE "signLogin",
                                           !.user = u, !.panel = panel]
  <2>1. slot \in Slot
    BY IdleSlotType DEF Slot, Pc
  <2>2. handler' \in [Handler -> Slot] /\ requests' \in 0..MaxRequests
    BY <1>1, <2>1, BeginType DEF LoginWithTelegram
  <2>3. account' \in [User -> Account]
    BY <1>1 DEF LoginWithTelegram, TypeOK, Account
  <2>4. QED
    BY <1>1, <2>2, <2>3 DEF LoginWithTelegram, TypeOK, history
<1>2. ASSUME NEW u \in User, Ban(h, u) \/ Deactivate(h, u)
      PROVE  TypeOK'
  <2>1. [IdleSlot EXCEPT !.pc = "revokeAll", !.user = u] \in Slot
    BY IdleSlotType DEF Slot, Pc
  <2>2. handler' \in [Handler -> Slot] /\ requests' \in 0..MaxRequests
    BY <1>2, <2>1, BeginType DEF Ban, Deactivate
  <2>3. account' \in [User -> Account]
    BY <1>2 DEF Ban, Deactivate, TypeOK, Account
  <2>4. QED
    BY <1>2, <2>2, <2>3 DEF Ban, Deactivate, TypeOK, history
<1>3. ASSUME NEW u \in User, AddAdmin(h, u)
      PROVE  TypeOK'
  <2>1. [IdleSlot EXCEPT !.pc = "addAdmin", !.user = u] \in Slot
    BY IdleSlotType DEF Slot, Pc
  <2>2. handler' \in [Handler -> Slot] /\ requests' \in 0..MaxRequests
    BY <1>3, <2>1, BeginType DEF AddAdmin
  <2>3. QED
    BY <1>3, <2>2 DEF AddAdmin, TypeOK, history
<1>4. ASSUME NEW t \in cookies, NEW panel \in BOOLEAN, Refresh(h, t, panel)
      PROVE  TypeOK'
  <2>1. t \in Token /\ t.sid \in Session /\ session[t.sid].user \in User
    BY DEF TypeOK, Token, Row
  <2>2. \A pc \in Pc : [IdleSlot EXCEPT !.pc = pc, !.user = session[t.sid].user, !.sid = t.sid,
                                        !.panel = panel, !.old = t] \in Slot
    BY <2>1, IdleSlotType DEF Slot
  <2>3. handler' \in [Handler -> Slot] /\ requests' \in 0..MaxRequests
    <3> DEFINE pc == IF Live(t.sid) /\ clock < session[t.sid].expiresAt /\ session[t.sid].hash = t
                     THEN "findUser" ELSE "revoke"
    <3>1. pc \in Pc
      BY DEF Pc
    <3>2. Begin(h, [IdleSlot EXCEPT !.pc = pc, !.user = session[t.sid].user, !.sid = t.sid,
                                    !.panel = panel, !.old = t])
      BY <1>4 DEF Refresh
    <3> HIDE DEF pc
    <3>3. QED
      BY <2>2, <3>1, <3>2, BeginType
  <2>4. replayed' \subseteq Token
    BY <1>4, <2>1 DEF Refresh, TypeOK
  <2>5. QED
    BY <1>4, <2>3, <2>4 DEF Refresh, TypeOK
<1>5. ASSUME NEW t \in cookies, Logout(h, t)
      PROVE  TypeOK'
  <2>1. t.user \in User /\ t.sid \in Session
    BY DEF TypeOK, Token
  <2>2. [IdleSlot EXCEPT !.pc = "revoke", !.user = t.user, !.sid = t.sid] \in Slot
    BY <2>1, IdleSlotType DEF Slot, Pc
  <2>3. handler' \in [Handler -> Slot] /\ requests' \in 0..MaxRequests
    BY <1>5, <2>2, BeginType DEF Logout
  <2>4. QED
    BY <1>5, <2>3 DEF Logout, TypeOK, history
<1>6. QED
  BY <1>1, <1>2, <1>3, <1>4, <1>5 DEF RequestStep

(* A handler's own steps change only its slot, and its slot as they say.   *)
LEMMA SlotOf ==
  ASSUME TypeOK, NEW h \in Handler
  PROVE  /\ \A pc \in Pc : Goto(h, pc) =>
              /\ \A g \in Handler \ {h} : handler'[g] = handler[g]
              /\ handler'[h] = [handler[h] EXCEPT !.pc = pc]
         /\ Done(h) =>
              /\ \A g \in Handler \ {h} : handler'[g] = handler[g]
              /\ handler'[h] = IdleSlot
         /\ \A slot : Begin(h, slot) =>
              /\ \A g \in Handler \ {h} : handler'[g] = handler[g]
              /\ handler'[h] = slot
BY DEF Goto, Done, Begin, TypeOK

LEMMA LoginType ==
  ASSUME TypeOK, NEW h \in Handler,
         FindAdmin(h) \/ (\E s \in Session : SignLogin(h, s)) \/ CreateSession(h)
  PROVE  TypeOK'
<1>1. CASE FindAdmin(h)
  <2>1. handler' \in [Handler -> Slot]
    BY <1>1, GotoType, DoneType DEF FindAdmin, Pc
  <2>2. QED
    BY <1>1, <2>1 DEF FindAdmin, TypeOK, history
<1>2. CASE \E s \in Session : SignLogin(h, s)
  <2>1. PICK s \in Session : SignLogin(h, s)
    BY <1>2
  <2>2. Sign(handler[h].user, s, handler[h].panel) \in Token
    BY SlotFacts, SignType
  <2> HIDE DEF Sign
  <2>3. handler' \in [Handler -> Slot]
    <3>1. [handler[h] EXCEPT !.pc = "create", !.sid = s,
                             !.new = Sign(handler[h].user, s, handler[h].panel)] \in Slot
      BY <2>2, SlotFacts DEF Slot, Pc
    <3>2. handler' = [handler EXCEPT ![h] =
            [handler[h] EXCEPT !.pc = "create", !.sid = s,
                               !.new = Sign(handler[h].user, s, handler[h].panel)]]
      BY <2>1, SlotFacts DEF SignLogin, TypeOK, Slot
    <3>3. QED
      BY <3>1, <3>2 DEF TypeOK
  <2>4. QED
    BY <2>1, <2>3 DEF SignLogin, TypeOK, history
<1>3. CASE CreateSession(h)
  <2>1. [state |-> "live", user |-> handler[h].user, hash |-> handler[h].new,
         expiresAt |-> Expiry] \in Row
    BY SlotFacts, ExpiryType DEF Row
  <2>2. session' \in [Session -> Row]
    BY <1>3, <2>1 DEF CreateSession, TypeOK
  <2>3. handler' \in [Handler -> Slot]
    BY <1>3, GotoType DEF CreateSession, Pc
  <2>4. QED
    BY <1>3, <2>2, <2>3 DEF CreateSession, TypeOK, history
<1>4. QED
  BY <1>1, <1>2, <1>3

LEMMA RowEdits ==
  ASSUME NEW r \in Row
  PROVE  /\ [r EXCEPT !.state = "revoked"] \in Row
         /\ \A x \in Token \union {NoToken}, e \in 0..MaxClock + RefreshAge :
              [r EXCEPT !.hash = x, !.expiresAt = e] \in Row
BY DEF Row

LEMMA RotationType ==
  ASSUME TypeOK, NEW h \in Handler, SlotSound(handler[h]),
         FindUser(h) \/ SignRefresh(h) \/ RotateIfHashMatches(h) \/ RotateRefused(h)
  PROVE  TypeOK'
<1>1. CASE FindUser(h)
  <2>1. handler' \in [Handler -> Slot]
    <3>1. CASE Done(h)
      BY <3>1, DoneType
    <3>2. CASE Goto(h, "revoke") \/ Goto(h, "signRefresh")
      BY <3>2, GotoType DEF Pc
    <3>3. QED
      BY <1>1, <3>1, <3>2 DEF FindUser
  <2>2. QED
    BY <1>1, <2>1 DEF FindUser, TypeOK, history
<1>2. CASE SignRefresh(h)
  <2> DEFINE b == handler[h].user \in admins
             new == Sign(handler[h].user, handler[h].sid, b)
  <2>1. new \in Token
    <3> HIDE DEF b
    <3>1. b \in BOOLEAN
      BY DEF b
    <3>2. QED
      BY <3>1, SlotFacts, SignType
  <2>2. handler' \in [Handler -> Slot]
    <3>1. CASE Goto(h, "revoke")
      BY <3>1, GotoType DEF Pc
    <3>2. CASE handler' = [handler EXCEPT ![h].pc = "rotate", ![h].new = new]
      <4> HIDE DEF new
      <4>1. [handler[h] EXCEPT !.pc = "rotate", !.new = new] \in Slot
        BY <2>1, SlotFacts DEF Slot, Pc
      <4>2. handler' = [handler EXCEPT ![h] = [handler[h] EXCEPT !.pc = "rotate", !.new = new]]
        BY <3>2, SlotFacts DEF TypeOK, Slot
      <4>3. QED
        BY <4>1, <4>2 DEF TypeOK
    <3>3. QED
      BY <1>2, <3>1, <3>2 DEF SignRefresh
  <2>3. QED
    BY <1>2, <2>2 DEF SignRefresh, TypeOK, history
<1>3. CASE RotateIfHashMatches(h)
  <2>1. session' \in [Session -> Row]
    <3>1. [session[handler[h].sid] EXCEPT !.hash = handler[h].new, !.expiresAt = Expiry] \in Row
      <4>1. session[handler[h].sid] \in Row
        BY SlotFacts DEF TypeOK
      <4>2. QED
        BY <4>1, SlotFacts, ExpiryType, RowEdits
    <3>2. session' = [session EXCEPT ![handler[h].sid] =
            [session[handler[h].sid] EXCEPT !.hash = handler[h].new, !.expiresAt = Expiry]]
      BY <1>3, SlotFacts DEF RotateIfHashMatches, TypeOK, Row
    <3>3. QED
      BY <3>1, <3>2, SlotFacts DEF TypeOK
  <2>2. handler' \in [Handler -> Slot]
    BY <1>3, GotoType DEF RotateIfHashMatches, Pc
  <2>3. spent' \subseteq Token
    <3>1. handler[h].old \in Token
      BY <1>3 DEF RotateIfHashMatches, At, SlotSound, OldSound, Presented
    <3>2. QED
      BY <1>3, <3>1 DEF RotateIfHashMatches, TypeOK
  <2>4. exchanges' \in [Session -> Nat]
    BY <1>3 DEF RotateIfHashMatches, TypeOK
  <2>5. QED
    BY <1>3, <2>1, <2>2, <2>3, <2>4 DEF RotateIfHashMatches, TypeOK
<1>4. CASE RotateRefused(h)
  <2>1. handler' \in [Handler -> Slot]
    BY <1>4, GotoType DEF RotateRefused, Pc
  <2>2. QED
    BY <1>4, <2>1 DEF RotateRefused, TypeOK, history
<1>5. QED
  BY <1>1, <1>2, <1>3, <1>4

LEMMA ClosingType ==
  ASSUME TypeOK, NEW h \in Handler, SlotSound(handler[h]),
         Answer(h) \/ Revoke(h) \/ RevokeAllForUser(h) \/ CreateAdmin(h) \/ Fail(h)
  PROVE  TypeOK'
<1>0. handler' \in [Handler -> Slot]
  BY DoneType DEF Answer, Revoke, RevokeAllForUser, CreateAdmin, Fail
<1>1. CASE Answer(h)
  <2>1. handler[h].new \in Token
    BY <1>1 DEF Answer, At, SlotSound, NewSound, Signed
  <2>2. QED
    BY <1>0, <1>1, <2>1 DEF Answer, TypeOK, history
<1>2. CASE Revoke(h)
  <2>1. session' \in [Session -> Row]
    <3>1. session' = [session EXCEPT ![handler[h].sid] =
                        [session[handler[h].sid] EXCEPT !.state = "revoked"]]
      BY <1>2 DEF Revoke
    <3>2. QED
      BY <3>1, SlotFacts, RowEdits DEF TypeOK
  <2>2. QED
    BY <1>0, <1>2, <2>1 DEF Revoke, TypeOK
<1>3. CASE RevokeAllForUser(h)
  <2>1. \A s \in Session : [session[s] EXCEPT !.state = "revoked"] \in Row
    BY DEF TypeOK, Row
  <2>2. session' \in [Session -> Row]
    BY <1>3, <2>1 DEF RevokeAllForUser, TypeOK
  <2>3. loose' \in [User -> BOOLEAN]
    BY <1>3 DEF RevokeAllForUser, TypeOK
  <2>4. QED
    BY <1>0, <1>3, <2>2, <2>3 DEF RevokeAllForUser, TypeOK, history
<1>4. CASE CreateAdmin(h)
  BY <1>0, <1>4, SlotFacts DEF CreateAdmin, TypeOK, history
<1>5. CASE Fail(h)
  <2>1. loose' \in [User -> BOOLEAN]
    BY <1>5 DEF Fail, TypeOK
  <2>2. QED
    BY <1>0, <1>5, <2>1 DEF Fail, TypeOK
<1>6. QED
  BY <1>1, <1>2, <1>3, <1>4, <1>5

LEMMA QuietType ==
  ASSUME TypeOK, Tick \/ (\E u \in User : Unban(u) \/ RemoveAdmin(u)) \/ UNCHANGED vars
  PROVE  TypeOK'
<1>1. CASE Tick
  BY <1>1, SessionsAssumption DEF Tick, TypeOK, Time, history
<1>2. CASE \E u \in User : Unban(u) \/ RemoveAdmin(u)
  BY <1>2 DEF Unban, RemoveAdmin, TypeOK, Account, history
<1>3. CASE UNCHANGED vars
  BY <1>3 DEF vars, TypeOK
<1>4. QED
  BY <1>1, <1>2, <1>3

LEMMA TypeStep ==
  ASSUME TypeOK, HandlersSound, [Next]_vars
  PROVE  TypeOK'
<1>1. ASSUME NEW h \in Handler, RequestStep(h) \/ HandlerStep(h) \/ Fail(h)
      PROVE  TypeOK'
  <2>1. SlotSound(handler[h])
    BY DEF HandlersSound
  <2>2. QED
    BY <1>1, <2>1, RequestType, LoginType, RotationType, ClosingType DEF HandlerStep
<1>2. QED
  BY <1>1, QuietType DEF Next

----------------------------------------------------------------------------
(* The invariant is kept by every step.                                    *)

(* A step of h that opens no session disturbs no other request and no      *)
(* cookie.                                                                 *)
LEMMA Frame ==
  ASSUME IInv, NEW h \in Handler,
         \A g \in Handler \ {h} : handler'[g] = handler[g],
         clock' = clock,
         \A s \in Session : session'[s].state = "absent" <=> session[s].state = "absent",
         SlotSound(handler[h])',
         handler'[h].pc # "create",
         \A t \in cookies' : t \in Token /\ t.iat <= clock /\ session[t.sid].state # "absent"
  PROVE  HandlersSound' /\ CookiesSound'
<1>1. ASSUME NEW g \in Handler
      PROVE  SlotSound(handler[g])'
  <2>1. CASE g = h
    BY <2>1
  <2>2. CASE g # h
    <3>1. SlotSound(handler[g]) /\ handler'[g] = handler[g] /\ handler[g].sid \in Session
      BY <2>2, SlotFacts DEF IInv, HandlersSound
    <3>2. QED
      BY <3>1 DEF SlotSound, OldSound, NewSound
  <2>3. QED
    BY <2>1, <2>2
<1>2. \A f, g \in Handler :
        At(f, "create")' /\ At(g, "create")' /\ handler'[f].sid = handler'[g].sid => f = g
  BY DEF IInv, HandlersSound, At
<1>3. CookiesSound'
  BY DEF CookiesSound, Token
<1>4. QED
  BY <1>1, <1>2, <1>3 DEF HandlersSound

LEMMA SpentKept ==
  ASSUME IInv, spent' = spent, exchanges' = exchanges,
         \A s \in Session : session[s].state # "absent" =>
           session'[s].state # "absent" /\ session'[s].hash = session[s].hash
  PROVE  SpentSound' /\ Counted'
<1>1. \A t \in spent : t.sid \in Session
  BY DEF IInv, TypeOK, Token
<1>2. SpentSound'
  BY <1>1 DEF IInv, SpentSound
<1>3. Counted'
  BY DEF IInv, Counted, OneExchangePerToken
<1>4. QED
  BY <1>2, <1>3

LEMMA IdleSound == IdleSlot.pc = "idle" /\ SlotSound(IdleSlot) /\ SlotSound(IdleSlot)'
BY DEF IdleSlot, SlotSound, OldSound, NewSound, Presented, Signed, Opened

LEMMA RequestKeeps ==
  ASSUME IInv, NEW h \in Handler, RequestStep(h)
  PROVE  HandlersSound' /\ CookiesSound' /\ SpentSound' /\ Counted'
<1>0. /\ clock' = clock /\ session' = session /\ cookies' = cookies /\ spent' = spent
      /\ exchanges' = exchanges
  BY DEF RequestStep, LoginWithTelegram, Ban, Deactivate, AddAdmin, Refresh, Logout, history
<1>1. SpentSound' /\ Counted'
  BY <1>0, SpentKept
<1>2. \A t \in cookies : t \in Token /\ t.iat <= clock /\ session[t.sid].state # "absent"
  BY DEF IInv, TypeOK, CookiesSound
<1>3. SUFFICES ASSUME NEW slot, Begin(h, slot), SlotSound(slot), slot.pc # "create"
               PROVE  HandlersSound' /\ CookiesSound'
  <2>1. ASSUME NEW u \in User, NEW panel \in BOOLEAN, LoginWithTelegram(h, u, panel)
        PROVE  HandlersSound' /\ CookiesSound'
    <3> DEFINE slot == IF account[u].banned THEN IdleSlot
                       ELSE [IdleSlot EXCEPT !.pc = IF panel THEN "findAdmin" ELSE "signLogin",
                                             !.user = u, !.panel = panel]
    <3>1. SlotSound(slot) /\ slot.pc # "create"
      BY DEF IdleSlot, SlotSound, OldSound, NewSound, Presented, Signed, Opened
    <3>2. Begin(h, slot)
      BY <2>1 DEF LoginWithTelegram
    <3> HIDE DEF slot
    <3>3. QED
      BY <1>3, <3>1, <3>2
  <2>2. ASSUME NEW u \in User, Ban(h, u) \/ Deactivate(h, u) \/ AddAdmin(h, u)
        PROVE  HandlersSound' /\ CookiesSound'
    <3>1. \A pc \in {"revokeAll", "addAdmin"} :
            LET slot == [IdleSlot EXCEPT !.pc = pc, !.user = u]
            IN  SlotSound(slot) /\ slot.pc # "create"
      BY DEF IdleSlot, SlotSound, OldSound, NewSound, Presented, Signed, Opened
    <3>2. \E pc \in {"revokeAll", "addAdmin"} : Begin(h, [IdleSlot EXCEPT !.pc = pc, !.user = u])
      BY <2>2 DEF Ban, Deactivate, AddAdmin
    <3>3. QED
      BY <1>3, <3>1, <3>2
  <2>3. ASSUME NEW t \in cookies, NEW panel \in BOOLEAN, Refresh(h, t, panel)
        PROVE  HandlersSound' /\ CookiesSound'
    <3> DEFINE pc == IF Live(t.sid) /\ clock < session[t.sid].expiresAt /\ session[t.sid].hash = t
                     THEN "findUser" ELSE "revoke"
               slot == [IdleSlot EXCEPT !.pc = pc, !.user = session[t.sid].user, !.sid = t.sid,
                                        !.panel = panel, !.old = t]
    <3>1. SlotSound(slot) /\ slot.pc # "create"
      <4>1. slot.pc = pc /\ slot.sid = t.sid /\ slot.old = t
        BY DEF IdleSlot
      <4>2. pc \in {"findUser", "revoke"}
        OBVIOUS
      <4> HIDE DEF slot, pc
      <4>3. QED
        BY <1>2, <4>1, <4>2 DEF SlotSound, OldSound, NewSound, Presented, Signed, Opened
    <3>2. Begin(h, slot)
      BY <2>3 DEF Refresh
    <3> HIDE DEF slot
    <3>3. QED
      BY <1>3, <3>1, <3>2
  <2>4. ASSUME NEW t \in cookies, Logout(h, t)
        PROVE  HandlersSound' /\ CookiesSound'
    <3> DEFINE slot == [IdleSlot EXCEPT !.pc = "revoke", !.user = t.user, !.sid = t.sid]
    <3>1. SlotSound(slot) /\ slot.pc # "create"
      <4>1. slot.pc = "revoke" /\ slot.sid = t.sid
        BY DEF IdleSlot
      <4> HIDE DEF slot
      <4>2. QED
        BY <1>2, <4>1 DEF SlotSound, OldSound, NewSound, Presented, Signed, Opened
    <3>2. Begin(h, slot)
      BY <2>4 DEF Logout
    <3> HIDE DEF slot
    <3>3. QED
      BY <1>3, <3>1, <3>2
  <2>5. QED
    BY <1>1, <2>1, <2>2, <2>3, <2>4 DEF RequestStep
<1>4. handler'[h] = slot /\ \A g \in Handler \ {h} : handler'[g] = handler[g]
  BY <1>3, SlotOf DEF IInv
<1>5. SlotSound(handler[h])'
  BY <1>0, <1>3, <1>4 DEF SlotSound, OldSound, NewSound
<1>6. QED
  BY <1>0, <1>2, <1>3, <1>4, <1>5, Frame

LEMMA CookieFacts ==
  ASSUME IInv
  PROVE  \A t \in cookies : t \in Token /\ t.iat <= clock /\ session[t.sid].state # "absent"
BY DEF IInv, TypeOK, CookiesSound

(* A step to a pc at which nothing new is asked of the slot.               *)
LEMMA GotoKeeps ==
  ASSUME IInv, NEW h \in Handler, NEW pc \in {"signLogin", "signRefresh", "revoke", "answer"},
         \/ pc = "signLogin"
         \/ pc = "signRefresh" /\ At(h, "findUser")
         \/ pc = "revoke" /\ handler[h].pc \in Opened
         \/ pc = "answer" /\ At(h, "rotate"),
         Goto(h, pc), clock' = clock, cookies' = cookies,
         \A s \in Session : session'[s].state = "absent" <=> session[s].state = "absent"
  PROVE  HandlersSound' /\ CookiesSound'
<1>1. pc \in Pc
  BY DEF Pc
<1>2. handler'[h] = [handler[h] EXCEPT !.pc = pc] /\ \A g \in Handler \ {h} : handler'[g] = handler[g]
  BY <1>1, SlotOf DEF IInv
<1>3. /\ handler'[h].pc = pc /\ handler'[h].sid = handler[h].sid
      /\ handler'[h].old = handler[h].old /\ handler'[h].new = handler[h].new
  BY <1>2, SlotFacts DEF IInv, Slot
<1>4. SlotSound(handler[h]) /\ handler[h].sid \in Session
  BY SlotFacts DEF IInv, HandlersSound
<1>5. SlotSound(handler[h])'
  BY <1>3, <1>4 DEF SlotSound, OldSound, NewSound, Presented, Signed, Opened, At
<1>6. QED
  BY <1>2, <1>3, <1>5, CookieFacts, Frame

LEMMA DoneKeeps ==
  ASSUME IInv, NEW h \in Handler, Done(h), clock' = clock,
         \A t \in cookies' : t \in Token /\ t.iat <= clock /\ session[t.sid].state # "absent",
         \A s \in Session : session'[s].state = "absent" <=> session[s].state = "absent"
  PROVE  HandlersSound' /\ CookiesSound'
<1>1. handler'[h] = IdleSlot /\ \A g \in Handler \ {h} : handler'[g] = handler[g]
  BY SlotOf DEF IInv
<1>2. SlotSound(handler[h])' /\ handler'[h].pc # "create"
  BY <1>1, IdleSound DEF SlotSound, OldSound, NewSound, IdleSlot, Presented, Signed, Opened
<1>3. QED
  BY <1>1, <1>2, Frame

LEMMA SignLoginKeeps ==
  ASSUME IInv, NEW h \in Handler, NEW s \in Session, SignLogin(h, s)
  PROVE  HandlersSound' /\ CookiesSound'
<1> DEFINE new == Sign(handler[h].user, s, handler[h].panel)
<1>1. new \in Token /\ new.sid = s /\ new.iat = clock /\ clock \in Int
  BY SlotFacts, SignType DEF IInv, TypeOK, Time
<1>2. /\ handler'[h] = [handler[h] EXCEPT !.pc = "create", !.sid = s, !.new = new]
      /\ \A g \in Handler \ {h} : handler'[g] = handler[g]
      /\ clock' = clock /\ session' = session /\ cookies' = cookies
  <2> HIDE DEF new
  <2>1. handler' = [handler EXCEPT ![h] = [handler[h] EXCEPT !.pc = "create", !.sid = s, !.new = new]]
    BY SlotFacts DEF SignLogin, IInv, TypeOK, Slot, new
  <2>2. QED
    BY <2>1 DEF SignLogin, IInv, TypeOK
<1> HIDE DEF new
<1>3. handler'[h].pc = "create" /\ handler'[h].sid = s /\ handler'[h].new = new
  BY <1>2, SlotFacts DEF IInv, Slot
<1>4. SlotSound(handler[h])'
  BY <1>1, <1>2, <1>3
  DEF SignLogin, SlotSound, OldSound, NewSound, Presented, Signed, Opened
<1>5. ASSUME NEW g \in Handler \ {h}
      PROVE  SlotSound(handler[g])'
  <2>1. SlotSound(handler[g])
    BY DEF IInv, HandlersSound
  <2>2. QED
    BY <1>2, <2>1 DEF SlotSound, OldSound, NewSound
<1>6. ASSUME NEW f \in Handler, NEW g \in Handler, At(f, "create")', At(g, "create")',
             handler'[f].sid = handler'[g].sid
      PROVE  f = g
  <2>1. \A i \in Handler \ {h} : handler[i].pc = "create" => handler[i].sid # s
    BY DEF SignLogin, At
  <2>2. CASE f = h \/ g = h
    BY <1>2, <1>3, <1>6, <2>1, <2>2 DEF At
  <2>3. CASE f # h /\ g # h
    <3>1. At(f, "create") /\ At(g, "create") /\ handler[f].sid = handler[g].sid
      BY <1>2, <1>6, <2>3 DEF At
    <3>2. QED
      BY <3>1 DEF IInv, HandlersSound
  <2>4. QED
    BY <2>2, <2>3
<1>7. CookiesSound'
  BY <1>2 DEF CookiesSound, IInv
<1>8. QED
  BY <1>4, <1>5, <1>6, <1>7 DEF HandlersSound

LEMMA CreateSessionKeeps ==
  ASSUME IInv, NEW h \in Handler, CreateSession(h)
  PROVE  HandlersSound' /\ CookiesSound' /\ SpentSound' /\ Counted'
<1> DEFINE sid == handler[h].sid
<1>1. /\ sid \in Session /\ session[sid].state = "absent"
      /\ SlotSound(handler[h]) /\ At(h, "create")
  BY SlotFacts DEF IInv, HandlersSound, SlotSound, CreateSession, At
<1>2. /\ clock' = clock /\ cookies' = cookies /\ spent' = spent /\ exchanges' = exchanges
      /\ session'[sid].state = "live"
      /\ \A s \in Session \ {sid} : session'[s] = session[s]
  BY <1>1 DEF CreateSession, IInv, TypeOK, history
<1>3. /\ handler'[h] = [handler[h] EXCEPT !.pc = "answer"]
      /\ \A g \in Handler \ {h} : handler'[g] = handler[g]
  BY SlotOf DEF CreateSession, Pc, IInv
<1>4. /\ handler'[h].pc = "answer" /\ handler'[h].sid = sid /\ handler'[h].new = handler[h].new
  BY <1>3, SlotFacts DEF IInv, Slot
<1>5. SlotSound(handler[h])'
  BY <1>1, <1>2, <1>4 DEF SlotSound, OldSound, NewSound, Presented, Signed, Opened, At
<1>6. ASSUME NEW g \in Handler \ {h}
      PROVE  SlotSound(handler[g])'
  <2>1. SlotSound(handler[g]) /\ handler[g].sid \in Session
    BY SlotFacts DEF IInv, HandlersSound
  <2>2. handler[g].pc = "create" => handler[g].sid # sid
    BY <1>1 DEF IInv, HandlersSound, At
  <2>3. QED
    BY <1>1, <1>2, <1>3, <2>1, <2>2 DEF SlotSound, OldSound, NewSound
<1>7. ASSUME NEW f \in Handler, NEW g \in Handler, At(f, "create")', At(g, "create")',
             handler'[f].sid = handler'[g].sid
      PROVE  f = g
  <2>1. f # h /\ g # h
    BY <1>4, <1>7 DEF At
  <2>2. At(f, "create") /\ At(g, "create") /\ handler[f].sid = handler[g].sid
    BY <1>3, <1>7, <2>1 DEF At
  <2>3. QED
    BY <2>2 DEF IInv, HandlersSound
<1>8. CookiesSound'
  <2>1. \A t \in cookies : t.sid \in Session /\ t.sid # sid
    BY <1>1, CookieFacts DEF Token
  <2>2. QED
    BY <1>2, <2>1 DEF CookiesSound, IInv
<1>9. SpentSound' /\ Counted'
  BY <1>1, <1>2, SpentKept
<1>10. QED
  BY <1>5, <1>6, <1>7, <1>8, <1>9 DEF HandlersSound

LEMMA SignRefreshKeeps ==
  ASSUME IInv, NEW h \in Handler, SignRefresh(h)
  PROVE  HandlersSound' /\ CookiesSound'
<1>0. clock' = clock /\ session' = session /\ cookies' = cookies /\ At(h, "signRefresh")
  BY DEF SignRefresh
<1>1. CASE Goto(h, "revoke")
  BY <1>0, <1>1, GotoKeeps DEF At, Opened
<1>2. CASE ~Goto(h, "revoke")
  <2> DEFINE b == handler[h].user \in admins
             new == Sign(handler[h].user, handler[h].sid, b)
  <2>1. new \in Token /\ new.sid = handler[h].sid /\ new.iat = clock /\ clock \in Int
    <3>1. b \in BOOLEAN
      OBVIOUS
    <3> HIDE DEF b
    <3>2. QED
      BY <3>1, SlotFacts, SignType DEF IInv, TypeOK, Time
  <2>2. handler' = [handler EXCEPT ![h].pc = "rotate", ![h].new = new]
    BY <1>2 DEF SignRefresh
  <2> HIDE DEF new
  <2>3. handler' = [handler EXCEPT ![h] = [handler[h] EXCEPT !.pc = "rotate", !.new = new]]
    BY <2>2, SlotFacts DEF IInv, TypeOK, Slot
  <2>4. /\ handler'[h] = [handler[h] EXCEPT !.pc = "rotate", !.new = new]
        /\ \A g \in Handler \ {h} : handler'[g] = handler[g]
    BY <2>3 DEF IInv, TypeOK
  <2>5. /\ handler'[h].pc = "rotate" /\ handler'[h].sid = handler[h].sid
        /\ handler'[h].old = handler[h].old /\ handler'[h].new = new
    BY <2>4, SlotFacts DEF IInv, Slot
  <2>6. SlotSound(handler[h])
    BY DEF IInv, HandlersSound
  <2>7. SlotSound(handler[h])'
    BY <1>0, <2>1, <2>5, <2>6 DEF SlotSound, OldSound, NewSound, Presented, Signed, Opened, At
  <2>8. QED
    BY <1>0, <2>4, <2>5, <2>7, CookieFacts, Frame
<1>3. QED
  BY <1>1, <1>2

(* The rotation's compare-and-set: the token replaced was current, hence   *)
(* not spent, and every spent one is older still.                          *)
LEMMA RotateKeeps ==
  ASSUME IInv, NEW h \in Handler, RotateIfHashMatches(h)
  PROVE  HandlersSound' /\ CookiesSound' /\ SpentSound' /\ Counted'
<1> DEFINE r == handler[h]
           sid == handler[h].sid
           old == handler[h].old
           new == handler[h].new
<1>1. /\ sid \in Session /\ old \in Token /\ new \in Token /\ old.sid = sid
      /\ old.iat \in Int /\ new.iat \in Int /\ old.iat <= new.iat
      /\ session[sid].state = "live" /\ session[sid].hash = old
  <2>1. SlotSound(handler[h]) /\ At(h, "rotate")
    BY DEF IInv, HandlersSound, RotateIfHashMatches
  <2>2. old \in Token /\ new \in Token /\ old.sid = sid /\ old.iat <= new.iat
    BY <2>1 DEF SlotSound, OldSound, NewSound, Presented, Signed, At
  <2>3. old.iat \in Int /\ new.iat \in Int
    BY <2>2 DEF Token, Time
  <2>4. QED
    BY <2>2, <2>3, SlotFacts DEF RotateIfHashMatches, CanRotate, Live, IInv
<1>2. /\ clock' = clock /\ cookies' = cookies
      /\ \A s \in Session \ {sid} : session'[s] = session[s]
      /\ session'[sid].state = "live" /\ session'[sid].hash = new
  <2>1. session' = [session EXCEPT ![sid] =
                      [session[sid] EXCEPT !.hash = new, !.expiresAt = Expiry]]
    BY <1>1 DEF RotateIfHashMatches, IInv, TypeOK, Row
  <2>2. session[sid] \in Row
    BY <1>1 DEF IInv, TypeOK
  <2>3. session'[sid] = [session[sid] EXCEPT !.hash = new, !.expiresAt = Expiry]
    BY <1>1, <2>1 DEF IInv, TypeOK
  <2>4. session'[sid].state = "live" /\ session'[sid].hash = new
    BY <1>1, <2>2, <2>3 DEF Row
  <2>5. QED
    BY <1>1, <2>1, <2>4 DEF RotateIfHashMatches, IInv, TypeOK
<1>3. HandlersSound' /\ CookiesSound'
  BY <1>1, <1>2, GotoKeeps DEF RotateIfHashMatches
<1>4. \A t \in spent :
        /\ t \in Token /\ t.sid \in Session /\ t.iat \in Int
        /\ session[t.sid].state # "absent" /\ t.iat < session[t.sid].hash.iat
  BY DEF IInv, TypeOK, SpentSound, Token, Time
<1>5. \A t \in spent : session'[t.sid].state # "absent" /\ t.iat < session'[t.sid].hash.iat
  <2> TAKE t \in spent
  <2>1. CASE t.sid = sid
    BY <1>1, <1>2, <1>4, <2>1
  <2>2. CASE t.sid # sid
    BY <1>2, <1>4, <2>2
  <2>3. QED
    BY <2>1, <2>2
<1>6. CASE new.iat > old.iat
  <2>1. /\ spent' = spent \union {old}
        /\ exchanges' = [exchanges EXCEPT ![sid] = @ + 1]
    BY <1>6 DEF RotateIfHashMatches
  <2>2. SpentSound'
    BY <1>1, <1>2, <1>5, <1>6, <2>1 DEF SpentSound
  <2>3. old \notin spent
    BY <1>1, <1>4
  <2>4. IsFiniteSet(spent')
    BY <2>1, FS_AddElement DEF IInv, Counted
  <2>5. ASSUME NEW s \in Session
        PROVE  exchanges'[s] = Cardinality({t \in spent' : t.sid = s})
    <3> DEFINE Mine == {t \in spent : t.sid = s}
    <3>1. IsFiniteSet(Mine) /\ exchanges[s] = Cardinality(Mine) /\ exchanges[s] \in Nat
      BY FS_Subset DEF IInv, Counted, OneExchangePerToken, TypeOK
    <3>2. CASE s = sid
      <4>1. {t \in spent' : t.sid = s} = Mine \union {old}
        BY <1>1, <2>1, <3>2
      <4>2. old \notin Mine
        BY <2>3
      <4> HIDE DEF Mine
      <4>3. Cardinality(Mine \union {old}) = Cardinality(Mine) + 1
        BY <3>1, <4>2, FS_AddElement
      <4>4. exchanges'[s] = exchanges[s] + 1
        BY <2>1, <3>2 DEF IInv, TypeOK
      <4>5. QED
        BY <3>1, <4>1, <4>3, <4>4
    <3>3. CASE s # sid
      <4>1. {t \in spent' : t.sid = s} = Mine
        BY <1>1, <2>1, <3>3
      <4>2. exchanges'[s] = exchanges[s]
        BY <2>1, <3>3 DEF IInv, TypeOK
      <4>3. QED
        BY <3>1, <4>1, <4>2
    <3>4. QED
      BY <3>2, <3>3
  <2>6. QED
    BY <1>3, <2>2, <2>4, <2>5 DEF Counted, OneExchangePerToken
<1>7. CASE ~(new.iat > old.iat)
  <2>1. spent' = spent /\ exchanges' = exchanges
    BY <1>7 DEF RotateIfHashMatches
  <2>2. SpentSound'
    BY <1>5, <2>1 DEF SpentSound
  <2>3. Counted'
    BY <2>1 DEF IInv, Counted, OneExchangePerToken
  <2>4. QED
    BY <1>3, <2>2, <2>3
<1>8. QED
  BY <1>6, <1>7

LEMMA EndingKeeps ==
  ASSUME IInv, NEW h \in Handler,
         Answer(h) \/ Revoke(h) \/ RevokeAllForUser(h) \/ CreateAdmin(h) \/ Fail(h)
  PROVE  HandlersSound' /\ CookiesSound' /\ SpentSound' /\ Counted'
<1>1. Done(h) /\ clock' = clock /\ spent' = spent /\ exchanges' = exchanges
  BY DEF Answer, Revoke, RevokeAllForUser, CreateAdmin, Fail, history
<1>2. SlotSound(handler[h]) /\ handler[h].sid \in Session
  BY SlotFacts DEF IInv, HandlersSound
<1>3. \A t \in cookies' : t \in Token /\ t.iat <= clock /\ session[t.sid].state # "absent"
  <2>1. CASE Answer(h)
    <3>1. handler[h].new \in Token /\ handler[h].new.iat <= clock
          /\ session[handler[h].new.sid].state # "absent"
      BY <1>2, <2>1 DEF Answer, At, SlotSound, NewSound, Signed, Opened
    <3>2. QED
      BY <2>1, <3>1, CookieFacts DEF Answer
  <2>2. CASE Revoke(h) \/ RevokeAllForUser(h) \/ CreateAdmin(h) \/ Fail(h)
    BY <2>2, CookieFacts DEF Revoke, RevokeAllForUser, CreateAdmin, Fail
  <2>3. QED
    BY <2>1, <2>2
<1>4. \A s \in Session :
        /\ session'[s].state = "absent" <=> session[s].state = "absent"
        /\ session'[s].hash = session[s].hash
  <2>1. CASE Revoke(h)
    <3>1. session[handler[h].sid].state # "absent"
      BY <1>2, <2>1 DEF Revoke, At, SlotSound, Opened
    <3>2. session' = [session EXCEPT ![handler[h].sid] =
                        [session[handler[h].sid] EXCEPT !.state = "revoked"]]
      BY <2>1 DEF Revoke
    <3>3. \A s \in Session : session[s] \in Row
      BY DEF IInv, TypeOK
    <3>4. session'[handler[h].sid].state = "revoked"
          /\ session'[handler[h].sid].hash = session[handler[h].sid].hash
      BY <1>2, <3>2, <3>3 DEF IInv, TypeOK, Row
    <3>5. \A s \in Session \ {handler[h].sid} : session'[s] = session[s]
      BY <3>2 DEF IInv, TypeOK
    <3>6. QED
      BY <3>1, <3>4, <3>5
  <2>2. CASE RevokeAllForUser(h)
    <3> TAKE s \in Session
    <3>1. session[s] \in Row
      BY DEF IInv, TypeOK
    <3>2. session'[s] = IF Live(s) /\ session[s].user = handler[h].user
                        THEN [session[s] EXCEPT !.state = "revoked"] ELSE session[s]
      BY <2>2 DEF RevokeAllForUser
    <3>3. QED
      BY <3>1, <3>2 DEF Live, Row
  <2>3. CASE Answer(h) \/ CreateAdmin(h) \/ Fail(h)
    BY <2>3 DEF Answer, CreateAdmin, Fail
  <2>4. QED
    BY <2>1, <2>2, <2>3
<1>5. HandlersSound' /\ CookiesSound'
  BY <1>1, <1>3, <1>4, DoneKeeps
<1>6. SpentSound' /\ Counted'
  BY <1>1, <1>4, SpentKept
<1>7. QED
  BY <1>5, <1>6

LEMMA HandlerKeeps ==
  ASSUME IInv, NEW h \in Handler, HandlerStep(h) \/ Fail(h)
  PROVE  HandlersSound' /\ CookiesSound' /\ SpentSound' /\ Counted'
<1>1. CASE FindAdmin(h) \/ (\E s \in Session : SignLogin(h, s)) \/ FindUser(h) \/ SignRefresh(h)
           \/ RotateRefused(h)
  <2>1. /\ clock' = clock /\ session' = session /\ cookies' = cookies /\ spent' = spent
        /\ exchanges' = exchanges
    BY <1>1 DEF FindAdmin, SignLogin, FindUser, SignRefresh, RotateRefused, history
  <2>2. SpentSound' /\ Counted'
    BY <2>1, SpentKept
  <2>3. CASE Done(h)
    BY <2>1, <2>2, <2>3, CookieFacts, DoneKeeps
  <2>4. CASE FindAdmin(h) /\ ~Done(h)
    BY <2>1, <2>2, <2>4, GotoKeeps DEF FindAdmin
  <2>5. CASE \E s \in Session : SignLogin(h, s)
    BY <2>2, <2>5, SignLoginKeeps
  <2>6. CASE FindUser(h) /\ ~Done(h)
    <3>1. At(h, "findUser") /\ (Goto(h, "revoke") \/ Goto(h, "signRefresh"))
      BY <2>6 DEF FindUser
    <3>2. QED
      BY <2>1, <2>2, <3>1, GotoKeeps DEF At, Opened
  <2>7. CASE SignRefresh(h)
    BY <2>2, <2>7, SignRefreshKeeps
  <2>8. CASE RotateRefused(h)
    BY <2>1, <2>2, <2>8, GotoKeeps DEF RotateRefused, At, Opened
  <2>9. QED
    BY <1>1, <2>3, <2>4, <2>5, <2>6, <2>7, <2>8
<1>2. CASE CreateSession(h)
  BY <1>2, CreateSessionKeeps
<1>3. CASE RotateIfHashMatches(h)
  BY <1>3, RotateKeeps
<1>4. CASE Answer(h) \/ Revoke(h) \/ RevokeAllForUser(h) \/ CreateAdmin(h) \/ Fail(h)
  BY <1>4, EndingKeeps
<1>5. QED
  BY <1>1, <1>2, <1>3, <1>4 DEF HandlerStep

LEMMA QuietKeeps ==
  ASSUME IInv, Tick \/ (\E u \in User : Unban(u) \/ RemoveAdmin(u)) \/ UNCHANGED vars
  PROVE  HandlersSound' /\ CookiesSound' /\ SpentSound' /\ Counted'
<1>1. /\ session' = session /\ handler' = handler /\ cookies' = cookies /\ spent' = spent
      /\ exchanges' = exchanges /\ clock \in Int /\ clock' \in Int /\ clock <= clock'
  BY SessionsAssumption DEF Tick, Unban, RemoveAdmin, vars, history, IInv, TypeOK, Time
<1>2. SpentSound' /\ Counted'
  BY <1>1, SpentKept
<1>3. ASSUME NEW h \in Handler
      PROVE  SlotSound(handler[h])'
  <2>1. SlotSound(handler[h])
    BY DEF IInv, HandlersSound
  <2>2. /\ handler[h].old \in Token => handler[h].old.iat \in Int
        /\ handler[h].new \in Token => handler[h].new.iat \in Int
    BY DEF Token, Time
  <2>3. QED
    BY <1>1, <2>1, <2>2 DEF SlotSound, OldSound, NewSound
<1>4. HandlersSound'
  BY <1>1, <1>3 DEF IInv, HandlersSound, At
<1>5. \A t \in cookies : t.iat \in Int
  BY DEF IInv, TypeOK, Token, Time
<1>6. CookiesSound'
  BY <1>1, <1>5 DEF IInv, CookiesSound
<1>7. QED
  BY <1>2, <1>4, <1>6

LEMMA InitInv == Init => IInv
<1> SUFFICES ASSUME Init PROVE IInv
  OBVIOUS
<1>1. \A h \in Handler : handler[h] = IdleSlot /\ At(h, "idle")
  BY DEF Init, At, IdleSlot
<1>2. HandlersSound
  BY <1>1, IdleSound DEF HandlersSound, At
<1>3. CookiesSound /\ SpentSound
  BY DEF Init, CookiesSound, SpentSound
<1>4. Counted
  <2>1. \A s \in Session : {t \in spent : t.sid = s} = {}
    BY DEF Init
  <2>2. QED
    BY <2>1, FS_EmptySet DEF Init, Counted, OneExchangePerToken
<1>5. QED
  BY <1>2, <1>3, <1>4, InitType DEF IInv

LEMMA NextInv == IInv /\ [Next]_vars => IInv'
<1> SUFFICES ASSUME IInv, [Next]_vars PROVE IInv'
  OBVIOUS
<1>1. TypeOK'
  BY TypeStep DEF IInv
<1>2. HandlersSound' /\ CookiesSound' /\ SpentSound' /\ Counted'
  BY RequestKeeps, HandlerKeeps, QuietKeeps DEF Next
<1>3. QED
  BY <1>1, <1>2 DEF IInv

LEMMA InvHolds == Spec => []IInv
BY InitInv, NextInv, PTL DEF Spec

(* Every reachable state of the session service has its declared types.    *)
THEOREM TypeCorrect == Spec => []TypeOK
<1>1. IInv => TypeOK
  BY DEF IInv
<1>2. QED
  BY <1>1, InvHolds, PTL

(* A refresh token exchanged for a later one never again opens its         *)
(* session: rotation is a compare-and-set, and the time a token is signed  *)
(* at only grows along a session.                                          *)
THEOREM SpentStaysSpent == Spec => []SpentIsNeverCurrent
<1>1. IInv => SpentIsNeverCurrent
  <2> SUFFICES ASSUME IInv, NEW t \in spent PROVE session[t.sid].hash # t
    BY DEF SpentIsNeverCurrent
  <2>1. t.iat \in Int /\ t.iat < session[t.sid].hash.iat
    BY DEF IInv, TypeOK, SpentSound, Token, Time
  <2>2. QED
    BY <2>1
<1>2. QED
  BY <1>1, InvHolds, PTL

(* However many refreshes present one token, at most one is served with a  *)
(* later token.                                                            *)
THEOREM TokenBuysOne == Spec => []OneExchangePerToken
<1>1. IInv => OneExchangePerToken
  BY DEF IInv, Counted
<1>2. QED
  BY <1>1, InvHolds, PTL

----------------------------------------------------------------------------
(* Sessions are lineages.                                                  *)

Phases == [s \in Session |-> Phase(s)]

LEMMA PhaseCases ==
  ASSUME TypeOK, NEW s \in Session
  PROVE  /\ session[s].state = "absent" => Phase(s) = "absent"
         /\ session[s].state = "live" => Phase(s) = "live"
         /\ session[s].state = "revoked" => Phase(s) = "dead"
         /\ session[s].state \in {"absent", "live", "revoked"}
BY DEF Phase, TypeOK, Row

LEMMA PhaseCasesNext ==
  ASSUME TypeOK', NEW s \in Session
  PROVE  /\ session'[s].state = "absent" => Phase(s)' = "absent"
         /\ session'[s].state = "live" => Phase(s)' = "live"
         /\ session'[s].state = "revoked" => Phase(s)' = "dead"
BY DEF Phase, TypeOK, Row

LEMMA SamePhases ==
  ASSUME TypeOK, TypeOK', \A s \in Session : session'[s].state = session[s].state
  PROVE  Phases' = Phases
<1>1. \A s \in Session : Phase(s)' = Phase(s)
  BY PhaseCases, PhaseCasesNext
<1>2. QED
  BY <1>1 DEF Phases

LEMMA LineageOfRotation ==
  ASSUME IInv, TypeOK', NEW h \in Handler, RotateIfHashMatches(h)
  PROVE  [Lineage!LineageNext]_(Lineage!lineage)
<1> DEFINE sid == handler[h].sid
<1>1. sid \in Session /\ Live(sid)
  BY SlotFacts DEF RotateIfHashMatches, CanRotate, IInv
<1>2. \A s \in Session : session'[s].state = session[s].state
  <2>1. session' = [session EXCEPT ![sid] =
                      [session[sid] EXCEPT !.hash = handler[h].new, !.expiresAt = Expiry]]
    BY <1>1 DEF RotateIfHashMatches, IInv, TypeOK, Row
  <2>2. session[sid] \in Row
    BY <1>1 DEF IInv, TypeOK
  <2>3. session'[sid] = [session[sid] EXCEPT !.hash = handler[h].new, !.expiresAt = Expiry]
        /\ \A s \in Session \ {sid} : session'[s] = session[s]
    BY <1>1, <2>1 DEF IInv, TypeOK
  <2>4. session'[sid].state = session[sid].state
    BY <2>2, <2>3 DEF Row
  <2>5. QED
    BY <2>3, <2>4
<1>3. Phases' = Phases
  BY <1>2, SamePhases DEF IInv
<1>4. Phases[sid] = "live"
  BY <1>1, PhaseCases DEF Phases, Live, IInv
<1>5. CASE exchanges' = [exchanges EXCEPT ![sid] = @ + 1]
  <2>1. Lineage!Advance(sid)
    BY <1>3, <1>4, <1>5 DEF Lineage!Advance, Phases
  <2>2. QED
    BY <1>1, <2>1 DEF Lineage!LineageNext
<1>6. CASE exchanges' = exchanges
  BY <1>3, <1>6 DEF Lineage!lineage, Phases
<1>7. QED
  BY <1>5, <1>6 DEF RotateIfHashMatches

LEMMA LineageOfEnding ==
  ASSUME IInv, TypeOK', NEW h \in Handler, Revoke(h) \/ RevokeAllForUser(h)
  PROVE  [Lineage!LineageNext]_(Lineage!lineage)
<1> DEFINE Ended == {s \in Session : session[s].state = "live" /\ session'[s].state = "revoked"}
<1>1. exchanges' = exchanges
  BY DEF Revoke, RevokeAllForUser, history
<1>2. \A s \in Session : s \notin Ended => session'[s].state = session[s].state
  <2>1. CASE Revoke(h)
    <3>1. SlotSound(handler[h]) /\ handler[h].sid \in Session
      BY SlotFacts DEF IInv, HandlersSound
    <3>2. session[handler[h].sid].state \in {"live", "revoked"}
      BY <2>1, <3>1, PhaseCases DEF Revoke, At, SlotSound, Opened, IInv
    <3>3. session' = [session EXCEPT ![handler[h].sid] =
                        [session[handler[h].sid] EXCEPT !.state = "revoked"]]
      BY <2>1 DEF Revoke
    <3>4. session'[handler[h].sid] = [session[handler[h].sid] EXCEPT !.state = "revoked"]
          /\ \A s \in Session \ {handler[h].sid} : session'[s] = session[s]
      BY <3>1, <3>3 DEF IInv, TypeOK
    <3>5. session[handler[h].sid] \in Row
      BY <3>1 DEF IInv, TypeOK
    <3>6. session'[handler[h].sid].state = "revoked"
      BY <3>4, <3>5 DEF Row
    <3>7. QED
      BY <3>2, <3>4, <3>6
  <2>2. CASE RevokeAllForUser(h)
    <3> TAKE s \in Session
    <3>1. session[s] \in Row
      BY DEF IInv, TypeOK
    <3>2. session'[s] = IF Live(s) /\ session[s].user = handler[h].user
                        THEN [session[s] EXCEPT !.state = "revoked"] ELSE session[s]
      BY <2>2 DEF RevokeAllForUser
    <3>3. QED
      BY <3>1, <3>2 DEF Live, Row
  <2>3. QED
    BY <2>1, <2>2
<1>3. \A s \in Ended : Phase(s) = "live" /\ Phase(s)' = "dead"
  BY PhaseCases, PhaseCasesNext DEF IInv
<1>4. \A s \in Session \ Ended : Phase(s)' = Phase(s)
  BY <1>2, PhaseCases, PhaseCasesNext DEF IInv
<1> HIDE DEF Ended
<1>5. Ended \in SUBSET Session
  BY DEF Ended
<1>6. \A s \in Ended : Phases[s] = "live"
  BY <1>3, <1>5 DEF Phases
<1>7. Phases' = [s \in Session |-> IF s \in Ended THEN "dead" ELSE Phases[s]]
  BY <1>3, <1>4 DEF Phases
<1>8. Lineage!End(Ended)
  BY <1>1, <1>6, <1>7 DEF Lineage!End, Phases
<1>9. QED
  BY <1>5, <1>8 DEF Lineage!LineageNext

LEMMA LineageOfOpening ==
  ASSUME IInv, TypeOK', NEW h \in Handler, CreateSession(h)
  PROVE  [Lineage!LineageNext]_(Lineage!lineage)
<1>0. PICK sid \in Session : sid = handler[h].sid
  BY SlotFacts DEF IInv
<1>1. session[sid].state = "absent"
  BY <1>0 DEF IInv, HandlersSound, SlotSound, CreateSession, At
<1>2. session'[sid].state = "live" /\ \A s \in Session \ {sid} : session'[s] = session[s]
  BY <1>0 DEF CreateSession, IInv, TypeOK
<1>3. Phase(sid) = "absent" /\ Phase(sid)' = "live"
  BY <1>1, <1>2, PhaseCases, PhaseCasesNext DEF IInv
<1>4. \A s \in Session \ {sid} : Phase(s)' = Phase(s)
  BY <1>2, PhaseCases, PhaseCasesNext DEF IInv
<1>5. Phases[sid] = "absent" /\ Phases' = [Phases EXCEPT ![sid] = "live"]
  BY <1>3, <1>4 DEF Phases
<1>6. exchanges' = exchanges
  BY DEF CreateSession, history
<1>7. Lineage!Open(sid)
  BY <1>5, <1>6 DEF Lineage!Open, Phases
<1>8. QED
  BY <1>7 DEF Lineage!LineageNext

LEMMA LineageStep ==
  IInv /\ TypeOK' /\ [Next]_vars => [Lineage!LineageNext]_(Lineage!lineage)
<1> SUFFICES ASSUME IInv, TypeOK', [Next]_vars
             PROVE  [Lineage!LineageNext]_(Lineage!lineage)
  OBVIOUS
<1>1. CASE session' = session /\ exchanges' = exchanges
  BY <1>1, SamePhases DEF Lineage!lineage, Phases, IInv
<1>2. ASSUME NEW h \in Handler,
             CreateSession(h) \/ RotateIfHashMatches(h) \/ Revoke(h) \/ RevokeAllForUser(h)
      PROVE  [Lineage!LineageNext]_(Lineage!lineage)
  BY <1>2, LineageOfOpening, LineageOfRotation, LineageOfEnding
<1>3. ASSUME NEW h \in Handler, RequestStep(h) \/ HandlerStep(h) \/ Fail(h)
      PROVE  \/ session' = session /\ exchanges' = exchanges
             \/ CreateSession(h) \/ RotateIfHashMatches(h) \/ Revoke(h) \/ RevokeAllForUser(h)
  <2>1. CASE RequestStep(h) \/ Fail(h)
    BY <2>1 DEF RequestStep, LoginWithTelegram, Ban, Deactivate, AddAdmin, Refresh, Logout, Fail,
                history
  <2>2. CASE HandlerStep(h)
    BY <2>2 DEF HandlerStep, FindAdmin, SignLogin, FindUser, SignRefresh, RotateRefused, Answer,
                CreateAdmin, history
  <2>3. QED
    BY <1>3, <2>1, <2>2
<1>4. ASSUME Tick \/ (\E u \in User : Unban(u) \/ RemoveAdmin(u)) \/ UNCHANGED vars
      PROVE  session' = session /\ exchanges' = exchanges
  BY <1>4 DEF Tick, Unban, RemoveAdmin, vars, history
<1>5. QED
  BY <1>1, <1>2, <1>3, <1>4 DEF Next

(* The session service implements a lineage: a session is opened once, its *)
(* refresh token advances only while it is live, and no request, ban or    *)
(* failure brings it back.                                                 *)
THEOREM SessionsAreLineages == Spec => LineageSpec
<1>1. Init => Lineage!LineageInit
  <2> SUFFICES ASSUME Init PROVE Lineage!LineageInit
    OBVIOUS
  <2>1. \A s \in Session : Phase(s) = "absent"
    BY DEF Init, NoRow, Phase
  <2>2. QED
    BY <2>1 DEF Init, Lineage!LineageInit
<1>2. IInv => TypeOK
  BY DEF IInv
<1>3. QED
  BY <1>1, <1>2, LineageStep, InvHolds, PTL DEF Spec, LineageSpec, Lineage!LineageSpec

----------------------------------------------------------------------------
(* A ban ends the sessions: once it is through, no login of the user is    *)
(* under way either, so none can open a session behind it.                 *)

Quiet(u) ==
  /\ account[u].banned /\ ~loose[u]
  /\ \A h \in Handler : ~(At(h, "revokeAll") /\ handler[h].user = u)
NoLive(u) == \A s \in Session : ~(Live(s) /\ session[s].user = u)
LoginPc == {"findAdmin", "signLogin", "create"}
NoLogins(u) == \A h \in Handler : ~(handler[h].pc \in LoginPc /\ handler[h].user = u)
BanInv == \A u \in User : Quiet(u) => NoLive(u) /\ NoLogins(u)

LEMMA AccountEdits ==
  ASSUME TypeOK, NEW u \in User, NEW v \in User, NEW b \in BOOLEAN,
         account' = [account EXCEPT ![v].active = b]
  PROVE  account'[u].banned = account[u].banned
<1>1. account[v] \in Account /\ account[u] \in Account
  BY DEF TypeOK
<1>2. [account[v] EXCEPT !.active = b].banned = account[v].banned
  BY <1>1 DEF Account
<1>3. account'[u] = IF u = v THEN [account[v] EXCEPT !.active = b] ELSE account[u]
  BY DEF TypeOK
<1>4. QED
  BY <1>2, <1>3

LEMMA BanRequest ==
  ASSUME IInv, BanInv, NEW h \in Handler, RequestStep(h), NEW u \in User, Quiet(u)'
  PROVE  NoLive(u)' /\ NoLogins(u)'
<1>0. session' = session /\ loose' = loose /\ At(h, "idle")
  BY DEF RequestStep, LoginWithTelegram, Ban, Deactivate, AddAdmin, Refresh, Logout, Begin
<1>1. SUFFICES ASSUME NEW slot, Begin(h, slot),
                      account[u].banned \/ (slot.pc = "revokeAll" /\ slot.user = u),
                      slot.pc \in LoginPc /\ slot.user = u => ~account[u].banned
               PROVE  NoLive(u)' /\ NoLogins(u)'
  <2>1. ASSUME NEW v \in User, NEW panel \in BOOLEAN, LoginWithTelegram(h, v, panel)
        PROVE  NoLive(u)' /\ NoLogins(u)'
    <3> DEFINE slot == IF account[v].banned THEN IdleSlot
                       ELSE [IdleSlot EXCEPT !.pc = IF panel THEN "findAdmin" ELSE "signLogin",
                                             !.user = v, !.panel = panel]
    <3>1. Begin(h, slot)
      BY <2>1 DEF LoginWithTelegram
    <3>2. slot.pc \in LoginPc /\ slot.user = u => ~account[u].banned
      BY DEF IdleSlot, LoginPc
    <3>3. account[u].banned
      BY <2>1, AccountEdits DEF LoginWithTelegram, IInv, Quiet
    <3> HIDE DEF slot
    <3>4. QED
      BY <1>1, <3>1, <3>2, <3>3
  <2>2. ASSUME NEW v \in User, Ban(h, v)
        PROVE  NoLive(u)' /\ NoLogins(u)'
    <3> DEFINE slot == [IdleSlot EXCEPT !.pc = "revokeAll", !.user = v]
    <3>1. Begin(h, slot) /\ slot.pc = "revokeAll" /\ slot.user = v
      BY <2>2 DEF Ban, IdleSlot
    <3>2. account[u].banned \/ u = v
      BY <2>2 DEF Ban, IInv, TypeOK, Account, Quiet
    <3> HIDE DEF slot
    <3>3. QED
      BY <1>1, <3>1, <3>2 DEF LoginPc
  <2>3. ASSUME NEW v \in User, Deactivate(h, v) \/ AddAdmin(h, v)
        PROVE  NoLive(u)' /\ NoLogins(u)'
    <3>1. PICK pc \in {"revokeAll", "addAdmin"} : Begin(h, [IdleSlot EXCEPT !.pc = pc, !.user = v])
      BY <2>3 DEF Deactivate, AddAdmin
    <3>2. [IdleSlot EXCEPT !.pc = pc, !.user = v].pc = pc
      BY DEF IdleSlot
    <3>3. account[u].banned
      <4>1. CASE Deactivate(h, v)
        BY <4>1, AccountEdits DEF Deactivate, IInv, Quiet
      <4>2. CASE AddAdmin(h, v)
        BY <4>2 DEF AddAdmin, Quiet
      <4>3. QED
        BY <2>3, <4>1, <4>2
    <3>4. QED
      BY <1>1, <3>1, <3>2, <3>3 DEF LoginPc
  <2>4. ASSUME NEW t \in cookies, NEW panel \in BOOLEAN, Refresh(h, t, panel)
        PROVE  NoLive(u)' /\ NoLogins(u)'
    <3> DEFINE slot == [IdleSlot EXCEPT
             !.pc = IF Live(t.sid) /\ clock < session[t.sid].expiresAt /\ session[t.sid].hash = t
                    THEN "findUser" ELSE "revoke",
             !.user = session[t.sid].user, !.sid = t.sid, !.panel = panel, !.old = t]
    <3>1. Begin(h, slot) /\ account[u].banned
      BY <2>4 DEF Refresh, Quiet
    <3>2. slot.pc \notin LoginPc
      BY DEF IdleSlot, LoginPc
    <3> HIDE DEF slot
    <3>3. QED
      BY <1>1, <3>1, <3>2
  <2>5. ASSUME NEW t \in cookies, Logout(h, t)
        PROVE  NoLive(u)' /\ NoLogins(u)'
    <3> DEFINE slot == [IdleSlot EXCEPT !.pc = "revoke", !.user = t.user, !.sid = t.sid]
    <3>1. Begin(h, slot) /\ account[u].banned
      BY <2>5 DEF Logout, Quiet
    <3>2. slot.pc \notin LoginPc
      BY DEF IdleSlot, LoginPc
    <3> HIDE DEF slot
    <3>3. QED
      BY <1>1, <3>1, <3>2
  <2>6. QED
    BY <2>1, <2>2, <2>3, <2>4, <2>5 DEF RequestStep
<1>2. handler'[h] = slot /\ \A g \in Handler \ {h} : handler'[g] = handler[g]
  BY <1>1, SlotOf DEF IInv
<1>3. account[u].banned
  BY <1>1, <1>2 DEF Quiet, At
<1>4. Quiet(u)
  <2>1. \A g \in Handler : ~(At(g, "revokeAll") /\ handler[g].user = u)
    BY <1>0, <1>2 DEF Quiet, At
  <2>2. QED
    BY <1>0, <1>3, <2>1 DEF Quiet
<1>5. NoLive(u) /\ NoLogins(u)
  BY <1>4 DEF BanInv
<1>6. NoLive(u)'
  BY <1>0, <1>5 DEF NoLive, Live
<1>7. NoLogins(u)'
  BY <1>1, <1>2, <1>3, <1>5 DEF NoLogins
<1>8. QED
  BY <1>6, <1>7

(* A step of h that neither starts a login nor ends a revocation, and      *)
(* makes no session of the user live.                                      *)
LEMMA BanFrame ==
  ASSUME IInv, BanInv, NEW h \in Handler, NEW u \in User, Quiet(u)',
         \A g \in Handler \ {h} : handler'[g] = handler[g],
         account[u].banned, loose'[u] = loose[u],
         ~(At(h, "revokeAll") /\ handler[h].user = u),
         handler'[h].pc \in LoginPc =>
           handler[h].pc \in LoginPc /\ handler'[h].user = handler[h].user,
         \A s \in Session : session'[s].state = "live" =>
           \/ session[s].state = "live" /\ session'[s].user = session[s].user
           \/ handler[h].pc \in LoginPc /\ session'[s].user = handler[h].user
  PROVE  NoLive(u)' /\ NoLogins(u)'
<1>1. Quiet(u)
  BY DEF Quiet, At
<1>2. NoLive(u) /\ NoLogins(u)
  BY <1>1 DEF BanInv
<1>3. NoLive(u)'
  BY <1>2 DEF NoLive, NoLogins, Live
<1>4. NoLogins(u)'
  BY <1>2 DEF NoLogins
<1>5. QED
  BY <1>3, <1>4

LEMMA BanHandler ==
  ASSUME IInv, BanInv, NEW h \in Handler, HandlerStep(h) \/ Fail(h), NEW u \in User, Quiet(u)'
  PROVE  NoLive(u)' /\ NoLogins(u)'
<1>0. account' = account
  BY DEF HandlerStep, FindAdmin, SignLogin, CreateSession, FindUser, SignRefresh,
         RotateIfHashMatches, RotateRefused, Answer, Revoke, RevokeAllForUser, CreateAdmin, Fail
<1>1. account[u].banned
  BY <1>0 DEF Quiet
<1>2. /\ \A s \in Session : session[s] \in Row
      /\ handler[h] \in Slot /\ handler[h].sid \in Session /\ handler[h].user \in User
  BY SlotFacts DEF IInv, TypeOK
<1>3. Done(h) => /\ handler'[h].pc \notin LoginPc
                 /\ \A g \in Handler \ {h} : handler'[g] = handler[g]
  BY SlotOf DEF IInv, IdleSlot, LoginPc
<1>4. \A pc \in Pc : Goto(h, pc) =>
        /\ handler'[h].pc = pc /\ handler'[h].user = handler[h].user
        /\ \A g \in Handler \ {h} : handler'[g] = handler[g]
  BY <1>2, SlotOf DEF IInv, Slot
<1>5. CASE FindAdmin(h) \/ FindUser(h) \/ RotateRefused(h) \/ Answer(h) \/ CreateAdmin(h)
  <2>1. session' = session /\ loose' = loose /\ ~At(h, "revokeAll")
    BY <1>5 DEF FindAdmin, FindUser, RotateRefused, Answer, CreateAdmin, At
  <2>2. \/ Done(h)
        \/ Goto(h, "revoke") \/ Goto(h, "signRefresh")
        \/ Goto(h, "signLogin") /\ handler[h].pc \in LoginPc
    BY <1>5 DEF FindAdmin, FindUser, RotateRefused, Answer, CreateAdmin, At, LoginPc
  <2>3. /\ \A g \in Handler \ {h} : handler'[g] = handler[g]
        /\ handler'[h].pc \in LoginPc =>
             handler[h].pc \in LoginPc /\ handler'[h].user = handler[h].user
    BY <1>3, <1>4, <2>2 DEF Pc, LoginPc
  <2>4. QED
    BY <1>1, <2>1, <2>3, BanFrame
<1>6. CASE \E s \in Session : SignLogin(h, s)
  <2>1. PICK s \in Session : SignLogin(h, s)
    BY <1>6
  <2>2. /\ \A g \in Handler \ {h} : handler'[g] = handler[g]
        /\ handler'[h].user = handler[h].user
    <3> DEFINE new == Sign(handler[h].user, s, handler[h].panel)
    <3>1. handler' = [handler EXCEPT ![h].pc = "create", ![h].sid = s, ![h].new = new]
      BY <2>1 DEF SignLogin
    <3> HIDE DEF new
    <3>2. handler' = [handler EXCEPT ![h] = [handler[h] EXCEPT !.pc = "create", !.sid = s, !.new = new]]
      BY <1>2, <3>1 DEF IInv, TypeOK, Slot
    <3>3. [handler[h] EXCEPT !.pc = "create", !.sid = s, !.new = new].user = handler[h].user
      BY <1>2 DEF Slot
    <3>4. QED
      BY <3>2, <3>3 DEF IInv, TypeOK
  <2>3. session' = session /\ loose' = loose /\ ~At(h, "revokeAll") /\ handler[h].pc \in LoginPc
    BY <2>1 DEF SignLogin, At, LoginPc
  <2>4. QED
    BY <1>1, <2>2, <2>3, BanFrame
<1>7. CASE CreateSession(h)
  <2>1. Goto(h, "answer") /\ loose' = loose /\ handler[h].pc = "create"
    BY <1>7 DEF CreateSession, At
  <2>2. \A s \in Session :
          (s = handler[h].sid /\ session'[s].user = handler[h].user) \/ session'[s] = session[s]
    BY <1>2, <1>7 DEF CreateSession, IInv, TypeOK
  <2>3. QED
    BY <1>1, <1>4, <2>1, <2>2, BanFrame DEF Pc, LoginPc, At
<1>8. CASE SignRefresh(h)
  <2>1. session' = session /\ loose' = loose /\ ~At(h, "revokeAll")
    BY <1>8 DEF SignRefresh, At
  <2>2. /\ \A g \in Handler \ {h} : handler'[g] = handler[g]
        /\ handler'[h].pc \notin LoginPc
    <3>1. CASE Goto(h, "revoke")
      BY <1>4, <3>1 DEF Pc, LoginPc
    <3>2. CASE ~Goto(h, "revoke")
      <4> DEFINE new == Sign(handler[h].user, handler[h].sid, handler[h].user \in admins)
      <4>1. handler' = [handler EXCEPT ![h].pc = "rotate", ![h].new = new]
        BY <1>8, <3>2 DEF SignRefresh
      <4> HIDE DEF new
      <4>2. handler' = [handler EXCEPT ![h] = [handler[h] EXCEPT !.pc = "rotate", !.new = new]]
        BY <1>2, <4>1 DEF IInv, TypeOK, Slot
      <4>3. [handler[h] EXCEPT !.pc = "rotate", !.new = new].pc = "rotate"
        BY <1>2 DEF Slot
      <4>4. QED
        BY <4>2, <4>3 DEF IInv, TypeOK, LoginPc
    <3>3. QED
      BY <3>1, <3>2
  <2>3. QED
    BY <1>1, <2>1, <2>2, BanFrame
<1>9. CASE RotateIfHashMatches(h)
  <2>1. Goto(h, "answer") /\ loose' = loose /\ handler[h].pc = "rotate"
    BY <1>9 DEF RotateIfHashMatches, At
  <2>2. session' = [session EXCEPT ![handler[h].sid] =
          [session[handler[h].sid] EXCEPT !.hash = handler[h].new, !.expiresAt = Expiry]]
    BY <1>2, <1>9 DEF RotateIfHashMatches, IInv, TypeOK, Row
  <2>3. LET row == session[handler[h].sid]
            edited == [row EXCEPT !.hash = handler[h].new, !.expiresAt = Expiry]
        IN  edited.state = row.state /\ edited.user = row.user
    BY <1>2 DEF Row
  <2>4. \A s \in Session : session'[s].state = session[s].state /\ session'[s].user = session[s].user
    BY <2>2, <2>3 DEF IInv, TypeOK
  <2>5. QED
    BY <1>1, <1>4, <2>1, <2>4, BanFrame DEF Pc, LoginPc, At
<1>10. CASE Revoke(h)
  <2>1. Done(h) /\ loose' = loose /\ handler[h].pc = "revoke"
    BY <1>10 DEF Revoke, At
  <2>2. session' = [session EXCEPT ![handler[h].sid] =
                      [session[handler[h].sid] EXCEPT !.state = "revoked"]]
    BY <1>10 DEF Revoke
  <2>3. [session[handler[h].sid] EXCEPT !.state = "revoked"].state = "revoked"
    BY <1>2 DEF Row
  <2>4. \A s \in Session : session'[s].state = "live" => session'[s] = session[s]
    BY <1>2, <2>2, <2>3 DEF IInv, TypeOK
  <2>5. QED
    BY <1>1, <1>3, <2>1, <2>4, BanFrame DEF At
<1>11. CASE RevokeAllForUser(h)
  <2>1. /\ Done(h) /\ handler[h].pc = "revokeAll"
        /\ loose' = [loose EXCEPT ![handler[h].user] = LoginsOf(handler[h].user) # {}]
    BY <1>11 DEF RevokeAllForUser, At
  <2>2. \A s \in Session :
          session'[s].state = "live" => /\ session'[s] = session[s]
                                        /\ session[s].user # handler[h].user
    <3> TAKE s \in Session
    <3>1. session'[s] = IF Live(s) /\ session[s].user = handler[h].user
                        THEN [session[s] EXCEPT !.state = "revoked"] ELSE session[s]
      BY <1>11 DEF RevokeAllForUser
    <3>2. [session[s] EXCEPT !.state = "revoked"].state = "revoked"
      BY <1>2 DEF Row
    <3>3. QED
      BY <3>1, <3>2 DEF Live
  <2>3. CASE handler[h].user = u
    <3>1. LoginsOf(u) = {}
      BY <2>1, <2>3 DEF Quiet, IInv, TypeOK
    <3>2. NoLogins(u)'
      BY <1>3, <2>1, <3>1 DEF NoLogins, LoginsOf, LoginPc
    <3>3. NoLive(u)'
      BY <2>2, <2>3 DEF NoLive, Live
    <3>4. QED
      BY <3>2, <3>3
  <2>4. CASE handler[h].user # u
    <3>1. loose'[u] = loose[u]
      BY <2>1, <2>4 DEF IInv, TypeOK
    <3>2. QED
      BY <1>1, <1>3, <2>1, <2>2, <2>4, <3>1, BanFrame
  <2>5. QED
    BY <2>3, <2>4
<1>12. CASE Fail(h)
  <2>1. /\ Done(h) /\ session' = session
        /\ loose' = [loose EXCEPT ![handler[h].user] = @ \/ At(h, "revokeAll")]
    BY <1>12 DEF Fail
  <2>2. ~(At(h, "revokeAll") /\ handler[h].user = u)
    BY <1>2, <2>1 DEF Quiet, IInv, TypeOK
  <2>3. loose'[u] = loose[u]
    BY <1>2, <2>1, <2>2 DEF IInv, TypeOK
  <2>4. QED
    BY <1>1, <1>3, <2>1, <2>2, <2>3, BanFrame
<1>13. QED
  BY <1>5, <1>6, <1>7, <1>8, <1>9, <1>10, <1>11, <1>12 DEF HandlerStep

LEMMA BanQuietStep ==
  ASSUME IInv, BanInv, NEW u \in User, Quiet(u)',
         Tick \/ (\E v \in User : Unban(v) \/ RemoveAdmin(v)) \/ UNCHANGED vars
  PROVE  NoLive(u)' /\ NoLogins(u)'
<1>1. session' = session /\ handler' = handler /\ loose' = loose
  BY DEF Tick, Unban, RemoveAdmin, vars
<1>2. account[u].banned
  BY DEF Tick, Unban, RemoveAdmin, vars, Quiet, IInv, TypeOK, Account
<1>3. Quiet(u)
  BY <1>1, <1>2 DEF Quiet, At
<1>4. QED
  BY <1>1, <1>3 DEF BanInv, NoLive, NoLogins, Live

(* A banned user holds no live session once the ban is through, unless it  *)
(* was cut short or overtook a login: the flag is set before the sessions  *)
(* are revoked, and a login reads it with the write that starts it.        *)
THEOREM BansEndSessions == Spec => []BanEndsSessions
<1>1. Init => BanInv
  <2>1. Init => \A u \in User : ~account[u].banned
    BY DEF Init
  <2>2. QED
    BY <2>1 DEF BanInv, Quiet
<1>2. IInv /\ BanInv /\ [Next]_vars => BanInv'
  <2> SUFFICES ASSUME IInv, BanInv, [Next]_vars, NEW u \in User, Quiet(u)'
               PROVE  NoLive(u)' /\ NoLogins(u)'
    BY DEF BanInv
  <2>1. ASSUME NEW h \in Handler, RequestStep(h) \/ HandlerStep(h) \/ Fail(h)
        PROVE  NoLive(u)' /\ NoLogins(u)'
    BY <2>1, BanRequest, BanHandler
  <2>2. QED
    BY <2>1, BanQuietStep DEF Next
<1>3. BanInv => BanEndsSessions
  BY DEF BanInv, BanEndsSessions, Quiet, NoLive
<1>4. QED
  BY <1>1, <1>2, <1>3, InvHolds, PTL DEF Spec
============================================================================
