---------------------------- MODULE TelegramProofs ----------------------------
(***************************************************************************)
(* Proofs about WriteAccess and TelegramBot.  For any logins and commands  *)
(* at once, whether the bot may write to the user is what Telegram last    *)
(* said of it.  For any updates, requests and lost answers, Telegram is    *)
(* told that an update was handled only when it was, the chat gets a       *)
(* second message only for a lost answer, and a /stop the user has read of *)
(* is over.                                                                *)
(***************************************************************************)
EXTENDS WriteAccess, TelegramBot, FiniteSetTheorems, TLAPS

(* A login that leaves it open, and has not been overtaken, holds what the *)
(* row says; and a row that is not there says that the bot may not write.  *)
Held ==
  /\ ~overtaken => \A v \in Visit : visit[v].pc = "upsert" /\ visit[v].says = "open"
                                      => visit[v].found = profile.allowsWriteToPm
  /\ ~profile.exists => ~profile.allowsWriteToPm

AccessInv == AccessTypeOK /\ Held /\ AccessIsAsTold

(* What a visit that is through leaves in its place is of its type. *)
LEMMA NoVisitType == NoVisit \in [pc: {"idle", "upsert"}, says: Says, found: BOOLEAN]
BY DEF NoVisit, Says

LEMMA InitAccess == AccessInit => AccessInv
<1> SUFFICES ASSUME AccessInit PROVE AccessInv
  OBVIOUS
<1>1. AccessTypeOK
  <2>1. profile \in [exists: BOOLEAN, allowsWriteToPm: BOOLEAN]
    BY DEF AccessInit
  <2>2. visit \in [Visit -> [pc: {"idle", "upsert"}, says: Says, found: BOOLEAN]]
    BY NoVisitType DEF AccessInit
  <2>3. visits \in 0..MaxVisits
    BY AccessAssumption DEF AccessInit
  <2>4. lastWord \in Says /\ overtaken \in BOOLEAN
    BY ZenonT(30) DEF AccessInit, Says
  <2> QED BY <2>1, <2>2, <2>3, <2>4 DEF AccessTypeOK
<1>2. Held
  BY DEF AccessInit, Held, NoVisit
<1>3. AccessIsAsTold
  BY DEF AccessInit, AccessIsAsTold
<1> QED BY <1>1, <1>2, <1>3 DEF AccessInv

(* A read begins a visit that holds what the row says. *)
LEMMA FindKeeps ==
  ASSUME AccessInv, NEW v \in Visit, NEW says \in Says, FindByTelegramId(v, says)
  PROVE  AccessInv'
<1> USE DEF AccessInv, AccessTypeOK
<1> DEFINE begun == [pc |-> "upsert", says |-> says, found |-> profile.allowsWriteToPm]
<1>1. begun \in [pc: {"idle", "upsert"}, says: Says, found: BOOLEAN]
  OBVIOUS
<1>2. visit' = [visit EXCEPT ![v] = begun] /\ UNCHANGED <<profile, lastWord, overtaken>>
  BY DEF FindByTelegramId
<1>3. begun.says = says /\ begun.found = profile.allowsWriteToPm
  OBVIOUS
<1> HIDE DEF begun
<1>4. visits' \in 0..MaxVisits
  BY AccessAssumption DEF FindByTelegramId
<1>5. AccessTypeOK'
  BY <1>1, <1>2, <1>4
<1>6. Held'
  BY <1>2, <1>3 DEF Held
<1>7. AccessIsAsTold'
  BY <1>2 DEF AccessIsAsTold
<1> QED BY <1>5, <1>6, <1>7

(* A write leaves the row as it was when Telegram says nothing and nothing *)
(* has been written since the read; else it is Telegram's word.            *)
LEMMA UpsertKeeps ==
  ASSUME AccessInv, NEW v \in Visit, UpsertFromInitData(v)
  PROVE  AccessInv'
<1> USE DEF AccessInv, AccessTypeOK
<1>1. /\ visit' = [visit EXCEPT ![v] = NoVisit]
      /\ profile' = [exists |-> TRUE, allowsWriteToPm |-> Allowed(v)]
      /\ visits' = visits
  BY DEF UpsertFromInitData
<1>2. Allowed(v) \in BOOLEAN
  BY DEF Allowed
<1>3. profile'.exists /\ profile'.allowsWriteToPm = Allowed(v)
  BY <1>1
<1>4. \A x \in Visit : x # v => visit'[x] = visit[x]
  BY <1>1
<1>5. visit'[v].pc = "idle"
  BY <1>1 DEF NoVisit
<1>6. CASE visit[v].says = "open"
  <2>1. UNCHANGED <<lastWord, overtaken>>
    BY <1>6 DEF UpsertFromInitData
  <2>2. ~overtaken => Allowed(v) = profile.allowsWriteToPm
    <3>1. visit[v].pc = "upsert"
      BY DEF UpsertFromInitData
    <3>2. Allowed(v) <=> profile.exists /\ visit[v].found
      BY <1>6 DEF Allowed
    <3>3. ~overtaken => (visit[v].found <=> profile.allowsWriteToPm)
      BY <1>6, <3>1 DEF Held
    <3> QED BY <1>2, <3>2, <3>3 DEF Held
  <2>3. AccessTypeOK'
    BY <1>1, <1>2, <2>1, NoVisitType
  <2>4. Held'
    BY <1>3, <1>4, <1>5, <2>1, <2>2 DEF Held
  <2>5. AccessIsAsTold'
    BY <1>2, <1>3, <2>1, <2>2 DEF AccessIsAsTold
  <2> QED BY <2>3, <2>4, <2>5
<1>7. CASE visit[v].says # "open"
  <2>1. /\ lastWord' = visit[v].says
        /\ overtaken' = \E x \in Visit \ {v} : visit[x].pc = "upsert" /\ visit[x].says = "open"
    BY <1>7 DEF UpsertFromInitData
  <2>2. Allowed(v) <=> visit[v].says = "yes"
    BY <1>7 DEF Allowed
  <2>3. AccessTypeOK'
    BY <1>1, <1>2, <2>1, NoVisitType
  <2>4. Held'
    BY <1>3, <1>4, <1>5, <2>1 DEF Held
  <2>5. AccessIsAsTold'
    BY <1>3, <2>1, <2>2 DEF AccessIsAsTold
  <2> QED BY <2>3, <2>4, <2>5
<1> QED BY <1>6, <1>7

LEMMA FailureKeeps ==
  ASSUME AccessInv, NEW v \in Visit, VisitFails(v)
  PROVE  AccessInv'
<1>1. visit' = [visit EXCEPT ![v] = NoVisit] /\ UNCHANGED <<profile, visits, lastWord, overtaken>>
  BY DEF VisitFails
<1>2. AccessTypeOK'
  BY <1>1, NoVisitType DEF AccessInv, AccessTypeOK
<1>3. Held'
  BY <1>1 DEF AccessInv, AccessTypeOK, Held, NoVisit
<1>4. AccessIsAsTold'
  BY <1>1 DEF AccessInv, AccessIsAsTold
<1> QED BY <1>2, <1>3, <1>4 DEF AccessInv

LEMMA NextKeeps == AccessInv /\ [AccessNext]_accessVars => AccessInv'
<1> SUFFICES ASSUME AccessInv, [AccessNext]_accessVars PROVE AccessInv'
  OBVIOUS
<1>1. CASE UNCHANGED accessVars
  BY <1>1 DEF accessVars, AccessInv, AccessTypeOK, Held, AccessIsAsTold
<1>2. CASE AccessNext
  <2>1. PICK v \in Visit : \/ \E says \in Says : LoginWithInitData(v, says)
                           \/ BotCommand(v) \/ UpsertFromInitData(v) \/ VisitFails(v)
    BY <1>2 DEF AccessNext
  <2>2. ASSUME NEW says \in Says, LoginWithInitData(v, says) PROVE AccessInv'
    BY <2>2, FindKeeps DEF LoginWithInitData
  <2>3. CASE BotCommand(v)
    BY <2>3, FindKeeps DEF BotCommand, Says
  <2> QED BY <2>1, <2>2, <2>3, UpsertKeeps, FailureKeeps
<1> QED BY <1>1, <1>2

(***************************************************************************)
(* For any number of logins and commands, at once or one after another:    *)
(* the bot may write to the user exactly when Telegram's last word was     *)
(* that it may, unless that word came while a login that leaves it open    *)
(* was between its read and its write.                                     *)
(***************************************************************************)
THEOREM WriteAccessIsAsTold == AccessSpec => []AccessIsAsTold
<1>1. AccessInv => AccessIsAsTold
  BY DEF AccessInv
<1> QED BY InitAccess, NextKeeps, <1>1, PTL DEF AccessSpec

----------------------------------------------------------------------------
(* The bot: types. *)

LEMMA BotRecords ==
  /\ NoPost \in Post
  /\ NoRequest \in [pc: BotPc, update: Update \union {NoUpdate}, open: BOOLEAN]
<1>1. "other" \in Kind /\ "idle" \in BotPc /\ 0 \in 0..MaxTries
  BY BotAssumption DEF Kind, BotPc
<1>2. NoPost \in Post
  BY <1>1 DEF NoPost, Post
<1>3. NoRequest \in [pc: BotPc, update: Update \union {NoUpdate}, open: BOOLEAN]
  BY <1>1 DEF NoRequest
<1> QED BY <1>2, <1>3

(* What Telegram does with a post that failed keeps what the post is; it   *)
(* is to be posted again or is not.                                        *)
LEMMA BackSound ==
  ASSUME NEW post \in Post
  PROVE  /\ BackToTelegram(post) \in Post
         /\ BackToTelegram(post).state \in {"pending", "dropped"}
         /\ BackToTelegram(post).kind = post.kind
         /\ BackToTelegram(post).person = post.person
<1>1. CASE post.tries < MaxTries
  <2>1. post.tries + 1 \in 0..MaxTries
    BY <1>1, BotAssumption DEF Post
  <2> QED BY <1>1, <2>1 DEF BackToTelegram, Post
<1>2. CASE ~(post.tries < MaxTries)
  BY <1>2 DEF BackToTelegram, Post
<1> QED BY <1>1, <1>2

(* The steps of a command are places of a request, and none takes it back  *)
(* to where it is idle.                                                    *)
LEMMA StepsSound ==
  ASSUME NEW u \in Update, NEW pc \in BotPc
  PROVE  /\ FirstStep(u) \in BotPc \ {"idle"}
         /\ Follows(pc, u) \in BotPc \ {"idle"}
         /\ OnError(pc, u) \in BotPc \ {"idle"}
<1>1. FirstStep(u) \in BotPc \ {"idle"}
  BY DEF FirstStep, BotPc
<1>2. Follows(pc, u) \in BotPc \ {"idle"}
  BY DEF Follows, BotPc
<1>3. OnError(pc, u) \in BotPc \ {"idle"}
  BY DEF OnError, BotPc
<1> QED BY <1>1, <1>2, <1>3

(* Whose request it is. *)
Working(r) == request[r].pc # "idle"

(***************************************************************************)
(* An update is posted as long as Telegram waits for the answer of one     *)
(* request, and of one only; a request that Telegram has given up goes on  *)
(* for an update it may have posted again.                                 *)
(***************************************************************************)
OpenIsPosted ==
  /\ \A r \in BotRequest : request[r].open =>
       Working(r) /\ Handled(r) \in Update /\ update[Handled(r)].state = "posted"
  /\ \A r, s \in BotRequest : request[r].open /\ request[s].open /\ Handled(r) = Handled(s) => r = s
  /\ \A u \in Update : update[u].state = "posted" => \E r \in BotRequest : request[r].open /\ Handled(r) = u

(* What the steps before a place have brought about, in this request or    *)
(* in another one of the same update.                                      *)
Reached(pc, u) ==
  /\ pc = "account" => update[u].kind \in Command
  /\ pc = "settings" => TurnsOff(u) /\ "account" \in effects[u]
  /\ pc = "preference" => TurnsOff(u) /\ {"account", "settings"} \subseteq effects[u]
  /\ pc \in {"card", "sendCard"} => SendsCard(u) /\ "account" \in effects[u]
  /\ pc = "answer" => update[u].kind = "button"
  /\ pc = "alert" => update[u].kind \in Button
  /\ pc = "send" => /\ update[u].kind \in Command \union {"button"}
                    /\ Owed(u) \subseteq effects[u] \union {"message"}
  /\ pc = "ack" => Owed(u) \subseteq effects[u]

WorkSound ==
  \A r \in BotRequest : Working(r) =>
    /\ Handled(r) \in Update /\ update[Handled(r)].state # "none"
    /\ Reached(request[r].pc, Handled(r))

(***************************************************************************)
(* A request may yet send the one message that no lost answer pays for: by *)
(* its own steps or, as long as Telegram waits for it, because it fails    *)
(* and the update is posted again.  So may an update still to be posted.   *)
(***************************************************************************)
MayYetSend(r) ==
  IF request[r].open THEN request[r].pc # "ack"
  ELSE request[r].pc \notin {"idle", "alert", "ack", "failed"}
Unspent(u) == {r \in BotRequest : Working(r) /\ Handled(r) = u /\ MayYetSend(r)}
Unposted(u) == IF update[u].state \in {"none", "pending"} THEN 1 ELSE 0

(* The messages sent, and those still to come, are within the answers lost. *)
WithinBudget(u) ==
  /\ IsFiniteSet(Unspent(u))
  /\ replies[u] + Cardinality(Unspent(u)) + Unposted(u) <= 1 + losses[u]

BroughtSound(u) ==
  /\ "message" \in effects[u] => replies[u] > 0
  /\ u \in told => "message" \in effects[u]
  /\ update[u].state = "done" => Owed(u) \subseteq effects[u]

BotInv ==
  /\ BotTypeOK /\ OpenIsPosted /\ WorkSound
  /\ \A u \in Update : WithinBudget(u) /\ BroughtSound(u)

(* Every request keeps its type, field by field. *)
LEMMA RequestType ==
  ASSUME BotTypeOK, NEW r \in BotRequest
  PROVE  /\ request[r] \in [pc: BotPc, update: Update \union {NoUpdate}, open: BOOLEAN]
         /\ request[r].pc \in BotPc /\ request[r].open \in BOOLEAN
         /\ Handled(r) \in Update \union {NoUpdate}
BY DEF BotTypeOK, Handled

LEMMA UpdateType ==
  ASSUME BotTypeOK, NEW u \in Update
  PROVE  /\ update[u] \in Post
         /\ replies[u] \in Nat /\ losses[u] \in Nat /\ losses[u] \in 0..MaxLosses
         /\ effects[u] \subseteq Effect
<1>1. update[u] \in Post /\ replies[u] \in Nat /\ losses[u] \in 0..MaxLosses /\ effects[u] \in SUBSET Effect
  BY DEF BotTypeOK
<1> QED BY <1>1, BotAssumption

LEMMA InitBot == BotInit => BotInv
<1> SUFFICES ASSUME BotInit PROVE BotInv
  OBVIOUS
<1>1. BotTypeOK
  BY BotRecords, BotAssumption DEF BotInit, BotTypeOK
<1>2. OpenIsPosted /\ WorkSound
  BY DEF BotInit, OpenIsPosted, WorkSound, Working, NoRequest, NoPost
<1>3. ASSUME NEW u \in Update PROVE WithinBudget(u) /\ BroughtSound(u)
  <2>1. Unspent(u) = {}
    BY DEF BotInit, Unspent, Working, NoRequest
  <2>2. IsFiniteSet(Unspent(u)) /\ Cardinality(Unspent(u)) = 0
    BY <2>1, FS_EmptySet
  <2>3. replies[u] = 0 /\ losses[u] = 0 /\ Unposted(u) = 1
    BY DEF BotInit, Unposted, NoPost
  <2>4. effects[u] = {} /\ told = {} /\ update[u].state = "none"
    BY DEF BotInit, NoPost
  <2> QED BY <2>2, <2>3, <2>4 DEF WithinBudget, BroughtSound
<1> QED BY <1>1, <1>2, <1>3 DEF BotInv

----------------------------------------------------------------------------
(* The bot: a step of a command. *)

(* What an update is does not change, and what was brought about for it is *)
(* not taken back.                                                         *)
SameOrMore(u) ==
  /\ update'[u].kind = update[u].kind /\ update'[u].person = update[u].person
  /\ effects[u] \subseteq effects'[u]

LEMMA OwedShrinks ==
  ASSUME NEW u \in Update, SameOrMore(u)
  PROVE  Owed(u)' \subseteq Owed(u)
BY DEF SameOrMore, Owed, TurnsOff

LEMMA ReachedStays ==
  ASSUME NEW u \in Update, NEW pc, SameOrMore(u), Reached(pc, u)
  PROVE  Reached(pc, u)'
<1>1. Owed(u)' \subseteq Owed(u)
  BY OwedShrinks
<1>2. TurnsOff(u)' = TurnsOff(u) /\ SendsCard(u)' = SendsCard(u)
  BY DEF SameOrMore, TurnsOff, SendsCard
<1>3. effects[u] \subseteq effects'[u] /\ update'[u].kind = update[u].kind
  BY DEF SameOrMore
<1>4. (Owed(u) \subseteq effects[u]) => (Owed(u)' \subseteq effects'[u])
  BY <1>1, <1>3
<1>5. (Owed(u) \subseteq effects[u] \union {"message"}) => (Owed(u)' \subseteq effects'[u] \union {"message"})
  BY <1>1, <1>3
<1>6. /\ pc = "account" => update'[u].kind \in Command
      /\ pc = "answer" => update'[u].kind = "button"
      /\ pc = "alert" => update'[u].kind \in Button
  BY <1>3 DEF Reached
<1>7. /\ pc = "settings" => TurnsOff(u)' /\ "account" \in effects'[u]
      /\ pc \in {"card", "sendCard"} => SendsCard(u)' /\ "account" \in effects'[u]
  BY <1>2, <1>3 DEF Reached
<1>8. pc = "preference" => TurnsOff(u)' /\ {"account", "settings"} \subseteq effects'[u]
  BY <1>2, <1>3 DEF Reached
<1>9. /\ pc = "send" => /\ update'[u].kind \in Command \union {"button"}
                        /\ Owed(u)' \subseteq effects'[u] \union {"message"}
      /\ pc = "ack" => Owed(u)' \subseteq effects'[u]
  BY <1>3, <1>4, <1>5 DEF Reached
<1> QED BY <1>6, <1>7, <1>8, <1>9 DEF Reached

(* Counting: what can still send is one less, or as much as before.        *)
LEMMA UnspentLess ==
  ASSUME NEW S, IsFiniteSet(S), NEW r
  PROVE  /\ IsFiniteSet(S \ {r}) /\ Cardinality(S \ {r}) \in Nat /\ Cardinality(S) \in Nat
         /\ r \in S => Cardinality(S \ {r}) = Cardinality(S) - 1
         /\ r \notin S => S \ {r} = S
<1>1. IsFiniteSet(S \ {r}) /\ Cardinality(S \ {r}) = IF r \in S THEN Cardinality(S) - 1 ELSE Cardinality(S)
  BY FS_RemoveElement
<1>2. Cardinality(S) \in Nat /\ Cardinality(S \ {r}) \in Nat
  BY <1>1, FS_CardinalityType
<1> QED BY <1>1, <1>2

(* A step moves its request on to another place.  It may bring something   *)
(* about for its update and lose answers; and the message it sends is the  *)
(* one it had not sent, or comes with a lost answer.                       *)
LEMMA MoveKeeps ==
  ASSUME BotInv, NEW r \in BotRequest, NEW u \in Update, Handled(r) = u, Working(r),
         NEW q \in BotPc \ {"idle"}, NEW E \in SUBSET Effect, NEW n \in Nat, NEW d \in Nat,
         request' = [request EXCEPT ![r].pc = q],
         update' = update, told' = told,
         effects' = [effects EXCEPT ![u] = @ \union E],
         replies' = [replies EXCEPT ![u] = @ + n],
         losses' = [losses EXCEPT ![u] = @ + d],
         losses[u] + d <= MaxLosses,
         reminders' \in [settings: BOOLEAN, preference: BOOLEAN], registered' = registered,
         Reached(q, u)',
         ~request[r].open /\ q \notin {"alert", "ack", "failed"}
           => request[r].pc \notin {"alert", "ack", "failed"},
         request[r].pc = "ack" => q = "ack",
         n <= d + (IF q = "ack" /\ request[r].pc # "ack" /\ MayYetSend(r) THEN 1 ELSE 0),
         "message" \in E => n > 0
  PROVE  BotInv'
<1> USE DEF BotInv
<1>r. request \in [BotRequest -> [pc: BotPc, update: Update \union {NoUpdate}, open: BOOLEAN]]
  BY DEF BotTypeOK
<1>q. /\ request'[r].pc = q
      /\ request'[r].update = request[r].update /\ request'[r].open = request[r].open
      /\ \A s \in BotRequest \ {r} : request'[s] = request[s]
  BY <1>r
<1>o. \A s \in BotRequest : request'[s].update = request[s].update /\ request'[s].open = request[s].open
  BY <1>q
<1>w. \A s \in BotRequest : Working(s)' <=> Working(s)
  BY <1>q DEF Working
<1>s. \A v \in Update : SameOrMore(v)
  BY DEF SameOrMore, BotTypeOK
<1>0. BotTypeOK'
  <2>1. replies[u] + n \in Nat /\ losses[u] + d \in 0..MaxLosses
    BY UpdateType
  <2>2. replies' \in [Update -> Nat] /\ losses' \in [Update -> 0..MaxLosses]
    BY <2>1 DEF BotTypeOK
  <2>3. request' \in [BotRequest -> [pc: BotPc, update: Update \union {NoUpdate}, open: BOOLEAN]]
    BY <1>r
  <2>4. effects' \in [Update -> SUBSET Effect]
    BY DEF BotTypeOK
  <2> QED BY <2>2, <2>3, <2>4 DEF BotTypeOK
<1>1. OpenIsPosted'
  <2>1. \A s \in BotRequest : Handled(s)' = Handled(s)
    BY <1>o DEF Handled
  <2>2. \A s \in BotRequest : request'[s].open =>
          Working(s)' /\ Handled(s)' \in Update /\ update'[Handled(s)'].state = "posted"
    BY <2>1, <1>o, <1>w DEF OpenIsPosted
  <2>3. \A s, t \in BotRequest : request'[s].open /\ request'[t].open /\ Handled(s)' = Handled(t)' => s = t
    BY <2>1, <1>o DEF OpenIsPosted
  <2>4. \A v \in Update : update'[v].state = "posted" => \E s \in BotRequest : request'[s].open /\ Handled(s)' = v
    BY <2>1, <1>o DEF OpenIsPosted
  <2> QED BY <2>2, <2>3, <2>4 DEF OpenIsPosted
<1>2. WorkSound'
  <2> SUFFICES ASSUME NEW s \in BotRequest, Working(s)'
               PROVE  /\ Handled(s)' \in Update /\ update'[Handled(s)'].state # "none"
                      /\ Reached(request[s].pc, Handled(s))'
    BY DEF WorkSound
  <2>1. Handled(s)' = Handled(s) /\ Working(s)
    BY <1>o, <1>w DEF Handled
  <2>2. Handled(s) \in Update /\ update[Handled(s)].state # "none" /\ Reached(request[s].pc, Handled(s))
    BY <2>1 DEF WorkSound
  <2>3. CASE s = r
    BY <2>1, <2>2, <2>3, <1>q
  <2>4. CASE s # r
    <3> DEFINE p == request[s].pc
               v == Handled(s)
    <3>1. Reached(p, v) /\ SameOrMore(v)
      BY <2>2, <1>s
    <3>2. v \in Update
      BY <2>2
    <3>3. p' = p /\ v' = v
      BY <2>1, <2>4, <1>q
    <3> HIDE DEF p, v
    <3>4. \A x \in Update, y \in {p} : Reached(y, x) /\ SameOrMore(x) => Reached(y, x)'
      BY ReachedStays
    <3>5. Reached(p, v)'
      BY <3>1, <3>2, <3>3, <3>4
    <3> QED BY <3>5, <2>1, <2>2 DEF p, v
  <2> QED BY <2>3, <2>4
<1>3. ASSUME NEW v \in Update, v # u PROVE (WithinBudget(v) /\ BroughtSound(v))'
  <2>1. Unspent(v)' = Unspent(v)
    BY <1>q, <1>3 DEF Unspent, Working, MayYetSend, Handled
  <2>2. replies'[v] = replies[v] /\ losses'[v] = losses[v] /\ effects'[v] = effects[v]
    BY <1>3 DEF BotTypeOK
  <2>3. Unposted(v)' = Unposted(v) /\ Owed(v)' = Owed(v)
    BY <2>2 DEF Unposted, Owed, TurnsOff
  <2> QED BY <2>1, <2>2, <2>3 DEF WithinBudget, BroughtSound
<1>4. WithinBudget(u)'
  <2>1. replies'[u] = replies[u] + n /\ losses'[u] = losses[u] + d
    BY DEF BotTypeOK
  <2>2. Unposted(u)' = Unposted(u) /\ Unposted(u) \in Nat
    BY DEF Unposted
  <2>3. replies[u] \in Nat /\ losses[u] \in Nat
    BY UpdateType
  <2>4. IsFiniteSet(Unspent(u)) /\ replies[u] + Cardinality(Unspent(u)) + Unposted(u) <= 1 + losses[u]
    BY DEF WithinBudget
  <2>5. /\ IsFiniteSet(Unspent(u) \ {r}) /\ Cardinality(Unspent(u) \ {r}) \in Nat
        /\ Cardinality(Unspent(u)) \in Nat
        /\ r \in Unspent(u) => Cardinality(Unspent(u) \ {r}) = Cardinality(Unspent(u)) - 1
        /\ r \notin Unspent(u) => Unspent(u) \ {r} = Unspent(u)
    BY <2>4, UnspentLess
  <2>6. \A s \in BotRequest \ {r} : s \in Unspent(u)' <=> s \in Unspent(u)
    BY <1>q DEF Unspent, Working, MayYetSend, Handled
  <2>7. r \in Unspent(u) <=> MayYetSend(r)
    BY DEF Unspent
  <2>8. r \in Unspent(u)' <=> MayYetSend(r)'
    BY <1>q DEF Unspent, Working, Handled
  <2>9. MayYetSend(r)' => MayYetSend(r)
    <3>1. CASE request[r].open
      BY <3>1, <1>q DEF MayYetSend
    <3>2. CASE ~request[r].open
      BY <3>2, <1>q DEF MayYetSend, Working
    <3> QED BY <3>1, <3>2
  <2>10. q = "ack" => ~MayYetSend(r)'
    BY <1>q DEF MayYetSend
  <2>11. CASE MayYetSend(r)' \/ ~MayYetSend(r)
    <3>1. Unspent(u)' = Unspent(u)
      BY <2>6, <2>7, <2>8, <2>9, <2>11 DEF Unspent
    <3>2. n <= d
      BY <2>10, <2>9, <2>11
    <3> QED BY <3>1, <3>2, <2>1, <2>2, <2>3, <2>4, <2>5 DEF WithinBudget
  <2>12. CASE ~MayYetSend(r)' /\ MayYetSend(r)
    <3>1. Unspent(u)' = Unspent(u) \ {r}
      BY <2>6, <2>8, <2>12 DEF Unspent
    <3>2. n <= d + 1
      OBVIOUS
    <3>3. IsFiniteSet(Unspent(u)') /\ Cardinality(Unspent(u)') = Cardinality(Unspent(u)) - 1
      BY <3>1, <2>5, <2>7, <2>12
    <3>4. replies'[u] + Cardinality(Unspent(u)') + Unposted(u)' <= 1 + losses'[u]
      BY <3>2, <3>3, <2>1, <2>2, <2>3, <2>4, <2>5
    <3> QED BY <3>3, <3>4 DEF WithinBudget
  <2> QED BY <2>11, <2>12
<1>5. BroughtSound(u)'
  <2>1. replies'[u] = replies[u] + n /\ replies[u] \in Nat /\ effects'[u] = effects[u] \union E
    BY UpdateType DEF BotTypeOK
  <2>2. BroughtSound(u)
    OBVIOUS
  <2>3. "message" \in effects'[u] => replies'[u] > 0
    <3>1. "message" \in effects'[u] => "message" \in effects[u] \/ "message" \in E
      BY <2>1
    <3>2. "message" \in effects[u] => replies[u] > 0
      BY <2>2 DEF BroughtSound
    <3>3. (replies[u] > 0 => replies'[u] > 0) /\ (n > 0 => replies'[u] > 0)
      BY <2>1
    <3> QED BY <3>1, <3>2, <3>3
  <2>4. u \in told' => "message" \in effects'[u]
    BY <2>1, <2>2 DEF BroughtSound
  <2>5. Owed(u)' \subseteq Owed(u)
    BY <1>s, OwedShrinks
  <2>6. update'[u].state = "done" => Owed(u)' \subseteq effects'[u]
    BY <2>1, <2>2, <2>5 DEF BroughtSound
  <2> QED BY <2>3, <2>4, <2>6 DEF BroughtSound
<1> QED BY <1>0, <1>1, <1>2, <1>3, <1>4, <1>5

(* What a place promises holds at the next one, after the step between.    *)
LEMMA FollowsReaches ==
  ASSUME BotTypeOK, NEW u \in Update, NEW pc \in {"account", "settings", "preference", "card", "sendCard", "send",
                                       "answer", "alert"},
         NEW E \in SUBSET Effect, SameOrMore(u), Reached(pc, u), effects'[u] = effects[u] \union E,
         update' = update,
         pc = "account" /\ update[u].person => "account" \in E,
         pc \in {"settings", "preference"} => pc \in E,
         pc \in {"sendCard", "send"} => "message" \in E,
         pc = "alert" => "alert" \in E,
         NEW q, q = Follows(pc, u)
  PROVE  Reached(q, u)'
<1>1. /\ pc = "account" => update[u].kind \in Command
      /\ pc = "settings" => TurnsOff(u) /\ "account" \in effects[u]
      /\ pc = "preference" => TurnsOff(u) /\ {"account", "settings"} \subseteq effects[u]
      /\ pc \in {"card", "sendCard"} => SendsCard(u) /\ "account" \in effects[u]
      /\ pc = "answer" => update[u].kind = "button"
      /\ pc = "alert" => update[u].kind \in Button
      /\ pc = "send" => /\ update[u].kind \in Command \union {"button"}
                        /\ Owed(u) \subseteq effects[u] \union {"message"}
  BY DEF Reached
<1>2. Owed(u)' \subseteq Owed(u)
  BY OwedShrinks
<1>3. TurnsOff(u)' = TurnsOff(u) /\ SendsCard(u)' = SendsCard(u)
  BY DEF TurnsOff, SendsCard
<1>4. update[u].person \in BOOLEAN
  BY UpdateType DEF Post
<1>5. CASE pc = "account"
  <2>0. ~(TurnsOff(u) /\ SendsCard(u))
    BY DEF TurnsOff, SendsCard
  <2>1. q = IF TurnsOff(u) THEN "settings" ELSE IF SendsCard(u) THEN "card" ELSE "send"
    BY <1>5, <2>0 DEF Follows
  <2>2. CASE TurnsOff(u)
    BY <2>1, <2>2, <1>3, <1>5 DEF Reached, TurnsOff
  <2>3. CASE ~TurnsOff(u) /\ SendsCard(u)
    BY <2>1, <2>3, <1>3, <1>5 DEF Reached, SendsCard
  <2>4. CASE ~TurnsOff(u) /\ ~SendsCard(u)
    <3>1. Owed(u)' = {"message"} \union IF update[u].person THEN {"account"} ELSE {}
      BY <2>4, <1>1, <1>3, <1>5 DEF Owed, Command
    <3>2. Owed(u)' \subseteq effects'[u] \union {"message"}
      BY <3>1, <1>5, <1>4
    <3> QED BY <2>1, <2>4, <3>2, <1>1, <1>5 DEF Reached
  <2> QED BY <2>2, <2>3, <2>4
<1>6. CASE pc = "settings"
  BY <1>6, <1>1, <1>3 DEF Follows, Reached
<1>7. CASE pc = "preference"
  <2>1. q = "send"
    BY <1>7 DEF Follows
  <2>2. Owed(u)' = {"account", "settings", "preference", "message"} /\ update'[u].kind \in Command
    BY <1>7, <1>1, <1>3 DEF Owed, TurnsOff, Command
  <2>3. Owed(u)' \subseteq effects'[u] \union {"message"}
    BY <2>2, <1>1, <1>7
  <2> QED BY <2>1, <2>2, <2>3 DEF Reached
<1>8. CASE pc = "card"
  BY <1>8, <1>1, <1>3 DEF Follows, Reached
<1>9. CASE pc = "sendCard"
  <2>1. q = "ack"
    BY <1>9 DEF Follows
  <2>2. Owed(u)' = {"message", "account"}
    BY <1>9, <1>1, <1>3 DEF Owed, SendsCard, TurnsOff
  <2> QED BY <2>1, <2>2, <1>1, <1>9 DEF Reached
<1>10. CASE pc = "send"
  <2>1. q = "ack"
    BY <1>10 DEF Follows
  <2>2. Owed(u)' \subseteq effects'[u]
    BY <1>1, <1>2, <1>10
  <2> QED BY <2>1, <2>2 DEF Reached
<1>11. CASE pc = "answer"
  <2>1. q = "send"
    BY <1>11 DEF Follows
  <2>2. update'[u].kind = "button"
    BY <1>11, <1>1
  <2>3. Owed(u)' = IF "alert" \in effects'[u] THEN {} ELSE {"message"}
    BY <2>2 DEF Owed, TurnsOff
  <2> QED BY <2>1, <2>2, <2>3 DEF Reached
<1>12. CASE pc = "alert"
  <2>1. q = "ack"
    BY <1>12 DEF Follows
  <2>2. update'[u].kind \in {"button", "unknown"} /\ "alert" \in effects'[u]
    BY <1>12, <1>1 DEF Button
  <2>3. Owed(u)' = IF update'[u].kind = "unknown" THEN {"alert"} ELSE {}
    BY <2>2 DEF Owed, TurnsOff
  <2> QED BY <2>1, <2>2, <2>3 DEF Reached
<1> QED BY <1>5, <1>6, <1>7, <1>8, <1>9, <1>10, <1>11, <1>12

(* And so it does when the step fails.                                     *)
LEMMA ErrorReaches ==
  ASSUME BotTypeOK, NEW u \in Update, NEW pc \in {"account", "settings", "preference", "card", "sendCard", "send",
                                       "answer", "alert"},
         SameOrMore(u), Reached(pc, u), update' = update,
         NEW q, q = OnError(pc, u)
  PROVE  Reached(q, u)'
<1>1. CASE pc \in {"card", "sendCard"}
  <2>1. q = "send"
    BY <1>1 DEF OnError
  <2>2. SendsCard(u) /\ "account" \in effects'[u]
    BY <1>1 DEF Reached, SameOrMore
  <2>3. Owed(u)' = {"message", "account"} /\ update'[u].kind \in Command
    BY <2>2 DEF Owed, SendsCard, TurnsOff, Command
  <2> QED BY <2>1, <2>2, <2>3 DEF Reached
<1>2. CASE pc \in {"answer", "send"} /\ update[u].kind = "button"
  <2>1. q = "alert"
    BY <1>2 DEF OnError
  <2> QED BY <2>1, <1>2 DEF Reached, Button
<1>3. CASE ~(pc \in {"card", "sendCard"}) /\ ~(pc \in {"answer", "send"} /\ update[u].kind = "button")
  <2>1. q = "failed"
    BY <1>3 DEF OnError
  <2> QED BY <2>1 DEF Reached
<1> QED BY <1>1, <1>2, <1>3

(* A variable that a step leaves alone is changed by nothing.              *)
LEMMA AddNothing ==
  ASSUME BotTypeOK, NEW u \in Update
  PROVE  /\ losses = [losses EXCEPT ![u] = @ + 0]
         /\ replies = [replies EXCEPT ![u] = @ + 0]
         /\ effects = [effects EXCEPT ![u] = @ \union {}]
<1>1. losses[u] + 0 = losses[u] /\ replies[u] + 0 = replies[u] /\ effects[u] \union {} = effects[u]
  BY UpdateType
<1> QED BY <1>1 DEF BotTypeOK

(* A request that is at work holds an update, and what its place promises. *)
LEMMA AtWork ==
  ASSUME BotInv, NEW r \in BotRequest, request[r].pc # "idle"
  PROVE  /\ Working(r) /\ Handled(r) \in Update
         /\ request[r].pc \in BotPc
         /\ Reached(request[r].pc, Handled(r))
         /\ losses[Handled(r)] \in Nat /\ losses[Handled(r)] <= MaxLosses
<1>1. Working(r) /\ Handled(r) \in Update /\ Reached(request[r].pc, Handled(r))
  BY DEF Working, WorkSound, BotInv
<1>2. request[r].pc \in BotPc
  BY RequestType DEF BotInv
<1>3. losses[Handled(r)] \in Nat /\ losses[Handled(r)] <= MaxLosses
  BY <1>1, UpdateType, BotAssumption DEF BotInv
<1> QED BY <1>1, <1>2, <1>3

(* The place that follows, and the one after an error, is not one that     *)
(* brings back a message that can no longer be sent.                       *)
LEMMA NoWayBack ==
  ASSUME NEW u \in Update, NEW pc \in {"account", "settings", "preference", "card", "sendCard", "send",
                                       "answer", "alert"}
  PROVE  /\ pc = "alert" => Follows(pc, u) = "ack" /\ OnError(pc, u) = "failed"
         /\ pc \in {"sendCard", "send"} => Follows(pc, u) = "ack"
         /\ OnError(pc, u) # "ack"
BY DEF Follows, OnError

Places == {"account", "settings", "preference", "card", "sendCard", "send", "answer", "alert"}

(* Steps that succeed and send no message.                                 *)
LEMMA SilentKeeps ==
  ASSUME BotInv, NEW r \in BotRequest, NEW u \in Update, Handled(r) = u,
         NEW pc \in Places \ {"sendCard", "send"}, RequestAt(r, pc),
         NEW E \in SUBSET (Effect \ {"message"}),
         effects' = [effects EXCEPT ![u] = @ \union E],
         pc = "account" /\ update[u].person => "account" \in E,
         pc \in {"settings", "preference"} => pc \in E,
         pc = "alert" => "alert" \in E,
         Succeeds(r),
         reminders' \in [settings: BOOLEAN, preference: BOOLEAN],
         UNCHANGED <<update, replies, losses, told, registered>>
  PROVE  BotInv'
<1>1. pc \in BotPc /\ Follows(pc, u) \in BotPc \ {"idle"}
  BY StepsSound DEF Places, BotPc
<1>5. PICK q \in BotPc \ {"idle"} : q = Follows(pc, u)
  BY <1>1
<1>2. /\ Working(r) /\ Reached(pc, u) /\ request[r].pc = pc /\ losses[u] + 0 <= MaxLosses
  BY AtWork DEF RequestAt, Places
<1>3. request' = [request EXCEPT ![r].pc = q]
  BY <1>2, <1>5 DEF Succeeds, BotInv, BotTypeOK
<1>4. SameOrMore(u) /\ effects'[u] = effects[u] \union E
  BY DEF SameOrMore, BotInv, BotTypeOK
<1>6. pc = "alert" => q = "ack"
  BY <1>5, NoWayBack DEF Places
<1>7. Reached(q, u)'
  BY <1>2, <1>4, <1>5, FollowsReaches DEF Places, BotInv
<1>8. /\ losses' = [losses EXCEPT ![u] = @ + 0] /\ replies' = [replies EXCEPT ![u] = @ + 0]
  BY AddNothing DEF BotInv
<1>9. request[r].pc \notin {"alert", "ack", "failed"} \/ q = "ack"
  BY <1>2, <1>6 DEF Places
<1>10. request[r].pc # "ack"
  BY <1>2 DEF Places
<1>11. 0 <= 0 + (IF q = "ack" /\ request[r].pc # "ack" /\ MayYetSend(r) THEN 1 ELSE 0)
  OBVIOUS
<1>12. E \in SUBSET Effect /\ "message" \notin E
  OBVIOUS
<1> QED BY <1>1, <1>2, <1>3, <1>7, <1>8, <1>9, <1>10, <1>11, <1>12, MoveKeeps

(* Steps that fail, having sent a message whose answer was lost or none.   *)
LEMMA ErrorKeeps ==
  ASSUME BotInv, NEW r \in BotRequest, NEW u \in Update, Handled(r) = u,
         NEW pc \in Places, RequestAt(r, pc),
         NEW E \in SUBSET Effect, NEW n \in Nat, NEW d \in {0, 1},
         effects' = [effects EXCEPT ![u] = @ \union E],
         replies' = [replies EXCEPT ![u] = @ + n],
         losses' = [losses EXCEPT ![u] = @ + d],
         losses[u] + d <= MaxLosses, n <= d, "message" \in E => n > 0,
         Errs(r),
         UNCHANGED <<update, reminders, told, registered>>
  PROVE  BotInv'
<1>1. pc \in BotPc /\ OnError(pc, u) \in BotPc \ {"idle"}
  BY StepsSound DEF Places, BotPc
<1>5. PICK q \in BotPc \ {"idle"} : q = OnError(pc, u)
  BY <1>1
<1>2. /\ Working(r) /\ Reached(pc, u) /\ request[r].pc = pc
  BY AtWork DEF RequestAt, Places
<1>3. request' = [request EXCEPT ![r].pc = q]
  BY <1>2, <1>5 DEF Errs, BotInv, BotTypeOK
<1>4. SameOrMore(u)
  BY DEF SameOrMore, BotInv, BotTypeOK
<1>6. (pc = "alert" => q = "failed") /\ q # "ack"
  BY <1>5, NoWayBack DEF Places
<1>7. Reached(q, u)'
  BY <1>2, <1>4, <1>5, ErrorReaches DEF Places, BotInv
<1>8. request[r].pc \notin {"alert", "ack", "failed"} \/ q = "failed"
  BY <1>2, <1>6 DEF Places
<1>9. request[r].pc # "ack"
  BY <1>2 DEF Places
<1>10. n <= d + (IF q = "ack" /\ request[r].pc # "ack" /\ MayYetSend(r) THEN 1 ELSE 0)
  BY <1>6
<1>11. reminders' \in [settings: BOOLEAN, preference: BOOLEAN] /\ registered' = registered
  BY DEF BotInv, BotTypeOK
<1>12. d \in Nat
  OBVIOUS
<1> QED BY <1>1, <1>2, <1>3, <1>7, <1>8, <1>9, <1>10, <1>11, <1>12, MoveKeeps

(* A message that is sent and answered is the last of its request.         *)
LEMMA SentKeeps ==
  ASSUME BotInv, NEW r \in BotRequest, NEW u \in Update, Handled(r) = u,
         NEW pc \in {"sendCard", "send"}, RequestAt(r, pc),
         effects' = [effects EXCEPT ![u] = @ \union {"message"}],
         replies' = [replies EXCEPT ![u] = @ + 1],
         Succeeds(r),
         UNCHANGED <<update, losses, reminders, told, registered>>
  PROVE  BotInv'
<1>1. /\ Working(r) /\ Reached(pc, u) /\ request[r].pc = pc /\ losses[u] + 0 <= MaxLosses
  BY AtWork DEF RequestAt
<1>2. Follows(pc, u) = "ack" /\ "ack" \in BotPc \ {"idle"}
  BY NoWayBack DEF BotPc
<1>3. request' = [request EXCEPT ![r].pc = "ack"]
  BY <1>1, <1>2 DEF Succeeds, BotInv, BotTypeOK
<1>4. SameOrMore(u) /\ effects'[u] = effects[u] \union {"message"}
  BY DEF SameOrMore, BotInv, BotTypeOK
<1>5. {"message"} \in SUBSET Effect
  BY DEF Effect
<1>6. Reached("ack", u)'
  <2>1. PICK q : q = Follows(pc, u)
    OBVIOUS
  <2>2. Reached(q, u)'
    BY <2>1, <1>1, <1>4, <1>5, FollowsReaches DEF BotInv
  <2> QED BY <2>1, <2>2, <1>2
<1>7. losses' = [losses EXCEPT ![u] = @ + 0]
  BY AddNothing DEF BotInv
<1>8. MayYetSend(r) /\ request[r].pc \notin {"alert", "ack", "failed"}
  BY <1>1 DEF MayYetSend
<1>9. 1 <= 0 + (IF "ack" = "ack" /\ request[r].pc # "ack" /\ MayYetSend(r) THEN 1 ELSE 0)
  BY <1>8
<1>10. reminders' \in [settings: BOOLEAN, preference: BOOLEAN] /\ registered' = registered
  BY DEF BotInv, BotTypeOK
<1>11. PICK q \in BotPc \ {"idle"}, n \in Nat, d \in Nat, E \in SUBSET Effect :
         /\ q = "ack" /\ n = 1 /\ d = 0 /\ E = {"message"}
  BY <1>2, <1>5
<1>12. /\ request' = [request EXCEPT ![r].pc = q] /\ Reached(q, u)'
       /\ losses' = [losses EXCEPT ![u] = @ + d] /\ replies' = [replies EXCEPT ![u] = @ + n]
       /\ effects' = [effects EXCEPT ![u] = @ \union E] /\ losses[u] + d <= MaxLosses
       /\ update' = update /\ told' = told
  BY <1>1, <1>3, <1>6, <1>7, <1>11
<1>13. /\ n <= d + (IF q = "ack" /\ request[r].pc # "ack" /\ MayYetSend(r) THEN 1 ELSE 0)
       /\ "message" \in E => n > 0
  BY <1>9, <1>11
<1> QED BY ONLY BotInv, Handled(r) = u, <1>1, <1>8, <1>10, <1>11, <1>12, <1>13, MoveKeeps

LEMMA SendMessageKeeps ==
  ASSUME BotInv, NEW r \in BotRequest, NEW served \in BOOLEAN, NEW answered \in BOOLEAN,
         SendMessage(r, served, answered)
  PROVE  BotInv'
<1>1. PICK pc \in {"sendCard", "send"} : request[r].pc = pc
  BY DEF SendMessage
<1>2. PICK u \in Update : Handled(r) = u
  BY <1>1, AtWork
<1>3. losses[u] \in Nat /\ losses[u] <= MaxLosses /\ RequestAt(r, pc) /\ pc \in Places
  BY <1>1, <1>2, AtWork DEF RequestAt, Places
<1>4. CASE answered
  <2>1. served /\ Succeeds(r) /\ UNCHANGED <<update, losses, reminders, told, registered>>
    BY <1>4 DEF SendMessage, CallTelegram
  <2>2. /\ effects' = [effects EXCEPT ![u] = @ \union {"message"}]
        /\ replies' = [replies EXCEPT ![u] = @ + 1]
    BY <2>1, <1>2 DEF SendMessage, Brings
  <2> QED BY <2>1, <2>2, <1>1, <1>2, <1>3, SentKeeps
<1>5. CASE ~answered /\ served
  <2>1. /\ Errs(r) /\ UNCHANGED <<update, reminders, told, registered>>
        /\ losses[u] < MaxLosses /\ losses' = [losses EXCEPT ![u] = @ + 1]
    BY <1>5, <1>2 DEF SendMessage, CallTelegram, Loses
  <2>2. /\ effects' = [effects EXCEPT ![u] = @ \union {"message"}]
        /\ replies' = [replies EXCEPT ![u] = @ + 1]
    BY <1>5, <1>2 DEF SendMessage, Brings
  <2>3. {"message"} \in SUBSET Effect /\ losses[u] + 1 <= MaxLosses
    BY <2>1, <1>3, BotAssumption DEF Effect
  <2>4. PICK n \in Nat, d \in {0, 1}, E \in SUBSET Effect : n = 1 /\ d = 1 /\ E = {"message"}
    BY <2>3
  <2>5. /\ losses' = [losses EXCEPT ![u] = @ + d] /\ replies' = [replies EXCEPT ![u] = @ + n]
        /\ effects' = [effects EXCEPT ![u] = @ \union E] /\ losses[u] + d <= MaxLosses
        /\ n <= d /\ n > 0
    BY <2>1, <2>2, <2>3, <2>4
  <2>6. Errs(r) /\ UNCHANGED <<update, reminders, told, registered>>
    BY <2>1
  <2>7. "message" \in E => n > 0
    BY <2>5
  <2> QED BY <2>5, <2>6, <2>7, <1>2, <1>3, ErrorKeeps
<1>6. CASE ~answered /\ ~served
  <2>1. /\ Errs(r) /\ UNCHANGED <<update, reminders, told, registered, losses, effects>>
    BY <1>6, <1>2 DEF SendMessage, CallTelegram
  <2>2. replies' = [replies EXCEPT ![u] = @ + 0]
    BY <1>6, <1>2 DEF SendMessage
  <2>3. losses' = [losses EXCEPT ![u] = @ + 0] /\ effects' = [effects EXCEPT ![u] = @ \union {}]
    BY <2>1, AddNothing DEF BotInv
  <2>4. losses[u] + 0 <= MaxLosses /\ {} \in SUBSET Effect
    BY <1>3
  <2>5. PICK n \in Nat, d \in {0, 1}, E \in SUBSET Effect : n = 0 /\ d = 0 /\ E = {}
    BY <2>4
  <2>6. /\ losses' = [losses EXCEPT ![u] = @ + d] /\ replies' = [replies EXCEPT ![u] = @ + n]
        /\ effects' = [effects EXCEPT ![u] = @ \union E] /\ losses[u] + d <= MaxLosses
        /\ n <= d /\ "message" \notin E
    BY <2>2, <2>3, <2>4, <2>5
  <2> QED BY <2>1, <2>6, <1>2, <1>3, ErrorKeeps
<1> QED BY <1>4, <1>5, <1>6

LEMMA AnswerCallbackKeeps ==
  ASSUME BotInv, NEW r \in BotRequest, NEW served \in BOOLEAN, NEW answered \in BOOLEAN,
         AnswerCallbackQuery(r, served, answered)
  PROVE  BotInv'
<1>1. PICK pc \in {"answer", "alert"} : request[r].pc = pc
  BY DEF AnswerCallbackQuery
<1>2. PICK u \in Update : Handled(r) = u
  BY <1>1, AtWork
<1>3. /\ losses[u] \in Nat /\ losses[u] <= MaxLosses /\ RequestAt(r, pc)
      /\ pc \in Places \ {"sendCard", "send"}
  BY <1>1, <1>2, AtWork DEF RequestAt, Places
<1>4. PICK E \in SUBSET {"alert"} :
        /\ effects' = [effects EXCEPT ![u] = @ \union E]
        /\ served /\ pc = "alert" => "alert" \in E
  <2>1. CASE served /\ pc = "alert"
    BY <2>1, <1>1, <1>2 DEF AnswerCallbackQuery, Brings, RequestAt
  <2>2. CASE ~(served /\ pc = "alert")
    <3>1. effects' = effects
      BY <2>2, <1>1 DEF AnswerCallbackQuery, RequestAt
    <3>2. effects' = [effects EXCEPT ![u] = @ \union {}]
      BY <3>1, AddNothing DEF BotInv
    <3>3. {} \in SUBSET {"alert"}
      OBVIOUS
    <3> QED BY <3>2, <3>3, <2>2, ZenonT(30)
  <2> QED BY <2>1, <2>2
<1>5. E \in SUBSET (Effect \ {"message"}) /\ "message" \notin E /\ E \in SUBSET Effect
  BY DEF Effect
<1>6. CASE answered
  <2>1. /\ served /\ Succeeds(r) /\ UNCHANGED <<update, replies, losses, told, registered>>
        /\ reminders' \in [settings: BOOLEAN, preference: BOOLEAN]
    BY <1>6 DEF AnswerCallbackQuery, CallTelegram, BotInv, BotTypeOK
  <2>2. pc # "account" /\ pc \notin {"settings", "preference"}
    BY <1>1
  <2>3. pc = "alert" => "alert" \in E
    BY <2>1, <1>4, Zenon
  <2>4. effects' = [effects EXCEPT ![u] = @ \union E]
    BY <1>4
  <2> QED BY <2>1, <2>2, <2>3, <2>4, <1>2, <1>3, <1>5, SilentKeeps
<1>7. CASE ~answered
  <2>1. Errs(r) /\ UNCHANGED <<update, replies, reminders, told, registered>>
    BY <1>7 DEF AnswerCallbackQuery, CallTelegram
  <2>2. replies' = [replies EXCEPT ![u] = @ + 0]
    BY <2>1, AddNothing DEF BotInv
  <2>3. PICK d \in {0, 1} : losses' = [losses EXCEPT ![u] = @ + d] /\ losses[u] + d <= MaxLosses
    <3>1. CASE served
      <4>1. losses[u] < MaxLosses /\ losses' = [losses EXCEPT ![u] = @ + 1]
        BY <1>7, <3>1, <1>2 DEF AnswerCallbackQuery, CallTelegram, Loses
      <4> QED BY <4>1, <1>3, BotAssumption
    <3>2. CASE ~served
      <4>1. losses' = losses
        BY <1>7, <3>2 DEF AnswerCallbackQuery, CallTelegram
      <4>2. losses' = [losses EXCEPT ![u] = @ + 0]
        BY <4>1, AddNothing DEF BotInv
      <4>3. losses[u] + 0 <= MaxLosses
        BY <1>3
      <4> QED BY <4>2, <4>3
    <3> QED BY <3>1, <3>2
  <2>4. PICK n \in Nat : n = 0
    OBVIOUS
  <2>5. replies' = [replies EXCEPT ![u] = @ + n] /\ n <= d
    BY <2>2, <2>4
  <2>6. /\ losses' = [losses EXCEPT ![u] = @ + d] /\ losses[u] + d <= MaxLosses
        /\ effects' = [effects EXCEPT ![u] = @ \union E] /\ "message" \notin E /\ E \in SUBSET Effect
    BY <2>3, <1>4, <1>5
  <2>7. pc \in Places /\ RequestAt(r, pc)
    BY <1>3
  <2> QED BY <2>1, <2>5, <2>6, <2>7, <1>2, ErrorKeeps
<1> QED BY <1>6, <1>7

(* The steps that call nobody.                                             *)
LEMMA QuietStepKeeps ==
  ASSUME BotInv, NEW r \in BotRequest,
         UpsertSender(r) \/ DisableInSettings(r) \/ DisablePreference(r) \/ BuildCard(r)
  PROVE  BotInv'
<1>1. PICK pc \in {"account", "settings", "preference", "card"} :
        /\ request[r].pc = pc
        /\ pc = "account" => UpsertSender(r)
        /\ pc = "settings" => DisableInSettings(r)
        /\ pc = "preference" => DisablePreference(r)
        /\ pc = "card" => BuildCard(r)
  BY DEF UpsertSender, DisableInSettings, DisablePreference, BuildCard, RequestAt
<1>2. PICK u \in Update : Handled(r) = u
  BY <1>1, AtWork
<1>3. RequestAt(r, pc) /\ pc \in Places \ {"sendCard", "send"}
  BY <1>1 DEF RequestAt, Places
<1>4. /\ Succeeds(r) /\ UNCHANGED <<update, replies, losses, told, registered>>
      /\ reminders' \in [settings: BOOLEAN, preference: BOOLEAN]
  <2>1. Succeeds(r) /\ UNCHANGED <<update, replies, losses, told, registered>>
    BY <1>1 DEF UpsertSender, DisableInSettings, DisablePreference, BuildCard
  <2>2. reminders \in [settings: BOOLEAN, preference: BOOLEAN]
    BY DEF BotInv, BotTypeOK
  <2>3. \/ reminders' = reminders
        \/ reminders' = [reminders EXCEPT !.settings = FALSE]
        \/ reminders' = [reminders EXCEPT !.preference = FALSE]
    BY <1>1 DEF UpsertSender, DisableInSettings, DisablePreference, BuildCard
  <2> QED BY <2>1, <2>2, <2>3
<1>5. PICK E \in SUBSET {"account", "settings", "preference"} :
        /\ effects' = [effects EXCEPT ![u] = @ \union E]
        /\ pc = "account" /\ update[u].person => "account" \in E
        /\ pc \in {"settings", "preference"} => pc \in E
  <2>1. effects = [effects EXCEPT ![u] = @ \union {}]
    BY AddNothing DEF BotInv
  <2>2. CASE pc = "account" /\ update[u].person
    BY <2>2, <1>1, <1>2 DEF UpsertSender, Brings
  <2>3. CASE pc = "account" /\ ~update[u].person
    BY <2>1, <2>3, <1>1, <1>2 DEF UpsertSender
  <2>4. CASE pc = "settings"
    BY <2>4, <1>1, <1>2 DEF DisableInSettings, Brings
  <2>5. CASE pc = "preference"
    BY <2>5, <1>1, <1>2 DEF DisablePreference, Brings
  <2>6. CASE pc = "card"
    BY <2>1, <2>6, <1>1 DEF BuildCard
  <2> QED BY <2>2, <2>3, <2>4, <2>5, <2>6
<1>6. E \in SUBSET (Effect \ {"message"})
  BY DEF Effect
<1>7. pc # "alert"
  OBVIOUS
<1> QED BY <1>2, <1>3, <1>4, <1>5, <1>6, <1>7, SilentKeeps

LEMMA StepFailsKeeps ==
  ASSUME BotInv, NEW r \in BotRequest, StepFails(r)
  PROVE  BotInv'
<1>1. PICK pc \in {"account", "settings", "preference", "card"} : request[r].pc = pc
  BY DEF StepFails
<1>2. PICK u \in Update : Handled(r) = u
  BY <1>1, AtWork
<1>3. RequestAt(r, pc) /\ pc \in Places /\ losses[u] + 0 <= MaxLosses
  BY <1>1, <1>2, AtWork DEF RequestAt, Places
<1>4. Errs(r) /\ UNCHANGED <<update, effects, replies, losses, reminders, told, registered>>
  BY DEF StepFails
<1>5. /\ losses' = [losses EXCEPT ![u] = @ + 0] /\ replies' = [replies EXCEPT ![u] = @ + 0]
      /\ effects' = [effects EXCEPT ![u] = @ \union {}]
  BY <1>4, AddNothing DEF BotInv
<1>6. PICK n \in Nat, d \in {0, 1}, E \in SUBSET Effect : n = 0 /\ d = 0 /\ E = {}
  OBVIOUS
<1>7. /\ losses' = [losses EXCEPT ![u] = @ + d] /\ replies' = [replies EXCEPT ![u] = @ + n]
      /\ effects' = [effects EXCEPT ![u] = @ \union E] /\ losses[u] + d <= MaxLosses
      /\ n <= d /\ "message" \notin E
  BY <1>3, <1>5, <1>6
<1> QED BY <1>2, <1>3, <1>4, <1>7, ErrorKeeps

----------------------------------------------------------------------------
(* The bot: Telegram and the webhook. *)

One(b) == IF b THEN 1 ELSE 0
Spare(r, u) == One(r \in Unspent(u))

(* Counting: two sets that differ in one element at most.                  *)
LEMMA DifferInOne ==
  ASSUME NEW S, NEW T, NEW r, IsFiniteSet(S), T \ {r} = S \ {r}
  PROVE  /\ IsFiniteSet(T) /\ Cardinality(S) \in Nat /\ Cardinality(T) \in Nat
         /\ Cardinality(T) + One(r \in S) = Cardinality(S) + One(r \in T)
<1>1. /\ IsFiniteSet(S \ {r}) /\ Cardinality(S \ {r}) \in Nat /\ Cardinality(S) \in Nat
      /\ r \in S => Cardinality(S \ {r}) = Cardinality(S) - 1
      /\ r \notin S => S \ {r} = S
  BY UnspentLess
<1>2. CASE r \in T
  <2>1. T = (S \ {r}) \union {r} /\ r \notin S \ {r}
    BY <1>2
  <2>2. IsFiniteSet(T) /\ Cardinality(T) = Cardinality(S \ {r}) + 1
    BY <2>1, <1>1, FS_AddElement
  <2>3. CASE r \in S
    BY <2>2, <2>3, <1>1, <1>2 DEF One
  <2>4. CASE r \notin S
    BY <2>2, <2>4, <1>1, <1>2 DEF One
  <2> QED BY <2>3, <2>4
<1>3. CASE r \notin T
  <2>1. T = S \ {r}
    BY <1>3
  <2>2. CASE r \in S
    BY <2>1, <2>2, <1>1, <1>3 DEF One
  <2>3. CASE r \notin S
    BY <2>1, <2>3, <1>1, <1>3 DEF One
  <2> QED BY <2>2, <2>3
<1> QED BY <1>2, <1>3

(* Telegram and one request deal with one update: it is posted, given up   *)
(* or answered.                                                            *)
LEMMA TurnKeeps ==
  ASSUME BotInv, BotTypeOK', NEW r \in BotRequest, NEW u \in Update, NEW d \in Nat,
         \A s \in BotRequest : s # r => request'[s] = request[s],
         Working(r) => Handled(r) = u,
         \A s \in BotRequest : s # r /\ request[s].open => Handled(s) # u,
         \A v \in Update : v # u => update'[v] = update[v],
         update'[u].kind = update[u].kind, update'[u].person = update[u].person,
         update'[u].state # "none",
         request'[r].open <=> update'[u].state = "posted",
         request'[r].open => Working(r)' /\ Handled(r)' = u,
         Working(r)' => Handled(r)' = u /\ Reached(request'[r].pc, u),
         update'[u].state = "done" => Owed(u) \subseteq effects[u],
         losses' = [losses EXCEPT ![u] = @ + d],
         Spare(r, u)' + Unposted(u)' <= Spare(r, u) + Unposted(u) + d,
         UNCHANGED <<effects, replies, told>>
  PROVE  BotInv'
<1> USE DEF BotInv
<1>s. \A v \in Update : SameOrMore(v)
  BY DEF SameOrMore
<1>h. \A s \in BotRequest : s # r => Handled(s)' = Handled(s) /\ (Working(s)' <=> Working(s))
  BY DEF Handled, Working
<1>1. OpenIsPosted'
  <2>1. \A s \in BotRequest : request'[s].open =>
          Working(s)' /\ Handled(s)' \in Update /\ update'[Handled(s)'].state = "posted"
    BY <1>h DEF OpenIsPosted
  <2>2. \A s, t \in BotRequest : request'[s].open /\ request'[t].open /\ Handled(s)' = Handled(t)' => s = t
    BY <1>h DEF OpenIsPosted
  <2>3. \A v \in Update : update'[v].state = "posted" => \E s \in BotRequest : request'[s].open /\ Handled(s)' = v
    <3> SUFFICES ASSUME NEW v \in Update, update'[v].state = "posted"
                 PROVE  \E s \in BotRequest : request'[s].open /\ Handled(s)' = v
      OBVIOUS
    <3>1. CASE v = u
      BY <3>1
    <3>2. CASE v # u
      <4>1. PICK s \in BotRequest : request[s].open /\ Handled(s) = v
        BY <3>2 DEF OpenIsPosted
      <4>2. s # r
        BY <4>1, <3>2 DEF OpenIsPosted
      <4> QED BY <4>1, <4>2, <1>h
    <3> QED BY <3>1, <3>2
  <2> QED BY <2>1, <2>2, <2>3 DEF OpenIsPosted
<1>2. WorkSound'
  <2> SUFFICES ASSUME NEW s \in BotRequest, Working(s)'
               PROVE  /\ Handled(s)' \in Update /\ update'[Handled(s)'].state # "none"
                      /\ Reached(request[s].pc, Handled(s))'
    BY DEF WorkSound
  <2>1. PICK p, v : p = request'[s].pc /\ v = Handled(s)'
    OBVIOUS
  <2>2. v \in Update /\ update'[v].state # "none" /\ Reached(p, v)
    <3>1. CASE s = r
      BY <2>1, <3>1
    <3>2. CASE s # r
      <4>1. Working(s) /\ p = request[s].pc /\ v = Handled(s)
        BY <2>1, <3>2, <1>h
      <4>2. v \in Update /\ update[v].state # "none" /\ Reached(p, v)
        BY <4>1 DEF WorkSound
      <4> QED BY <4>2
    <3> QED BY <3>1, <3>2
  <2>3. Reached(p, v)'
    BY <2>2, <1>s, ReachedStays
  <2> QED BY <2>1, <2>2, <2>3
<1>3. ASSUME NEW v \in Update, v # u PROVE (WithinBudget(v) /\ BroughtSound(v))'
  <2>1. \A s \in BotRequest : s \in Unspent(v)' <=> s \in Unspent(v)
    <3> TAKE s \in BotRequest
    <3>1. CASE s = r
      BY <3>1, <1>3 DEF Unspent
    <3>2. CASE s # r
      BY <3>2, <1>h DEF Unspent, MayYetSend
    <3> QED BY <3>1, <3>2
  <2>2. Unspent(v)' = Unspent(v)
    BY <2>1 DEF Unspent
  <2>3. replies'[v] = replies[v] /\ losses'[v] = losses[v] /\ effects'[v] = effects[v] /\ update'[v] = update[v]
    BY <1>3 DEF BotTypeOK
  <2>4. Unposted(v)' = Unposted(v) /\ Owed(v)' = Owed(v)
    BY <2>3 DEF Unposted, Owed, TurnsOff
  <2>5. WithinBudget(v) /\ BroughtSound(v)
    OBVIOUS
  <2>6. WithinBudget(v)'
    BY <2>2, <2>3, <2>4, <2>5 DEF WithinBudget
  <2>7. BroughtSound(v)'
    BY <2>3, <2>4, <2>5 DEF BroughtSound
  <2> QED BY <2>6, <2>7
<1>4. WithinBudget(u)'
  <2>1. \A s \in BotRequest \ {r} : s \in Unspent(u)' <=> s \in Unspent(u)
    BY <1>h DEF Unspent, MayYetSend
  <2>2. Unspent(u)' \ {r} = Unspent(u) \ {r}
    BY <2>1 DEF Unspent
  <2>3. IsFiniteSet(Unspent(u)) /\ replies[u] + Cardinality(Unspent(u)) + Unposted(u) <= 1 + losses[u]
    BY DEF WithinBudget
  <2>4. /\ IsFiniteSet(Unspent(u)') /\ Cardinality(Unspent(u)) \in Nat /\ Cardinality(Unspent(u)') \in Nat
        /\ Cardinality(Unspent(u)') + Spare(r, u) = Cardinality(Unspent(u)) + Spare(r, u)'
    BY <2>2, <2>3, DifferInOne DEF Spare
  <2>5. replies'[u] = replies[u] /\ losses'[u] = losses[u] + d /\ replies[u] \in Nat /\ losses[u] \in Nat
    BY UpdateType DEF BotTypeOK
  <2>6. Spare(r, u)' + Unposted(u)' <= Spare(r, u) + Unposted(u) + d
    OBVIOUS
  <2>7. Spare(r, u)' \in Nat /\ Spare(r, u) \in Nat /\ Unposted(u) \in Nat /\ Unposted(u)' \in Nat
    BY DEF Spare, One, Unposted
  <2>8. replies'[u] + Cardinality(Unspent(u)') + Unposted(u)' <= 1 + losses'[u]
    BY <2>3, <2>4, <2>5, <2>6, <2>7
  <2> QED BY <2>4, <2>8 DEF WithinBudget
<1>5. BroughtSound(u)'
  <2>1. Owed(u)' \subseteq Owed(u)
    BY <1>s, OwedShrinks
  <2>2. BroughtSound(u)
    OBVIOUS
  <2> QED BY <2>1, <2>2 DEF BroughtSound
<1> QED BY <1>1, <1>2, <1>3, <1>4, <1>5

(* An update that nobody handles comes in, or is refused.                  *)
LEMMA PostKeeps ==
  ASSUME BotInv, BotTypeOK', NEW u \in Update,
         \A v \in Update : v # u => update'[v] = update[v],
         update[u].state \in {"none", "pending"}, update'[u].state \in {"pending", "dropped"},
         update[u].state # "none"
           => update'[u].kind = update[u].kind /\ update'[u].person = update[u].person,
         UNCHANGED <<request, effects, replies, losses, told>>
  PROVE  BotInv'
<1> USE DEF BotInv
<1>h. \A s \in BotRequest : Handled(s)' = Handled(s) /\ (Working(s)' <=> Working(s))
  BY DEF Handled, Working
<1>1. OpenIsPosted'
  <2>1. \A s \in BotRequest : request'[s].open =>
          Working(s)' /\ Handled(s)' \in Update /\ update'[Handled(s)'].state = "posted"
    BY <1>h DEF OpenIsPosted
  <2>2. \A s, t \in BotRequest : request'[s].open /\ request'[t].open /\ Handled(s)' = Handled(t)' => s = t
    BY <1>h DEF OpenIsPosted
  <2>3. \A v \in Update : update'[v].state = "posted" => \E s \in BotRequest : request'[s].open /\ Handled(s)' = v
    BY <1>h DEF OpenIsPosted
  <2> QED BY <2>1, <2>2, <2>3 DEF OpenIsPosted
<1>2. WorkSound'
  <2> SUFFICES ASSUME NEW s \in BotRequest, Working(s)'
               PROVE  /\ Handled(s)' \in Update /\ update'[Handled(s)'].state # "none"
                      /\ Reached(request[s].pc, Handled(s))'
    BY DEF WorkSound
  <2>1. PICK p, v : p = request[s].pc /\ v = Handled(s)
    OBVIOUS
  <2>2. v \in Update /\ update[v].state # "none" /\ Reached(p, v) /\ p = request'[s].pc /\ v = Handled(s)'
    BY <2>1, <1>h DEF WorkSound
  <2>3. SameOrMore(v) /\ update'[v].state # "none"
    BY <2>2 DEF SameOrMore
  <2>4. Reached(p, v)'
    BY <2>2, <2>3, ReachedStays
  <2> QED BY <2>2, <2>3, <2>4
<1>3. ASSUME NEW v \in Update PROVE (WithinBudget(v) /\ BroughtSound(v))'
  <2>1. Unspent(v)' = Unspent(v)
    BY DEF Unspent, Working, Handled, MayYetSend
  <2>2. Unposted(v)' <= Unposted(v) /\ Unposted(v)' \in Nat /\ Unposted(v) \in Nat
    BY DEF Unposted
  <2>3. WithinBudget(v)'
    <3>1. IsFiniteSet(Unspent(v)) /\ replies[v] + Cardinality(Unspent(v)) + Unposted(v) <= 1 + losses[v]
      BY DEF WithinBudget
    <3>2. replies[v] \in Nat /\ losses[v] \in Nat /\ Cardinality(Unspent(v)) \in Nat
      BY <3>1, UpdateType, FS_CardinalityType
    <3> QED BY <2>1, <2>2, <3>1, <3>2 DEF WithinBudget
  <2>4. BroughtSound(v)'
    <3>1. BroughtSound(v)
      OBVIOUS
    <3>2. CASE v = u
      BY <3>1, <3>2 DEF BroughtSound
    <3>3. CASE v # u
      BY <3>1, <3>3 DEF BroughtSound, Owed, TurnsOff
    <3> QED BY <3>2, <3>3
  <2> QED BY <2>3, <2>4
<1> QED BY <1>1, <1>2, <1>3

LEMMA ArriveKeeps ==
  ASSUME BotInv, NEW u \in Update, NEW kind \in Kind, NEW person \in BOOLEAN, Arrive(u, kind, person)
  PROVE  BotInv'
<1>1. PICK post : post = [NoPost EXCEPT !.kind = kind, !.person = person, !.state = "pending"]
  OBVIOUS
<1>2. post \in Post /\ post.state = "pending"
  <2>1. NoPost \in Post
    BY BotRecords
  <2> QED BY <2>1, <1>1 DEF Post
<1>3. update' = [update EXCEPT ![u] = post] /\ update[u].state = "none"
  BY <1>1 DEF Arrive
<1>4. UNCHANGED <<request, effects, replies, losses, reminders, told, registered>>
  BY DEF Arrive
<1>5. BotTypeOK'
  BY <1>2, <1>3, <1>4 DEF BotInv, BotTypeOK
<1>6. update'[u] = post /\ \A v \in Update : v # u => update'[v] = update[v]
  BY <1>3 DEF BotInv, BotTypeOK
<1> QED BY <1>2, <1>3, <1>4, <1>5, <1>6, PostKeeps

LEMMA RefuseKeeps ==
  ASSUME BotInv, NEW u \in Update, Refuse(u)
  PROVE  BotInv'
<1>1. PICK post : post = BackToTelegram(update[u])
  OBVIOUS
<1>2. /\ post \in Post /\ post.state \in {"pending", "dropped"}
      /\ post.kind = update[u].kind /\ post.person = update[u].person
  BY <1>1, BackSound, UpdateType DEF BotInv
<1>3. update' = [update EXCEPT ![u] = post] /\ update[u].state = "pending"
  BY <1>1 DEF Refuse
<1>4. UNCHANGED <<request, effects, replies, losses, reminders, told, registered>>
  BY DEF Refuse
<1>5. BotTypeOK'
  BY <1>2, <1>3, <1>4 DEF BotInv, BotTypeOK
<1>6. update'[u] = post /\ \A v \in Update : v # u => update'[v] = update[v]
  BY <1>3 DEF BotInv, BotTypeOK
<1> QED BY <1>2, <1>3, <1>4, <1>5, <1>6, PostKeeps

(* A request begins: nobody else has the update from Telegram.             *)
LEMMA DispatchKeeps ==
  ASSUME BotInv, NEW r \in BotRequest, NEW u \in Update, Dispatch(r, u)
  PROVE  BotInv'
<1> USE DEF BotInv
<1>1. PICK p : p = FirstStep(u)
  OBVIOUS
<1>2. p \in BotPc \ {"idle"}
  <2>1. "ack" \in BotPc
    BY DEF BotPc
  <2> QED BY <1>1, <2>1, StepsSound
<1>3. /\ request[r].pc = "idle" /\ update[u].state = "pending"
      /\ update' = [update EXCEPT ![u].state = "posted"]
      /\ request' = [request EXCEPT ![r] = [pc |-> p, update |-> u, open |-> TRUE]]
      /\ UNCHANGED <<effects, replies, losses, reminders, told, registered>>
  BY <1>1 DEF Dispatch, RequestAt
<1>4. /\ request'[r].pc = p /\ request'[r].update = u /\ request'[r].open
      /\ \A s \in BotRequest : s # r => request'[s] = request[s]
  BY <1>3 DEF BotTypeOK
<1>5. update[u] \in Post
  BY UpdateType
<1>6. /\ update'[u].state = "posted" /\ update'[u].kind = update[u].kind /\ update'[u].person = update[u].person
      /\ update'[u] \in Post
      /\ \A v \in Update : v # u => update'[v] = update[v]
  BY <1>3, <1>5 DEF BotTypeOK, Post
<1>7. BotTypeOK'
  <2>1. update' \in [Update -> Post]
    BY <1>3, <1>6 DEF BotTypeOK
  <2>2. request' \in [BotRequest -> [pc: BotPc, update: Update \union {NoUpdate}, open: BOOLEAN]]
    BY <1>2, <1>3 DEF BotTypeOK
  <2> QED BY <2>1, <2>2, <1>3 DEF BotTypeOK
<1>8. Handled(r)' = u /\ Working(r)'
  BY <1>2, <1>4 DEF Handled, Working
<1>10. \A s \in BotRequest : s # r /\ request[s].open => Handled(s) # u
  BY <1>3 DEF OpenIsPosted
<1>11. Reached(p, u)
  <2>1. CASE update[u].kind \in Command
    BY <2>1, <1>1 DEF FirstStep, Reached, Command
  <2>2. CASE update[u].kind = "button"
    BY <2>2, <1>1 DEF FirstStep, Reached, Command
  <2>3. CASE update[u].kind = "unknown"
    BY <2>3, <1>1 DEF FirstStep, Reached, Command, Button
  <2>4. CASE update[u].kind = "other"
    BY <2>4, <1>1 DEF FirstStep, Reached, Command, Owed, TurnsOff
  <2> QED BY <1>5, <2>1, <2>2, <2>3, <2>4 DEF Post, Kind, Button
<1>12. ~Working(r) /\ Unposted(u) = 1 /\ Unposted(u)' = 0
  BY <1>3, <1>6 DEF Working, Unposted
<1>13. Spare(r, u) = 0
  BY <1>12 DEF Spare, One, Unspent
<1>14. Spare(r, u)' <= 1 /\ Spare(r, u)' \in Nat
  BY DEF Spare, One
<1>15. PICK d \in Nat : d = 0
  OBVIOUS
<1>16. Spare(r, u)' + Unposted(u)' <= Spare(r, u) + Unposted(u) + d
  BY <1>12, <1>13, <1>14, <1>15
<1>17. losses' = [losses EXCEPT ![u] = @ + d]
  BY <1>3, <1>15, AddNothing
<1>18. /\ Working(r) => Handled(r) = u
       /\ Working(r)' => Handled(r)' = u /\ Reached(request'[r].pc, u)
  BY <1>4, <1>8, <1>11, <1>12
<1>19. request'[r].open <=> update'[u].state = "posted"
  BY <1>4, <1>6
<1>20. update'[u].state # "none" /\ update'[u].state # "done"
  BY <1>6
<1>21. UNCHANGED <<effects, replies, told>>
  BY <1>3
<1>22. request'[r].open => Working(r)' /\ Handled(r)' = u
  BY <1>8
<1>23. \A s \in BotRequest : s # r => request'[s] = request[s]
  BY <1>4
<1>24. /\ update'[u].kind = update[u].kind /\ update'[u].person = update[u].person
       /\ \A v \in Update : v # u => update'[v] = update[v]
  BY <1>6
<1> QED BY <1>7, <1>10, <1>16, <1>17, <1>18, <1>19, <1>20, <1>21, <1>22, <1>23, <1>24, TurnKeeps

(* The time limit: the request goes on for an update that goes back to     *)
(* Telegram, which the lost answer pays for.                               *)
LEMMA TimeoutKeeps ==
  ASSUME BotInv, NEW r \in BotRequest, TimeoutIntercepts(r)
  PROVE  BotInv'
<1> USE DEF BotInv
<1>1. request[r].pc # "idle" /\ request[r].open
  BY DEF TimeoutIntercepts, RequestAt
<1>2. PICK u \in Update : Handled(r) = u
  BY <1>1, AtWork
<1>3. PICK post : post = BackToTelegram(update[u])
  OBVIOUS
<1>4. /\ post \in Post /\ post.state \in {"pending", "dropped"}
      /\ post.kind = update[u].kind /\ post.person = update[u].person
  BY <1>3, BackSound, UpdateType
<1>5. PICK d \in Nat : d = 1
  OBVIOUS
<1>6. /\ update' = [update EXCEPT ![u] = post]
      /\ request' = [request EXCEPT ![r].open = FALSE]
      /\ losses[u] < MaxLosses /\ losses' = [losses EXCEPT ![u] = @ + d]
      /\ UNCHANGED <<effects, replies, reminders, told, registered>>
  BY <1>2, <1>3, <1>5 DEF TimeoutIntercepts, Loses
<1>7. /\ request'[r].pc = request[r].pc /\ request'[r].update = request[r].update /\ ~request'[r].open
      /\ \A s \in BotRequest : s # r => request'[s] = request[s]
      /\ request' \in [BotRequest -> [pc: BotPc, update: Update \union {NoUpdate}, open: BOOLEAN]]
  BY <1>6 DEF BotTypeOK
<1>8. update'[u] = post /\ \A v \in Update : v # u => update'[v] = update[v]
  BY <1>6 DEF BotTypeOK
<1>9. BotTypeOK'
  <2>1. losses[u] + d \in 0..MaxLosses
    BY <1>5, <1>6, UpdateType, BotAssumption
  <2>2. losses' \in [Update -> 0..MaxLosses]
    BY <2>1, <1>6 DEF BotTypeOK
  <2>3. update' \in [Update -> Post]
    BY <1>4, <1>6 DEF BotTypeOK
  <2> QED BY <2>2, <2>3, <1>6, <1>7 DEF BotTypeOK
<1>10. update[u].state = "posted" /\ \A s \in BotRequest : s # r /\ request[s].open => Handled(s) # u
  BY <1>1, <1>2 DEF OpenIsPosted
<1>11. Working(r) /\ Handled(r)' = u
  BY <1>1, <1>2, <1>7 DEF Working, Handled
<1>12. Reached(request'[r].pc, u)
  BY <1>1, <1>2, <1>7, AtWork
<1>13. Unposted(u) = 0 /\ Unposted(u)' <= d /\ Unposted(u)' \in Nat
  BY <1>4, <1>5, <1>8, <1>10 DEF Unposted
<1>14. Spare(r, u)' <= Spare(r, u) /\ Spare(r, u) \in Nat /\ Spare(r, u)' \in Nat
  <2>1. r \in Unspent(u)' => r \in Unspent(u)
    BY <1>1, <1>2, <1>7 DEF Unspent, MayYetSend, Working
  <2> QED BY <2>1 DEF Spare, One
<1>15. Spare(r, u)' + Unposted(u)' <= Spare(r, u) + Unposted(u) + d
  BY <1>5, <1>13, <1>14
<1>16. /\ request'[r].open <=> update'[u].state = "posted"
       /\ update'[u].state # "none" /\ update'[u].state # "done"
  BY <1>4, <1>7, <1>8
<1>17. UNCHANGED <<effects, replies, told>> /\ losses' = [losses EXCEPT ![u] = @ + d]
  BY <1>6
<1>18. /\ update'[u].kind = update[u].kind /\ update'[u].person = update[u].person
       /\ \A v \in Update : v # u => update'[v] = update[v]
  BY <1>4, <1>8
<1>19. ~request'[r].open /\ \A s \in BotRequest : s # r => request'[s] = request[s]
  BY <1>7
<1> QED BY <1>2, <1>9, <1>10, <1>11, <1>12, <1>15, <1>16, <1>17, <1>18, <1>19, TurnKeeps

(* A request ends that Telegram waits for.                                 *)
LEMMA AcknowledgeOpenKeeps ==
  ASSUME BotInv, NEW r \in BotRequest, NEW heard \in BOOLEAN, Acknowledge(r, heard), request[r].open
  PROVE  BotInv'
<1> USE DEF BotInv
<1>1. request[r].pc \in {"ack", "failed"} /\ request' = [request EXCEPT ![r] = NoRequest]
      /\ UNCHANGED <<effects, replies, reminders, told, registered>>
  BY DEF Acknowledge
<1>2. PICK u \in Update : Handled(r) = u
  BY <1>1, AtWork
<1>3. /\ ~Working(r)' /\ ~request'[r].open
      /\ \A s \in BotRequest : s # r => request'[s] = request[s]
      /\ request' \in [BotRequest -> [pc: BotPc, update: Update \union {NoUpdate}, open: BOOLEAN]]
  BY <1>1, BotRecords DEF BotTypeOK, Working, NoRequest
<1>4. update[u].state = "posted" /\ \A s \in BotRequest : s # r /\ request[s].open => Handled(s) # u
  BY <1>2 DEF OpenIsPosted
<1>5. update[u] \in Post /\ losses[u] \in Nat /\ losses[u] <= MaxLosses
  BY UpdateType, BotAssumption
<1>6. PICK post \in Post, d \in {0, 1} :
        /\ update' = [update EXCEPT ![u] = post]
        /\ losses' = [losses EXCEPT ![u] = @ + d] /\ losses[u] + d <= MaxLosses
        /\ post \in Post /\ post.kind = update[u].kind /\ post.person = update[u].person
        /\ \/ post.state = "done" /\ request[r].pc = "ack"
           \/ post.state \in {"pending", "dropped"} /\ (d = 1 \/ request[r].pc = "failed")
  <2>1. CASE heard /\ RequestAt(r, "ack")
    <3>1. PICK post : post = [update[u] EXCEPT !.state = "done"]
      OBVIOUS
    <3>2. update' = [update EXCEPT ![u] = post]
      BY <2>1, <3>1, <1>2, ZenonT(30) DEF Acknowledge, BotTypeOK
    <3>3. post \in Post /\ post.kind = update[u].kind /\ post.person = update[u].person /\ post.state = "done"
      BY <3>1, <1>5 DEF Post
    <3>4. losses' = losses
      BY <2>1, ZenonT(30) DEF Acknowledge
    <3>5. PICK d \in {0, 1} : d = 0
      OBVIOUS
    <3>6. losses' = [losses EXCEPT ![u] = @ + d] /\ losses[u] + d <= MaxLosses
      BY <3>4, <3>5, <1>5, AddNothing
    <3>7. request[r].pc = "ack"
      BY <2>1 DEF RequestAt
    <3> QED BY <3>2, <3>3, <3>5, <3>6, <3>7
  <2>2. CASE ~(heard /\ RequestAt(r, "ack"))
    <3>1. PICK post : post = BackToTelegram(update[u])
      OBVIOUS
    <3>2. update' = [update EXCEPT ![u] = post]
      BY <2>2, <3>1, <1>2, ZenonT(30) DEF Acknowledge
    <3>3. /\ post \in Post /\ post.kind = update[u].kind /\ post.person = update[u].person
          /\ post.state \in {"pending", "dropped"}
      BY <3>1, <1>5, BackSound
    <3>4. CASE heard
      <4>1. losses' = losses
        BY <3>4, ZenonT(30) DEF Acknowledge
      <4>2. PICK d \in {0, 1} : d = 0
        OBVIOUS
      <4>3. losses' = [losses EXCEPT ![u] = @ + d] /\ losses[u] + d <= MaxLosses
        BY <4>1, <4>2, <1>5, AddNothing
      <4>4. request[r].pc = "failed"
        BY <2>2, <3>4, <1>1 DEF RequestAt
      <4> QED BY <3>2, <3>3, <4>2, <4>3, <4>4
    <3>5. CASE ~heard
      <4>1. losses[u] < MaxLosses /\ losses' = [losses EXCEPT ![u] = @ + 1]
        BY <3>5, <1>2 DEF Acknowledge, Loses
      <4>2. losses[u] + 1 <= MaxLosses
        BY <4>1, <1>5, BotAssumption
      <4> QED BY <3>2, <3>3, <4>1, <4>2
    <3> QED BY <3>4, <3>5
  <2> QED BY <2>1, <2>2
<1>7. update'[u] = post /\ \A v \in Update : v # u => update'[v] = update[v]
  BY <1>6 DEF BotTypeOK
<1>8. BotTypeOK'
  <2>1. losses[u] + d \in 0..MaxLosses
    BY <1>5, <1>6, BotAssumption
  <2>2. losses' \in [Update -> 0..MaxLosses]
    BY <2>1, <1>6 DEF BotTypeOK
  <2>3. update' \in [Update -> Post]
    BY <1>6 DEF BotTypeOK
  <2> QED BY <2>2, <2>3, <1>1, <1>3 DEF BotTypeOK
<1>9. Spare(r, u)' = 0 /\ Unposted(u) = 0
  BY <1>3, <1>4 DEF Spare, One, Unspent, Unposted
<1>10. Spare(r, u) \in Nat /\ (request[r].pc = "failed" => Spare(r, u) = 1)
  BY <1>1, <1>2 DEF Spare, One, Unspent, MayYetSend, Working
<1>11. Unposted(u)' \in {0, 1} /\ (post.state = "done" => Unposted(u)' = 0)
  BY <1>7 DEF Unposted
<1>12. Spare(r, u)' + Unposted(u)' <= Spare(r, u) + Unposted(u) + d
  BY <1>6, <1>9, <1>10, <1>11
<1>13. /\ request'[r].open <=> update'[u].state = "posted"
       /\ update'[u].state # "none"
  BY <1>3, <1>6, <1>7
<1>14. update'[u].state = "done" => Owed(u) \subseteq effects[u]
  BY <1>1, <1>2, <1>6, <1>7, AtWork DEF Reached
<1>15. /\ UNCHANGED <<effects, replies, told>> /\ losses' = [losses EXCEPT ![u] = @ + d] /\ d \in Nat
  BY <1>1, <1>6
<1>16. /\ update'[u].kind = update[u].kind /\ update'[u].person = update[u].person
       /\ \A v \in Update : v # u => update'[v] = update[v]
  BY <1>6, <1>7
<1>17. ~request'[r].open /\ ~Working(r)' /\ \A s \in BotRequest : s # r => request'[s] = request[s]
  BY <1>3
<1>18. \A s \in BotRequest : s # r /\ request[s].open => Handled(s) # u
  BY <1>4
<1> QED BY <1>2, <1>8, <1>12, <1>13, <1>14, <1>15, <1>16, <1>17, <1>18, TurnKeeps

(* A request ends that Telegram has given up: nobody hears of it.          *)
LEMMA AcknowledgeClosedKeeps ==
  ASSUME BotInv, NEW r \in BotRequest, NEW heard \in BOOLEAN, Acknowledge(r, heard), ~request[r].open
  PROVE  BotInv'
<1> USE DEF BotInv
<1>1. /\ request[r].pc \in {"ack", "failed"} /\ request' = [request EXCEPT ![r] = NoRequest]
      /\ UNCHANGED <<effects, replies, reminders, told, registered>>
  BY DEF Acknowledge
<1>2. ~heard
  BY DEF Acknowledge
<1>3. update' = update /\ losses' = losses
  BY <1>2, ZenonT(30) DEF Acknowledge
<1>4. /\ ~Working(r)' /\ ~request'[r].open
      /\ \A s \in BotRequest : s # r => request'[s] = request[s]
      /\ request' \in [BotRequest -> [pc: BotPc, update: Update \union {NoUpdate}, open: BOOLEAN]]
  BY <1>1, BotRecords DEF BotTypeOK, Working, NoRequest
<1>5. \A s \in BotRequest : s # r => Handled(s)' = Handled(s) /\ (Working(s)' <=> Working(s))
  BY <1>4 DEF Handled, Working
<1>6. BotTypeOK'
  BY <1>1, <1>3, <1>4 DEF BotTypeOK
<1>7. OpenIsPosted'
  <2>1. \A s \in BotRequest : request'[s].open =>
          Working(s)' /\ Handled(s)' \in Update /\ update'[Handled(s)'].state = "posted"
    BY <1>3, <1>4, <1>5 DEF OpenIsPosted
  <2>2. \A s, t \in BotRequest : request'[s].open /\ request'[t].open /\ Handled(s)' = Handled(t)' => s = t
    BY <1>4, <1>5 DEF OpenIsPosted
  <2>3. \A v \in Update : update'[v].state = "posted" => \E s \in BotRequest : request'[s].open /\ Handled(s)' = v
    <3> SUFFICES ASSUME NEW v \in Update, update'[v].state = "posted"
                 PROVE  \E s \in BotRequest : request'[s].open /\ Handled(s)' = v
      OBVIOUS
    <3>1. PICK s \in BotRequest : request[s].open /\ Handled(s) = v
      BY <1>3 DEF OpenIsPosted
    <3>2. s # r
      BY <3>1
    <3> QED BY <3>1, <3>2, <1>4, <1>5
  <2> QED BY <2>1, <2>2, <2>3 DEF OpenIsPosted
<1>8. WorkSound'
  <2> SUFFICES ASSUME NEW s \in BotRequest, Working(s)'
               PROVE  /\ Handled(s)' \in Update /\ update'[Handled(s)'].state # "none"
                      /\ Reached(request[s].pc, Handled(s))'
    BY DEF WorkSound
  <2>1. s # r
    BY <1>4
  <2>2. PICK p, v : p = request[s].pc /\ v = Handled(s)
    OBVIOUS
  <2>3. v \in Update /\ update[v].state # "none" /\ Reached(p, v) /\ p = request'[s].pc /\ v = Handled(s)'
    BY <2>1, <2>2, <1>4, <1>5 DEF WorkSound
  <2>4. SameOrMore(v)
    BY <1>1, <1>3 DEF SameOrMore
  <2>5. Reached(p, v)'
    BY <2>3, <2>4, ReachedStays
  <2> QED BY <2>3, <2>5, <1>3
<1>9. ASSUME NEW v \in Update PROVE (WithinBudget(v) /\ BroughtSound(v))'
  <2>1. r \notin Unspent(v) /\ r \notin Unspent(v)'
    BY <1>1, <1>4 DEF Unspent, MayYetSend
  <2>2. \A s \in BotRequest : s # r => (s \in Unspent(v)' <=> s \in Unspent(v))
    BY <1>4, <1>5 DEF Unspent, MayYetSend
  <2>3. Unspent(v)' = Unspent(v)
    BY <2>1, <2>2 DEF Unspent
  <2>4. Unposted(v)' = Unposted(v) /\ Owed(v)' = Owed(v)
    BY <1>1, <1>3 DEF Unposted, Owed, TurnsOff
  <2>5. WithinBudget(v) /\ BroughtSound(v)
    OBVIOUS
  <2>6. WithinBudget(v)'
    BY <2>3, <2>4, <2>5, <1>1, <1>3 DEF WithinBudget
  <2>7. BroughtSound(v)'
    BY <2>4, <2>5, <1>1, <1>3 DEF BroughtSound
  <2> QED BY <2>6, <2>7
<1> QED BY <1>6, <1>7, <1>8, <1>9

(* The process starts again: every request at work is lost, and what       *)
(* Telegram waits for goes back to it.                                     *)
LEMMA RestartKeeps ==
  ASSUME BotInv, NEW rotated \in BOOLEAN, NEW registers \in BOOLEAN, NEW drops \in BOOLEAN,
         Restart(rotated, registers, drops)
  PROVE  BotInv'
<1> USE DEF BotInv
<1>1. PICK cut : cut = {Handled(s) : s \in {x \in BotRequest : request[x].pc # "idle"}}
  OBVIOUS
<1>2. PICK after \in [Update -> Post] :
        \A u \in Update : after[u] = IF update[u].state = "posted" THEN BackToTelegram(update[u]) ELSE update[u]
  <2>1. PICK f : f = [u \in Update |-> IF update[u].state = "posted" THEN BackToTelegram(update[u]) ELSE update[u]]
    OBVIOUS
  <2>2. \A u \in Update : f[u] \in Post
    BY <2>1, UpdateType, BackSound
  <2>3. f \in [Update -> Post]
    BY <2>1, <2>2
  <2> QED BY <2>1, <2>3
<1>3. /\ \A u \in cut : losses[u] < MaxLosses
      /\ losses' = [u \in Update |-> IF u \in cut THEN losses[u] + 1 ELSE losses[u]]
      /\ request' = [s \in BotRequest |-> NoRequest]
      /\ UNCHANGED <<effects, replies, reminders, told>>
  BY <1>1 DEF Restart, RequestAt
<1>4. registered' \in BOOLEAN
  BY ZenonT(30) DEF Restart
<1>5. /\ update' \in [Update -> Post]
      /\ \A u \in Update : /\ update'[u].kind = update[u].kind /\ update'[u].person = update[u].person
                           /\ \/ update'[u].state = after[u].state
                              \/ after[u].state = "pending" /\ update'[u].state = "dropped"
  <2>1. update' = [u \in Update |-> IF registers /\ drops /\ after[u].state = "pending"
                                    THEN [after[u] EXCEPT !.state = "dropped"] ELSE after[u]]
    BY <1>2, ZenonT(60) DEF Restart
  <2>2. ASSUME NEW u \in Update
        PROVE  /\ update'[u] \in Post
               /\ update'[u].kind = after[u].kind /\ update'[u].person = after[u].person
               /\ \/ update'[u].state = after[u].state
                  \/ after[u].state = "pending" /\ update'[u].state = "dropped"
    <3>1. after[u] \in Post
      OBVIOUS
    <3>2. update'[u] = after[u] \/ (after[u].state = "pending" /\ update'[u] = [after[u] EXCEPT !.state = "dropped"])
      BY <2>1
    <3> QED BY <3>1, <3>2 DEF Post
  <2>3. \A u \in Update : after[u].kind = update[u].kind /\ after[u].person = update[u].person
    BY <1>2, UpdateType, BackSound
  <2>4. update' \in [Update -> Post]
    BY <2>1, <2>2
  <2> QED BY <2>2, <2>3, <2>4
<1>6. \A s \in BotRequest : ~Working(s)' /\ ~request'[s].open
  BY <1>3 DEF Working, NoRequest
<1>7. \A u \in Update : update[u].state = "posted" => u \in cut /\ after[u].state \in {"pending", "dropped"}
  BY <1>1, <1>2, UpdateType, BackSound DEF OpenIsPosted, Working
<1>8. \A u \in Update : update[u].state # "posted" => after[u] = update[u]
  BY <1>2
<1>9. BotTypeOK'
  <2>1. \A u \in Update : losses'[u] \in 0..MaxLosses
    BY <1>3, UpdateType, BotAssumption
  <2>2. losses' \in [Update -> 0..MaxLosses]
    BY <2>1, <1>3
  <2>3. request' \in [BotRequest -> [pc: BotPc, update: Update \union {NoUpdate}, open: BOOLEAN]]
    BY <1>3, BotRecords
  <2> QED BY <2>2, <2>3, <1>3, <1>4, <1>5 DEF BotTypeOK
<1>10. OpenIsPosted'
  BY <1>5, <1>6, <1>7, <1>8 DEF OpenIsPosted
<1>11. WorkSound'
  BY <1>6 DEF WorkSound
<1>12. ASSUME NEW v \in Update PROVE (WithinBudget(v) /\ BroughtSound(v))'
  <2>1. IsFiniteSet(Unspent(v)') /\ Cardinality(Unspent(v)') = 0
    <3>1. Unspent(v)' = {}
      BY <1>6 DEF Unspent
    <3> QED BY <3>1, FS_EmptySet
  <2>2. /\ IsFiniteSet(Unspent(v)) /\ Cardinality(Unspent(v)) \in Nat /\ replies[v] \in Nat /\ losses[v] \in Nat
        /\ replies[v] + Cardinality(Unspent(v)) + Unposted(v) <= 1 + losses[v]
    BY UpdateType, FS_CardinalityType DEF WithinBudget
  <2>3. Unposted(v) \in {0, 1} /\ Unposted(v)' \in {0, 1}
    BY DEF Unposted
  <2>b. BroughtSound(v)'
    <3>1. SameOrMore(v)
      BY <1>3, <1>5 DEF SameOrMore
    <3>2. Owed(v)' \subseteq Owed(v)
      BY <3>1, OwedShrinks
    <3>3. update'[v].state = "done" => update[v].state = "done"
      BY <1>5, <1>7, <1>8
    <3>4. BroughtSound(v)
      OBVIOUS
    <3> QED BY <3>2, <3>3, <3>4, <1>3 DEF BroughtSound
  <2>4. CASE v \in cut
    <3>1. losses'[v] = losses[v] + 1 /\ replies'[v] = replies[v]
      BY <2>4, <1>3
    <3> QED BY <2>1, <2>2, <2>3, <2>b, <3>1 DEF WithinBudget
  <2>5. CASE v \notin cut
    <3>1. losses'[v] = losses[v] /\ replies'[v] = replies[v]
      BY <2>5, <1>3
    <3>2. after[v] = update[v]
      BY <2>5, <1>7, <1>8
    <3>3. Unposted(v)' <= Unposted(v)
      BY <3>2, <1>5 DEF Unposted
    <3> QED BY <2>1, <2>2, <2>3, <2>b, <3>1, <3>3 DEF WithinBudget
  <2> QED BY <2>4, <2>5
<1> QED BY <1>9, <1>10, <1>11, <1>12

(* The user switches his reminders on, having read what was sent.          *)
LEMMA SwitchOnKeeps ==
  ASSUME BotInv, SwitchOn
  PROVE  BotInv'
<1> USE DEF BotInv
<1>1. /\ told' = told \union {u \in Update : TurnsOff(u) /\ "message" \in effects[u]}
      /\ reminders' = [settings |-> TRUE, preference |-> TRUE]
      /\ UNCHANGED <<update, request, effects, replies, losses, registered>>
  BY DEF SwitchOn
<1>2. BotTypeOK'
  BY <1>1 DEF BotTypeOK
<1>3. OpenIsPosted'
  BY <1>1 DEF OpenIsPosted, Working, Handled
<1>4. WorkSound'
  BY <1>1 DEF WorkSound, Working, Handled, Reached, TurnsOff, SendsCard, Owed
<1>5. ASSUME NEW v \in Update PROVE (WithinBudget(v) /\ BroughtSound(v))'
  <2>1. Unspent(v)' = Unspent(v) /\ Unposted(v)' = Unposted(v) /\ Owed(v)' = Owed(v)
    BY <1>1 DEF Unspent, Unposted, Owed, TurnsOff, Working, Handled, MayYetSend
  <2>2. WithinBudget(v)'
    BY <2>1, <1>1 DEF WithinBudget
  <2>3. BroughtSound(v)'
    BY <2>1, <1>1 DEF BroughtSound
  <2> QED BY <2>2, <2>3
<1> QED BY <1>2, <1>3, <1>4, <1>5

LEMMA BotStepKeeps ==
  ASSUME BotInv, NEW r \in BotRequest, BotStep(r)
  PROVE  BotInv'
<1>1. CASE UpsertSender(r) \/ DisableInSettings(r) \/ DisablePreference(r) \/ BuildCard(r)
  BY <1>1, QuietStepKeeps
<1>2. CASE StepFails(r)
  BY <1>2, StepFailsKeeps
<1>3. CASE \E served, answered \in BOOLEAN : SendMessage(r, served, answered) \/ AnswerCallbackQuery(r, served, answered)
  BY <1>3, SendMessageKeeps, AnswerCallbackKeeps
<1>4. CASE \E heard \in BOOLEAN : Acknowledge(r, heard)
  BY <1>4, AcknowledgeOpenKeeps, AcknowledgeClosedKeeps
<1> QED BY <1>1, <1>2, <1>3, <1>4 DEF BotStep

LEMMA BotNextKeeps == BotInv /\ [BotNext]_botVars => BotInv'
<1> SUFFICES ASSUME BotInv, [BotNext]_botVars PROVE BotInv'
  OBVIOUS
<1>1. CASE UNCHANGED botVars
  <2>1. BotTypeOK'
    BY <1>1 DEF botVars, BotInv, BotTypeOK
  <2>2. OpenIsPosted'
    BY <1>1 DEF botVars, BotInv, OpenIsPosted, Working, Handled
  <2>3. WorkSound'
    BY <1>1 DEF botVars, BotInv, WorkSound, Working, Handled, Reached, TurnsOff, SendsCard, Owed
  <2>4. ASSUME NEW v \in Update PROVE (WithinBudget(v) /\ BroughtSound(v))'
    <3>1. Unspent(v)' = Unspent(v) /\ Unposted(v)' = Unposted(v) /\ Owed(v)' = Owed(v)
      BY <1>1 DEF botVars, Unspent, Unposted, Owed, TurnsOff, Working, Handled, MayYetSend
    <3>2. WithinBudget(v)'
      BY <3>1, <1>1 DEF botVars, BotInv, WithinBudget
    <3>3. BroughtSound(v)'
      BY <3>1, <1>1 DEF botVars, BotInv, BroughtSound
    <3> QED BY <3>2, <3>3
  <2> QED BY <2>1, <2>2, <2>3, <2>4 DEF BotInv
<1>2. CASE \E u \in Update, kind \in Kind, person \in BOOLEAN : Arrive(u, kind, person)
  BY <1>2, ArriveKeeps
<1>3. CASE \E u \in Update : Refuse(u) \/ \E r \in BotRequest : Dispatch(r, u)
  BY <1>3, RefuseKeeps, DispatchKeeps
<1>4. CASE \E r \in BotRequest : BotStep(r) \/ TimeoutIntercepts(r)
  BY <1>4, BotStepKeeps, TimeoutKeeps
<1>5. CASE \E rotated, registers, drops \in BOOLEAN : Restart(rotated, registers, drops)
  BY <1>5, RestartKeeps
<1>6. CASE SwitchOn
  BY <1>6, SwitchOnKeeps
<1> QED BY <1>1, <1>2, <1>3, <1>4, <1>5, <1>6 DEF BotNext

(***************************************************************************)
(* For any updates, requests, restarts and lost answers: what Telegram was *)
(* told is done has been done, whichever attempts did it; and the chat got *)
(* one message more than there were lost answers at most.                  *)
(***************************************************************************)
THEOREM UpdatesAreServed == BotSpec => []EachUpdateIsServed
<1>1. BotInv => EachUpdateIsServed
  <2> SUFFICES ASSUME BotInv, NEW u \in Update
               PROVE  /\ update[u].state = "done" => Owed(u) \subseteq effects[u]
                      /\ replies[u] <= 1 + losses[u]
    BY DEF EachUpdateIsServed
  <2>1. /\ IsFiniteSet(Unspent(u)) /\ replies[u] + Cardinality(Unspent(u)) + Unposted(u) <= 1 + losses[u]
        /\ update[u].state = "done" => Owed(u) \subseteq effects[u]
    BY DEF BotInv, WithinBudget, BroughtSound
  <2>2. Cardinality(Unspent(u)) \in Nat /\ Unposted(u) \in Nat /\ replies[u] \in Nat /\ losses[u] \in Nat
    BY <2>1, FS_CardinalityType, UpdateType DEF BotInv, Unposted
  <2> QED BY <2>1, <2>2
<1> QED BY InitBot, BotNextKeeps, <1>1, PTL DEF BotSpec

(***************************************************************************)
(* For any updates, requests, restarts and lost answers: a request that is *)
(* still to turn the reminders off for a /stop the user had read of owes   *)
(* that to an answer that was lost.  For it may still send a message, and  *)
(* one was sent.                                                           *)
(***************************************************************************)
THEOREM NoToldStopReturns == BotSpec => []ToldStopsAreOver
<1>1. BotInv => ToldStopsAreOver
  <2> SUFFICES ASSUME BotInv, NEW r \in BotRequest,
                      request[r].pc \in {"settings", "preference"}, Handled(r) \in told
               PROVE  losses[Handled(r)] > 0
    BY DEF ToldStopsAreOver
  <2>1. PICK u \in Update : Handled(r) = u /\ Working(r)
    BY AtWork
  <2>2. "message" \in effects[u] /\ replies[u] > 0
    BY <2>1 DEF BotInv, BroughtSound
  <2>3. IsFiniteSet(Unspent(u)) /\ replies[u] + Cardinality(Unspent(u)) + Unposted(u) <= 1 + losses[u]
    BY DEF BotInv, WithinBudget
  <2>4. r \in Unspent(u)
    BY <2>1 DEF Unspent, MayYetSend
  <2>5. Cardinality(Unspent(u)) \in Nat /\ Cardinality(Unspent(u)) # 0
    BY <2>3, <2>4, FS_CardinalityType, FS_EmptySet
  <2>6. Unposted(u) \in Nat /\ replies[u] \in Nat /\ losses[u] \in Nat
    BY UpdateType DEF BotInv, Unposted
  <2> QED BY <2>1, <2>2, <2>3, <2>5, <2>6
<1> QED BY InitBot, BotNextKeeps, <1>1, PTL DEF BotSpec

(* The variables of the two models keep to their types, whatever happens.  *)
THEOREM AccessTypeCorrect == AccessSpec => []AccessTypeOK
<1>1. AccessInv => AccessTypeOK
  BY DEF AccessInv
<1> QED BY InitAccess, NextKeeps, <1>1, PTL DEF AccessSpec

(* A request of the bot is at a place of its handler, with an update that  *)
(* Telegram posted or none, and an update loses no more answers than the   *)
(* bound allows.                                                           *)
THEOREM BotTypeCorrect == BotSpec => []BotTypeOK
<1>1. BotInv => BotTypeOK
  BY DEF BotInv
<1> QED BY InitBot, BotNextKeeps, <1>1, PTL DEF BotSpec
=============================================================================
