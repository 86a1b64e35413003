-------------------------- MODULE QuranContentProofs --------------------------
(***************************************************************************)
(* Proofs about QuranClient and VerseContent.  For any requests, processes *)
(* and failures, a request is not sent again with a token it was refused   *)
(* with; for any retention and any freshness within it, what readers get   *)
(* of the verses ages out, however the caches feed each other.             *)
(***************************************************************************)
EXTENDS MCQuranContent, TLAPS

----------------------------------------------------------------------------
(* The client: types. *)

Fetch == [pc: {"none", "post", "set"}, token: Token \union {NoToken}]

LEMMA ClientRecords ==
  /\ NoFetch \in Fetch
  /\ \A p \in Process :
       [pc |-> "idle", home |-> p, token |-> NoToken, attempt |-> 0,
        retried |-> FALSE, refused |-> {}, answer |-> "none"] \in Pending
<1>1. 0 \in 0..MaxRetries
  BY ClientAssumption
<1> QED BY <1>1 DEF NoFetch, Fetch, Pending, RequestPc, Answer

(* What a request does that has met an error keeps its type, and it goes   *)
(* to the places an error leads to.  It adds the token it held to those it *)
(* was refused with, or keeps them or drops them.                          *)
LEMMA HandledSound ==
  ASSUME NEW q \in Pending, NEW e \in Failure
  PROVE  /\ Handled(q, e) \in Pending
         /\ Handled(q, e).pc \in {"invalidate", "sleep", "done"}
         /\ Handled(q, e).token = NoToken
         /\ Handled(q, e).refused \subseteq q.refused \union ({q.token} \ {NoToken})
         /\ Handled(q, e).pc # "invalidate" => Handled(q, e).refused \subseteq q.refused
         /\ Handled(q, e).pc = "sleep" => Handled(q, e).attempt < MaxRetries
<1>1. CASE e = "401" /\ ~q.retried
  <2>1. Handled(q, e) = [q EXCEPT !.pc = "invalidate", !.retried = TRUE, !.token = NoToken,
                                  !.refused = @ \union ({q.token} \ {NoToken})]
    BY <1>1 DEF Handled, Retryable
  <2>2. q.refused \union ({q.token} \ {NoToken}) \subseteq Token
    BY DEF Pending
  <2> QED BY <2>1, <2>2 DEF Pending, RequestPc
<1>2. CASE ~(e = "401" /\ ~q.retried) /\ q.attempt < MaxRetries /\ Retryable(e)
  <2>1. Handled(q, e) = [q EXCEPT !.pc = "sleep", !.token = NoToken]
    BY <1>2 DEF Handled
  <2>2. /\ Handled(q, e).pc = "sleep" /\ Handled(q, e).token = NoToken
        /\ Handled(q, e).refused = q.refused /\ Handled(q, e).attempt = q.attempt
        /\ Handled(q, e) \in Pending
    BY <2>1 DEF Pending, RequestPc
  <2> QED BY <1>2, <2>2
<1>3. CASE ~(e = "401" /\ ~q.retried) /\ ~(q.attempt < MaxRetries /\ Retryable(e))
  <2>1. Handled(q, e) = Ended(q, Mapped(e))
    BY <1>3 DEF Handled
  <2>2. Mapped(e) \in Answer
    BY DEF Mapped, Answer, Failure
  <2>3. 0 \in 0..MaxRetries
    BY ClientAssumption
  <2> QED BY <2>1, <2>2, <2>3 DEF Ended, Pending, RequestPc
<1> QED BY <1>1, <1>2, <1>3

(* So does a request that is over.                                         *)
LEMMA EndedSound ==
  ASSUME NEW q \in Pending, NEW a \in Answer
  PROVE  /\ Ended(q, a) \in Pending /\ Ended(q, a).pc = "done"
         /\ Ended(q, a).token = NoToken /\ Ended(q, a).refused = {}
<1>1. 0 \in 0..MaxRetries
  BY ClientAssumption
<1> QED BY <1>1 DEF Ended, Pending, RequestPc

(* A token that is still with the fetch that got it is new to everybody.   *)
NewToAll(p) ==
  fetch[p].pc = "set" =>
    /\ fetch[p].token \in 1..issued /\ fetch[p].token # stored
    /\ \A r \in Request : fetch[p].token # req[r].token /\ fetch[p].token \notin req[r].refused
    /\ \A o \in Process : o # p /\ fetch[o].pc = "set" => fetch[o].token # fetch[p].token

(* All that is known of tokens was issued, and a request that was refused  *)
(* does not go on before what it was refused with has left Redis.  One     *)
(* that waits has an attempt left.                                         *)
Known(r) ==
  /\ req[r].token <= issued /\ \A t \in req[r].refused : t <= issued
  /\ req[r].pc # "invalidate" => stored \notin req[r].refused
  /\ req[r].pc = "send" => req[r].token \notin req[r].refused
  /\ req[r].pc = "sleep" => req[r].attempt < MaxRetries

ClientInv ==
  /\ ClientTypeOK /\ stored <= issued
  /\ \A p \in Process : NewToAll(p)
  /\ \A r \in Request : Known(r)

LEMMA ClientTypes ==
  ASSUME ClientTypeOK
  PROVE  /\ issued \in Nat /\ stored \in Nat
         /\ \A r \in Request : req[r] \in Pending /\ req[r].token \in Nat /\ req[r].refused \subseteq Token
         /\ \A p \in Process : fetch[p] \in Fetch /\ fetch[p].token \in Nat
<1>1. issued \in Nat /\ stored \in Nat
  BY ClientAssumption DEF ClientTypeOK, Token, NoToken
<1>2. ASSUME NEW r \in Request
      PROVE  req[r] \in Pending /\ req[r].token \in Nat /\ req[r].refused \subseteq Token
  <2>1. req[r] \in Pending
    BY DEF ClientTypeOK
  <2> QED BY <2>1, ClientAssumption DEF Pending, Token, NoToken
<1>3. ASSUME NEW p \in Process PROVE fetch[p] \in Fetch /\ fetch[p].token \in Nat
  <2>1. fetch[p] \in Fetch
    BY DEF ClientTypeOK, Fetch
  <2> QED BY <2>1, ClientAssumption DEF Fetch, Token, NoToken
<1> QED BY <1>1, <1>2, <1>3

LEMMA InitClient == ClientInit => ClientInv
<1> SUFFICES ASSUME ClientInit PROVE ClientInv
  OBVIOUS
<1>1. (CHOOSE p \in Process : TRUE) \in Process
  BY ClientAssumption
<1>2. ClientTypeOK
  <2>1. issued \in 0..MaxTokens /\ stored \in Token \union {NoToken} /\ accepted \subseteq Token
    BY ClientAssumption DEF ClientInit, Token, NoToken
  <2>2. fetch \in [Process -> [pc: {"none", "post", "set"}, token: Token \union {NoToken}]]
    BY ClientRecords DEF ClientInit, Fetch
  <2>3. req \in [Request -> Pending]
    BY <1>1, ClientRecords DEF ClientInit
  <2> QED BY <2>1, <2>2, <2>3 DEF ClientTypeOK
<1>3. stored <= issued
  BY DEF ClientInit
<1>4. \A p \in Process : NewToAll(p)
  BY DEF ClientInit, NewToAll, NoFetch
<1>5. \A r \in Request : Known(r)
  BY DEF ClientInit, Known, NoToken
<1> QED BY <1>2, <1>3, <1>4, <1>5 DEF ClientInv

(* One request moves on, or gives up its token for good; nothing else of   *)
(* the tokens changes.                                                     *)
LEMMA RequestMoves ==
  ASSUME ClientInv, NEW r \in Request, NEW q \in Pending, req' = [req EXCEPT ![r] = q],
         UNCHANGED <<accepted, issued, stored>>,
         q.token \in {NoToken, req[r].token, stored},
         q.refused \subseteq req[r].refused \union {req[r].token},
         q.pc # "invalidate" => stored \notin q.refused,
         q.pc = "send" => q.token \notin q.refused,
         q.pc = "sleep" => q.attempt < MaxRetries,
         ClientTypeOK',
         \A p \in Process : fetch'[p] = fetch[p] \/ fetch'[p].pc # "set"
  PROVE  ClientInv'
<1> USE DEF ClientInv
<1>1. req'[r] = q /\ \A s \in Request : s # r => req'[s] = req[s]
  BY DEF ClientTypeOK
<1>2. ASSUME NEW s \in Request PROVE Known(s)'
  <2>1. Known(s)
    OBVIOUS
  <2>2. CASE s = r
    <3>1. q.token <= issued
      BY <2>1, <2>2, ClientTypes DEF Known, NoToken
    <3>2. \A t \in q.refused : t <= issued
      BY <2>1, <2>2 DEF Known
    <3> QED BY <1>1, <2>2, <3>1, <3>2 DEF Known
  <2>3. CASE s # r
    BY <1>1, <2>1, <2>3 DEF Known
  <2> QED BY <2>2, <2>3
<1>3. ASSUME NEW p \in Process PROVE NewToAll(p)'
  <2> SUFFICES ASSUME fetch'[p].pc = "set" PROVE NewToAll(p)'
    BY DEF NewToAll
  <2>1. fetch'[p] = fetch[p] /\ NewToAll(p)
    OBVIOUS
  <2>2. /\ fetch[p].token \in 1..issued /\ fetch[p].token # stored
        /\ \A s \in Request : fetch[p].token # req[s].token /\ fetch[p].token \notin req[s].refused
        /\ \A o \in Process : o # p /\ fetch[o].pc = "set" => fetch[o].token # fetch[p].token
    BY <2>1 DEF NewToAll
  <2>3. fetch[p].token # q.token /\ fetch[p].token \notin q.refused
    BY <2>2 DEF NoToken
  <2>4. \A s \in Request : fetch[p].token # req'[s].token /\ fetch[p].token \notin req'[s].refused
    BY <1>1, <2>2, <2>3
  <2>5. \A o \in Process : o # p /\ fetch'[o].pc = "set" => fetch'[o].token # fetch[p].token
    BY <2>2
  <2> QED BY <2>1, <2>2, <2>4, <2>5 DEF NewToAll
<1>4. (stored <= issued)'
  OBVIOUS
<1> QED BY <1>2, <1>3, <1>4

(* The steps of one request that leave the fetches alone.                  *)
LEMMA CallKeeps ==
  ASSUME ClientInv, NEW r \in Request, Call(r)
  PROVE  ClientInv'
<1> USE DEF ClientInv
<1>1. PICK p \in Process : req' = [req EXCEPT ![r].pc = "read", ![r].home = p]
  BY DEF Call
<1>2. PICK q : q = [req[r] EXCEPT !.pc = "read", !.home = p]
  OBVIOUS
<1>3. req' = [req EXCEPT ![r] = q] /\ UNCHANGED <<accepted, issued, stored, fetch>> /\ req[r].pc = "idle"
  BY <1>1, <1>2 DEF Call, ClientTypeOK
<1>4. req[r] \in Pending /\ Known(r)
  BY ClientTypes
<1>5. /\ q \in Pending /\ q.pc = "read" /\ q.token = req[r].token /\ q.refused = req[r].refused
  BY <1>2, <1>4 DEF Pending, RequestPc
<1>6. ClientTypeOK'
  BY <1>3, <1>5 DEF ClientTypeOK
<1>7. stored \notin q.refused
  BY <1>3, <1>4, <1>5 DEF Known
<1> QED BY <1>3, <1>5, <1>6, <1>7, RequestMoves

LEMMA ReadCachedTokenKeeps ==
  ASSUME ClientInv, NEW r \in Request, ReadCachedToken(r)
  PROVE  ClientInv'
<1> USE DEF ClientInv
<1>1. req[r] \in Pending /\ Known(r) /\ req[r].pc = "read" /\ UNCHANGED <<accepted, issued, stored, fetch>>
  BY ClientTypes DEF ReadCachedToken
<1>2. stored \in Token \union {NoToken} /\ stored \notin req[r].refused
  BY <1>1 DEF Known, ClientTypeOK
<1>3. CASE stored # NoToken
  <2>1. PICK q : q = [req[r] EXCEPT !.pc = "send", !.token = stored]
    OBVIOUS
  <2>2. req' = [req EXCEPT ![r] = q]
    BY <1>3, <2>1 DEF ReadCachedToken, ClientTypeOK
  <2>3. q \in Pending /\ q.pc = "send" /\ q.token = stored /\ q.refused = req[r].refused
    BY <1>1, <1>2, <2>1 DEF Pending, RequestPc
  <2>4. ClientTypeOK'
    BY <1>1, <2>2, <2>3 DEF ClientTypeOK
  <2> QED BY <1>1, <1>2, <2>2, <2>3, <2>4, RequestMoves
<1>4. CASE stored = NoToken
  <2>1. PICK q : q = [req[r] EXCEPT !.pc = "join"]
    OBVIOUS
  <2>2. req' = [req EXCEPT ![r] = q]
    BY <1>4, <2>1 DEF ReadCachedToken, ClientTypeOK
  <2>3. q \in Pending /\ q.pc = "join" /\ q.token = req[r].token /\ q.refused = req[r].refused
    BY <1>1, <2>1 DEF Pending, RequestPc
  <2>4. ClientTypeOK'
    BY <1>1, <2>2, <2>3 DEF ClientTypeOK
  <2> QED BY <1>1, <1>2, <2>2, <2>3, <2>4, RequestMoves
<1> QED BY <1>3, <1>4

LEMMA JoinFetchKeeps ==
  ASSUME ClientInv, NEW r \in Request, JoinFetch(r)
  PROVE  ClientInv'
<1> USE DEF ClientInv
<1>1. req[r] \in Pending /\ Known(r) /\ req[r].pc = "join" /\ UNCHANGED <<accepted, issued, stored>>
  BY ClientTypes DEF JoinFetch
<1>2. PICK q : q = [req[r] EXCEPT !.pc = "wait"]
  OBVIOUS
<1>3. req' = [req EXCEPT ![r] = q]
  BY <1>2 DEF JoinFetch, ClientTypeOK
<1>4. q \in Pending /\ q.pc = "wait" /\ q.token = req[r].token /\ q.refused = req[r].refused
  BY <1>1, <1>2 DEF Pending, RequestPc
<1>5. stored \notin q.refused
  BY <1>1, <1>4 DEF Known
<1>6. /\ \A p \in Process : fetch'[p] = fetch[p] \/ fetch'[p].pc # "set"
      /\ fetch' \in [Process -> Fetch]
  <2>1. CASE fetch' = fetch
    BY <2>1 DEF ClientTypeOK, Fetch
  <2>2. CASE fetch' = [fetch EXCEPT ![req[r].home] = [pc |-> "post", token |-> NoToken]]
    <3>1. PICK f : f = [pc |-> "post", token |-> NoToken]
      OBVIOUS
    <3>2. f \in Fetch /\ f.pc = "post"
      BY <3>1 DEF Fetch
    <3>3. fetch \in [Process -> Fetch] /\ fetch' = [fetch EXCEPT ![req[r].home] = f]
      BY <2>2, <3>1 DEF ClientTypeOK, Fetch
    <3> QED BY <3>2, <3>3
  <2> QED BY <2>1, <2>2 DEF JoinFetch
<1>7. ClientTypeOK'
  BY <1>1, <1>3, <1>4, <1>6 DEF ClientTypeOK, Fetch
<1> QED BY <1>1, <1>3, <1>4, <1>5, <1>6, <1>7, RequestMoves

(* A request meets an error, or is over.                                   *)
LEMMA FailingKeeps ==
  ASSUME ClientInv, NEW r \in Request, req[r].pc \in {"read", "send"}, NEW e \in Failure,
         req' = [req EXCEPT ![r] = Handled(@, e)],
         UNCHANGED <<accepted, issued, stored, fetch>>
  PROVE  ClientInv'
<1> USE DEF ClientInv
<1>1. req[r] \in Pending /\ Known(r)
  BY ClientTypes
<1>2. PICK q : q = Handled(req[r], e)
  OBVIOUS
<1>3. req' = [req EXCEPT ![r] = q]
  BY <1>2 DEF ClientTypeOK
<1>4. /\ q \in Pending /\ q.pc \in {"invalidate", "sleep", "done"} /\ q.token = NoToken
      /\ q.refused \subseteq req[r].refused \union {req[r].token}
      /\ q.pc # "invalidate" => q.refused \subseteq req[r].refused
      /\ q.pc = "sleep" => q.attempt < MaxRetries
  BY <1>1, <1>2, HandledSound
<1>5. q.pc # "invalidate" => stored \notin q.refused
  BY <1>1, <1>4 DEF Known
<1>6. ClientTypeOK'
  BY <1>3, <1>4 DEF ClientTypeOK
<1>7. q.pc # "send" /\ \A p \in Process : fetch'[p] = fetch[p]
  BY <1>4
<1>8. UNCHANGED <<accepted, issued, stored>>
  OBVIOUS
<1> QED BY <1>3, <1>4, <1>5, <1>6, <1>7, <1>8, RequestMoves

LEMMA EndingKeeps ==
  ASSUME ClientInv, NEW r \in Request, NEW a \in Answer,
         req' = [req EXCEPT ![r] = Ended(@, a)],
         UNCHANGED <<accepted, issued, stored, fetch>>
  PROVE  ClientInv'
<1> USE DEF ClientInv
<1>1. req[r] \in Pending
  BY ClientTypes
<1>2. PICK q : q = Ended(req[r], a)
  OBVIOUS
<1>3. req' = [req EXCEPT ![r] = q]
  BY <1>2 DEF ClientTypeOK
<1>4. q \in Pending /\ q.pc = "done" /\ q.token = NoToken /\ q.refused = {}
  BY <1>1, <1>2, EndedSound
<1>5. ClientTypeOK'
  BY <1>3, <1>4 DEF ClientTypeOK
<1>6. UNCHANGED <<accepted, issued, stored>> /\ \A p \in Process : fetch'[p] = fetch[p]
  OBVIOUS
<1> QED BY <1>3, <1>4, <1>5, <1>6, RequestMoves

LEMMA WakeKeeps ==
  ASSUME ClientInv, NEW r \in Request, Wake(r)
  PROVE  ClientInv'
<1> USE DEF ClientInv
<1>1. req[r] \in Pending /\ Known(r) /\ req[r].pc = "sleep" /\ UNCHANGED <<accepted, issued, stored, fetch>>
  BY ClientTypes DEF Wake
<1>2. PICK q : q = [req[r] EXCEPT !.pc = "read", !.attempt = @ + 1]
  OBVIOUS
<1>3. req' = [req EXCEPT ![r] = q]
  BY <1>2 DEF Wake, ClientTypeOK
<1>4. q \in Pending /\ q.pc = "read" /\ q.token = req[r].token /\ q.refused = req[r].refused
  <2>1. req[r].attempt + 1 \in 0..MaxRetries
    BY <1>1, ClientAssumption DEF Known, Pending
  <2> QED BY <2>1, <1>1, <1>2 DEF Pending, RequestPc
<1>5. stored \notin q.refused
  BY <1>1, <1>4 DEF Known
<1>6. ClientTypeOK'
  BY <1>1, <1>3, <1>4 DEF ClientTypeOK
<1>7. \A p \in Process : fetch'[p] = fetch[p]
  BY <1>1
<1> QED BY <1>1, <1>3, <1>4, <1>5, <1>6, <1>7, RequestMoves

(* A token leaves Redis, or the fetch that failed leaves its process; the  *)
(* fetches that go on are as new as before.                                *)
LEMMA InvalidateTokenKeeps ==
  ASSUME ClientInv, NEW r \in Request, InvalidateToken(r)
  PROVE  ClientInv'
<1> USE DEF ClientInv
<1>1. /\ req[r] \in Pending /\ req[r].pc = "invalidate" /\ stored' = NoToken
      /\ UNCHANGED <<accepted, issued, fetch>>
  BY ClientTypes DEF InvalidateToken
<1>2. PICK q : q = [req[r] EXCEPT !.pc = "read"]
  OBVIOUS
<1>3. req' = [req EXCEPT ![r] = q]
  BY <1>2 DEF InvalidateToken, ClientTypeOK
<1>4. q \in Pending /\ q.pc = "read" /\ q.token = req[r].token /\ q.refused = req[r].refused
  BY <1>1, <1>2 DEF Pending, RequestPc
<1>5. ClientTypeOK'
  BY <1>1, <1>3, <1>4 DEF ClientTypeOK
<1>6. \A s \in Request : /\ req'[s].token = req[s].token /\ req'[s].refused = req[s].refused
                         /\ req'[s].pc \in {"send", "sleep"} => req'[s] = req[s]
  BY <1>3, <1>4 DEF ClientTypeOK
<1>7. ASSUME NEW s \in Request PROVE Known(s)'
  <2>1. Known(s) /\ req[s].refused \subseteq Token
    BY ClientTypes
  <2>2. NoToken \notin Token
    BY DEF NoToken, Token
  <2> QED BY <1>1, <1>6, <2>1, <2>2 DEF Known
<1>8. ASSUME NEW p \in Process PROVE NewToAll(p)'
  <2>1. NewToAll(p)
    OBVIOUS
  <2> QED BY <1>1, <1>6, <2>1 DEF NewToAll, NoToken
<1>9. (stored <= issued)'
  BY <1>1, ClientTypes DEF NoToken
<1> QED BY <1>5, <1>7, <1>8, <1>9

LEMMA TokenExpiresKeeps ==
  ASSUME ClientInv, TokenExpires
  PROVE  ClientInv'
<1> USE DEF ClientInv
<1>1. stored' = NoToken /\ UNCHANGED <<accepted, issued, fetch, req>>
  BY DEF TokenExpires
<1>2. ClientTypeOK'
  BY <1>1 DEF ClientTypeOK
<1>3. ASSUME NEW s \in Request PROVE Known(s)'
  <2>1. Known(s) /\ req[s].refused \subseteq Token
    BY ClientTypes
  <2>2. NoToken \notin Token
    BY DEF NoToken, Token
  <2> QED BY <1>1, <2>1, <2>2 DEF Known
<1>4. ASSUME NEW p \in Process PROVE NewToAll(p)'
  <2>1. NewToAll(p)
    OBVIOUS
  <2> QED BY <1>1, <2>1 DEF NewToAll, NoToken
<1>5. (stored <= issued)'
  BY <1>1, ClientTypes DEF NoToken
<1> QED BY <1>2, <1>3, <1>4, <1>5

LEMMA TokenDiesKeeps ==
  ASSUME ClientInv, TokenDies
  PROVE  ClientInv'
<1> USE DEF ClientInv
<1>1. accepted' \subseteq accepted /\ UNCHANGED <<issued, stored, fetch, req>>
  BY DEF TokenDies
<1>2. ClientTypeOK'
  BY <1>1 DEF ClientTypeOK
<1>3. ASSUME NEW s \in Request PROVE Known(s)'
  <2>1. Known(s)
    OBVIOUS
  <2> QED BY <1>1, <2>1 DEF Known
<1>4. ASSUME NEW p \in Process PROVE NewToAll(p)'
  <2>1. NewToAll(p)
    OBVIOUS
  <2> QED BY <1>1, <2>1 DEF NewToAll
<1>5. (stored <= issued)'
  BY <1>1
<1> QED BY <1>2, <1>3, <1>4, <1>5

(* Upstream issues a token nobody has seen.                                *)
LEMMA PostTokenKeeps ==
  ASSUME ClientInv, NEW p \in Process, PostToken(p)
  PROVE  ClientInv'
<1> USE DEF ClientInv
<1>1. PICK t : t = issued + 1
  OBVIOUS
<1>2. /\ issued < MaxTokens /\ issued' = t /\ accepted' = accepted \union {t}
      /\ fetch' = [fetch EXCEPT ![p] = [pc |-> "set", token |-> t]]
      /\ UNCHANGED <<stored, req>>
  BY <1>1 DEF PostToken
<1>3. issued \in Nat /\ t \in Nat /\ t \in Token /\ t > issued /\ t \in 0..MaxTokens /\ t \in 1..t
  BY <1>1, <1>2, ClientTypes, ClientAssumption DEF Token
<1>4. PICK f : f = [pc |-> "set", token |-> t]
  OBVIOUS
<1>5. f \in Fetch /\ f.token = t /\ f.pc = "set"
  BY <1>3, <1>4 DEF Fetch
<1>6. fetch' = [fetch EXCEPT ![p] = f]
  BY <1>2, <1>4
<1>7. fetch'[p] = f /\ \A o \in Process : o # p => fetch'[o] = fetch[o]
  BY <1>6 DEF ClientTypeOK
<1>8. ClientTypeOK'
  BY <1>2, <1>3, <1>5, <1>6 DEF ClientTypeOK, Fetch
<1>9. ASSUME NEW s \in Request PROVE Known(s)'
  <2>1. Known(s) /\ req[s].token \in Nat /\ req[s].refused \subseteq Token
    BY ClientTypes
  <2>2. req[s].token <= t
    BY <2>1, <1>3 DEF Known
  <2>3. \A x \in req[s].refused : x <= t
    BY <2>1, <1>3 DEF Known, Token
  <2> QED BY <1>2, <2>1, <2>2, <2>3 DEF Known
<1>10. /\ t # stored
       /\ \A s \in Request : t # req[s].token /\ t \notin req[s].refused
       /\ \A o \in Process : fetch[o].pc = "set" => fetch[o].token # t
  <2>1. t # stored
    BY <1>3, ClientTypes
  <2>2. ASSUME NEW s \in Request PROVE t # req[s].token /\ t \notin req[s].refused
    <3>1. Known(s) /\ req[s].token \in Nat
      BY ClientTypes
    <3> QED BY <3>1, <1>3 DEF Known
  <2>3. ASSUME NEW o \in Process, fetch[o].pc = "set" PROVE fetch[o].token # t
    <3>1. fetch[o].token \in 1..issued
      BY <2>3 DEF NewToAll
    <3> QED BY <3>1, <1>3
  <2> QED BY <2>1, <2>2, <2>3
<1>11. ASSUME NEW o \in Process PROVE NewToAll(o)'
  <2>1. CASE o = p
    BY <2>1, <1>2, <1>3, <1>5, <1>7, <1>10 DEF NewToAll
  <2>2. CASE o # p
    <3> SUFFICES ASSUME fetch[o].pc = "set" PROVE NewToAll(o)'
      BY <2>2, <1>7 DEF NewToAll
    <3>1. NewToAll(o) /\ fetch'[o] = fetch[o]
      BY <2>2, <1>7
    <3>2. fetch[o].token \in 1..t
      BY <3>1, <1>3 DEF NewToAll
    <3>3. \A x \in Process : x # o /\ fetch'[x].pc = "set" => fetch'[x].token # fetch[o].token
      <4> TAKE x \in Process
      <4>1. CASE x = p
        BY <4>1, <1>5, <1>7, <1>10
      <4>2. CASE x # p
        BY <4>2, <1>7, <3>1 DEF NewToAll
      <4> QED BY <4>1, <4>2
    <3> QED BY <3>1, <3>2, <3>3, <1>2 DEF NewToAll
  <2> QED BY <2>1, <2>2
<1>12. (stored <= issued)'
  BY <1>2, <1>3, ClientTypes
<1> QED BY <1>8, <1>9, <1>11, <1>12

(* Redis has the token, and so have all that waited for it: it is as new   *)
(* to them as it was to everybody.                                         *)
LEMMA CacheTokenKeeps ==
  ASSUME ClientInv, NEW p \in Process, CacheToken(p)
  PROVE  ClientInv'
<1> USE DEF ClientInv
<1>1. PICK t : t = fetch[p].token
  OBVIOUS
<1>2. /\ fetch[p].pc = "set" /\ stored' = t
      /\ req' = [r \in Request |-> IF r \in Waiting(p) THEN [req[r] EXCEPT !.pc = "send", !.token = t] ELSE req[r]]
      /\ fetch' = [fetch EXCEPT ![p] = NoFetch]
      /\ UNCHANGED <<accepted, issued>>
  BY <1>1 DEF CacheToken
<1>3. /\ t \in 1..issued /\ t # stored
      /\ \A r \in Request : t # req[r].token /\ t \notin req[r].refused
      /\ \A o \in Process : o # p /\ fetch[o].pc = "set" => fetch[o].token # t
  BY <1>1, <1>2 DEF NewToAll
<1>4. t \in Token \union {NoToken} /\ t <= issued
  BY <1>1, <1>3, ClientTypes DEF Fetch
<1>5. fetch'[p].pc = "none" /\ \A o \in Process : o # p => fetch'[o] = fetch[o]
  BY <1>2 DEF ClientTypeOK, NoFetch
<1>6. ASSUME NEW r \in Request
      PROVE  /\ req'[r] \in Pending /\ req'[r].refused = req[r].refused
             /\ \/ req'[r] = req[r]
                \/ req'[r].pc = "send" /\ req'[r].token = t
  <2>1. req[r] \in Pending
    BY ClientTypes
  <2>2. CASE r \in Waiting(p)
    <3>1. req'[r] = [req[r] EXCEPT !.pc = "send", !.token = t]
      BY <1>2, <2>2
    <3> QED BY <2>1, <3>1, <1>4 DEF Pending, RequestPc
  <2>3. CASE r \notin Waiting(p)
    BY <1>2, <2>1, <2>3
  <2> QED BY <2>2, <2>3
<1>7. ClientTypeOK'
  <2>1. req' \in [Request -> Pending]
    BY <1>2, <1>6
  <2>2. fetch' \in [Process -> Fetch]
    BY <1>2, ClientRecords DEF ClientTypeOK, Fetch
  <2> QED BY <2>1, <2>2, <1>2, <1>4 DEF ClientTypeOK, Fetch
<1>8. ASSUME NEW r \in Request PROVE Known(r)'
  <2>1. Known(r) /\ t \notin req[r].refused
    BY <1>3
  <2>2. CASE req'[r] = req[r]
    BY <2>1, <2>2, <1>2 DEF Known
  <2>3. CASE req'[r].pc = "send" /\ req'[r].token = t
    BY <2>1, <2>3, <1>2, <1>4, <1>6 DEF Known
  <2> QED BY <2>2, <2>3, <1>6
<1>9. ASSUME NEW o \in Process PROVE NewToAll(o)'
  <2>1. CASE o = p
    BY <2>1, <1>5 DEF NewToAll
  <2>2. CASE o # p
    <3> SUFFICES ASSUME fetch[o].pc = "set" PROVE NewToAll(o)'
      BY <2>2, <1>5 DEF NewToAll
    <3>1. NewToAll(o) /\ fetch'[o] = fetch[o] /\ fetch[o].token # t
      BY <2>2, <1>3, <1>5
    <3>2. \A r \in Request : fetch[o].token # req'[r].token /\ fetch[o].token \notin req'[r].refused
      BY <1>6, <3>1 DEF NewToAll
    <3>3. \A x \in Process : x # o /\ fetch'[x].pc = "set" => fetch'[x].token # fetch[o].token
      BY <1>5, <3>1 DEF NewToAll
    <3> QED BY <3>1, <3>2, <3>3, <1>2 DEF NewToAll
  <2> QED BY <2>1, <2>2
<1>10. (stored <= issued)'
  BY <1>2, <1>4
<1> QED BY <1>7, <1>8, <1>9, <1>10

(* All that wait for a fetch that failed meet its error.                   *)
LEMMA FetchFailsKeeps ==
  ASSUME ClientInv, NEW p \in Process, FetchFails(p)
  PROVE  ClientInv'
<1> USE DEF ClientInv
<1>1. PICK e \in Fault :
        /\ req' = [r \in Request |-> IF r \in Waiting(p) THEN Handled(req[r], e) ELSE req[r]]
        /\ fetch' = [fetch EXCEPT ![p] = NoFetch]
        /\ UNCHANGED <<accepted, issued, stored>>
  BY DEF FetchFails
<1>2. e \in Failure
  BY ClientAssumption
<1>3. ASSUME NEW r \in Request
      PROVE  /\ req'[r] \in Pending
             /\ \/ req'[r] = req[r]
                \/ /\ req[r].pc = "wait"
                   /\ req'[r].pc # "send" /\ req'[r].token = NoToken
                   /\ req'[r].refused \subseteq req[r].refused \union ({req[r].token} \ {NoToken})
                   /\ req'[r].pc # "invalidate" => req'[r].refused \subseteq req[r].refused
                   /\ req'[r].pc = "sleep" => req'[r].attempt < MaxRetries
  <2>1. req[r] \in Pending
    BY ClientTypes
  <2>2. CASE r \in Waiting(p)
    <3>1. req'[r] = Handled(req[r], e) /\ req[r].pc = "wait"
      BY <1>1, <2>2 DEF Waiting
    <3>2. PICK h : h = Handled(req[r], e)
      OBVIOUS
    <3>3. /\ h \in Pending /\ h.pc \in {"invalidate", "sleep", "done"} /\ h.token = NoToken
          /\ h.refused \subseteq req[r].refused \union ({req[r].token} \ {NoToken})
          /\ h.pc # "invalidate" => h.refused \subseteq req[r].refused
          /\ h.pc = "sleep" => h.attempt < MaxRetries
      BY <3>2, <2>1, <1>2, HandledSound
    <3> QED BY <3>1, <3>2, <3>3
  <2>3. CASE r \notin Waiting(p)
    BY <1>1, <2>1, <2>3
  <2> QED BY <2>2, <2>3
<1>4. fetch'[p].pc = "none" /\ \A o \in Process : o # p => fetch'[o] = fetch[o]
  BY <1>1 DEF ClientTypeOK, NoFetch
<1>5. ClientTypeOK'
  <2>1. req' \in [Request -> Pending]
    BY <1>1, <1>3
  <2>2. fetch' \in [Process -> Fetch]
    BY <1>1, ClientRecords DEF ClientTypeOK, Fetch
  <2> QED BY <2>1, <2>2, <1>1 DEF ClientTypeOK, Fetch
<1>6. ASSUME NEW r \in Request PROVE Known(r)'
  <2>1. Known(r) /\ req[r].token \in Nat /\ issued \in Nat
    BY ClientTypes
  <2>2. CASE req'[r] = req[r]
    BY <2>1, <2>2, <1>1 DEF Known
  <2>3. CASE req'[r] # req[r]
    <3>1. req'[r].token <= issued
      BY <2>1, <2>3, <1>3 DEF NoToken
    <3>2. \A x \in req'[r].refused : x <= issued
      BY <2>1, <2>3, <1>3 DEF Known
    <3>3. req'[r].pc # "invalidate" => stored \notin req'[r].refused
      BY <2>1, <2>3, <1>3 DEF Known
    <3> QED BY <2>3, <3>1, <3>2, <3>3, <1>1, <1>3 DEF Known
  <2> QED BY <2>2, <2>3
<1>7. ASSUME NEW o \in Process PROVE NewToAll(o)'
  <2>1. CASE o = p
    BY <2>1, <1>4 DEF NewToAll
  <2>2. CASE o # p
    <3> SUFFICES ASSUME fetch[o].pc = "set" PROVE NewToAll(o)'
      BY <2>2, <1>4 DEF NewToAll
    <3>1. NewToAll(o) /\ fetch'[o] = fetch[o] /\ fetch[o].token \in 1..issued
      BY <2>2, <1>4 DEF NewToAll
    <3>2. \A r \in Request : fetch[o].token # req'[r].token /\ fetch[o].token \notin req'[r].refused
      BY <1>3, <3>1 DEF NewToAll, NoToken
    <3>3. \A x \in Process : x # o /\ fetch'[x].pc = "set" => fetch'[x].token # fetch[o].token
      BY <1>4, <3>1 DEF NewToAll
    <3> QED BY <3>1, <3>2, <3>3, <1>1 DEF NewToAll
  <2> QED BY <2>1, <2>2
<1>8. (stored <= issued)'
  BY <1>1
<1> QED BY <1>5, <1>6, <1>7, <1>8

LEMMA RequestStepKeeps ==
  ASSUME ClientInv, NEW r \in Request, RequestStep(r)
  PROVE  ClientInv'
<1>1. CASE Served(r)
  BY <1>1, EndingKeeps DEF Served, Answer
<1>2. CASE Unauthorized(r)
  BY <1>2, FailingKeeps DEF Unauthorized, Failure
<1>3. CASE CallFails(r)
  <2>1. PICK e \in Failure : req[r].pc = "send" /\ req' = [req EXCEPT ![r] = Handled(@, e)]
                             /\ UNCHANGED <<accepted, issued, stored, fetch>>
    BY <1>3, ClientAssumption DEF CallFails
  <2> QED BY <2>1, FailingKeeps
<1>4. CASE RedisFails(r)
  <2>1. CASE req[r].pc = "read"
    BY <1>4, <2>1, FailingKeeps DEF RedisFails, Failure
  <2>2. CASE req[r].pc = "invalidate"
    BY <1>4, <2>2, EndingKeeps DEF RedisFails, Answer
  <2> QED BY <1>4, <2>1, <2>2 DEF RedisFails
<1> QED BY <1>1, <1>2, <1>3, <1>4, ReadCachedTokenKeeps, JoinFetchKeeps, InvalidateTokenKeeps, WakeKeeps
        DEF RequestStep

LEMMA ClientNextKeeps == ClientInv /\ [ClientNext]_clientVars => ClientInv'
<1> SUFFICES ASSUME ClientInv, [ClientNext]_clientVars PROVE ClientInv'
  OBVIOUS
<1>1. CASE UNCHANGED clientVars
  BY <1>1 DEF clientVars, ClientInv, ClientTypeOK, NewToAll, Known
<1>2. CASE \E r \in Request : Call(r) \/ RequestStep(r)
  BY <1>2, CallKeeps, RequestStepKeeps
<1>3. CASE \E p \in Process : FetchStep(p)
  BY <1>3, PostTokenKeeps, CacheTokenKeeps, FetchFailsKeeps DEF FetchStep
<1>4. CASE TokenExpires \/ TokenDies
  BY <1>4, TokenExpiresKeeps, TokenDiesKeeps
<1> QED BY <1>1, <1>2, <1>3, <1>4 DEF ClientNext

(***************************************************************************)
(* Tokens, requests and fetches keep their types: no request makes more    *)
(* attempts than there are retries.                                        *)
(***************************************************************************)
THEOREM ClientTypeCorrect == ClientSpec => []ClientTypeOK
<1>1. ClientInv => ClientTypeOK
  BY DEF ClientInv
<1> QED BY InitClient, ClientNextKeeps, <1>1, PTL DEF ClientSpec

(***************************************************************************)
(* For any requests, processes and failures: the retry after a 401 is not  *)
(* sent with a token the request was refused with.                         *)
(***************************************************************************)
THEOREM DeadTokensAreDropped == ClientSpec => []NeverTheDeadTokenAgain
<1>1. ClientInv => NeverTheDeadTokenAgain
  BY DEF ClientInv, Known, NeverTheDeadTokenAgain
<1> QED BY InitClient, ClientNextKeeps, <1>1, PTL DEF ClientSpec

----------------------------------------------------------------------------
(* The verses: what a load holds, and how old it lets an entry become. *)

Kept == [age: 0..Retain \union {Missing}, content: Content]
Load == [pc: LoadPc, value: Content]

(* An entry is written with what its load holds; a merge holds what its    *)
(* two entries held less than the retention ago, and no rows before it     *)
(* read them.  It holds none of an edition that was switched off ticks     *)
(* ago, for no tick falls into a load.                                     *)
LoadFits(k, l) ==
  /\ l \in Load /\ (l.pc = "none" => l.value = NoContent)
  /\ k # "merged" => l.pc \in {"none", "fetch", "write"}
  /\ k # "merged" /\ l.pc = "write" => l.value = [NoContent EXCEPT ![k] = 0]
  /\ k = "merged" => /\ l.pc # "fetch" /\ l.value.verses < Retain /\ l.value.rows < Retain
                     /\ l.pc \in {"base", "active", "rows"} => l.value.rows = Missing
                     /\ ~inUse /\ offFor > 0 => l.value.rows = Missing /\ l.pc # "rows"

(* What is kept of an entry on its own is as old as the entry; what a      *)
(* merge holds is older by less than the retention.  It holds nothing of   *)
(* an edition that was switched off before it was written.                 *)
KeptFits(k, e) ==
  /\ e \in Kept /\ e.age < Retain
  /\ e.age = Missing => e.content = NoContent
  /\ k = "verses" => e.content = [NoContent EXCEPT !.verses = e.age]
  /\ k = "rows" => e.content = [NoContent EXCEPT !.rows = e.age]
  /\ k = "merged" /\ e.age # Missing
       => e.content.verses < e.age + Retain /\ e.content.rows < e.age + Retain
  /\ k = "merged" /\ ~inUse /\ offFor > 0 => e.content.rows = Missing \/ e.age >= offFor

ContentInv ==
  /\ ContentTypeOK
  /\ \A k \in Entry : LoadFits(k, load[k]) /\ KeptFits(k, kept[k])

LEMMA ContentTypes ==
  ASSUME ContentTypeOK
  PROVE  /\ kept \in [Entry -> Kept] /\ load \in [Entry -> Load]
         /\ offFor \in Nat /\ Retain \in Nat /\ Retain > 0
         /\ \A k \in Entry : /\ kept[k] \in Kept /\ load[k] \in Load
                             /\ kept[k].age \in Int /\ kept[k].content \in Content
                             /\ load[k].value \in Content
<1>1. kept \in [Entry -> Kept] /\ load \in [Entry -> Load] /\ offFor \in 0..MaxAge
  BY DEF ContentTypeOK, Kept, Load
<1>2. Retain \in Nat /\ Retain > 0
  BY ContentAssumption
<1>3. offFor \in Nat
  BY <1>1, <1>2 DEF MaxAge
<1>4. ASSUME NEW k \in Entry
      PROVE  /\ kept[k] \in Kept /\ load[k] \in Load
             /\ kept[k].age \in Int /\ kept[k].content \in Content
             /\ load[k].value \in Content
  <2>1. kept[k] \in Kept /\ load[k] \in Load
    BY <1>1
  <2> QED BY <2>1, <1>2 DEF Kept, Load, Missing
<1> QED BY <1>1, <1>2, <1>3, <1>4

LEMMA ContentRecords ==
  /\ NoContent \in Content /\ NotKept \in Kept /\ NoLoad \in Load
  /\ NoContent.verses = Missing /\ NoContent.rows = Missing /\ Missing < Retain /\ Missing # 0
  /\ Retain \in Nat /\ Retain > 0
<1>1. Retain \in Nat /\ Retain > 0
  BY ContentAssumption
<1>2. NoContent \in Content
  BY DEF NoContent, Content
<1>3. NotKept \in Kept /\ NoLoad \in Load
  BY <1>2 DEF NotKept, Kept, NoLoad, Load, LoadPc
<1>4. NoContent.verses = Missing /\ NoContent.rows = Missing /\ Missing < Retain /\ Missing # 0
  BY <1>1 DEF NoContent, Missing
<1> QED BY <1>1, <1>2, <1>3, <1>4

(* The two parts of a content, as integers.                                *)
LEMMA ContentParts ==
  ASSUME NEW c \in Content
  PROVE  c.verses \in Int /\ c.rows \in Int /\ c.verses >= Missing /\ c.rows >= Missing
BY ContentRecords DEF Content, MaxAge, Missing

LEMMA InitContent == ContentInit => ContentInv
<1> SUFFICES ASSUME ContentInit PROVE ContentInv
  OBVIOUS
<1>1. ContentTypeOK
  <2>1. offFor \in 0..MaxAge
    BY ContentRecords DEF ContentInit, MaxAge
  <2> QED BY <2>1, ContentRecords DEF ContentInit, ContentTypeOK, Kept, Load
<1>2. ASSUME NEW k \in Entry PROVE LoadFits(k, load[k]) /\ KeptFits(k, kept[k])
  <2>1. load[k] = NoLoad /\ kept[k] = NotKept
    BY <1>1 DEF ContentInit
  <2>2. NoLoad.pc = "none" /\ NoLoad.value = NoContent /\ NotKept.age = Missing /\ NotKept.content = NoContent
    BY DEF NoLoad, NotKept
  <2>3. [NoContent EXCEPT !.verses = Missing] = NoContent /\ [NoContent EXCEPT !.rows = Missing] = NoContent
    BY DEF NoContent
  <2>4. LoadFits(k, load[k])
    BY <2>1, <2>2, ContentRecords DEF LoadFits
  <2>5. KeptFits(k, kept[k])
    BY <2>1, <2>2, <2>3, ContentRecords DEF KeptFits
  <2> QED BY <2>4, <2>5
<1> QED BY <1>1, <1>2 DEF ContentInv

(* What a merge is given of an entry that is kept, or of a load that ends, *)
(* is younger than the retention, and is nothing of an edition that was    *)
(* left out.                                                               *)
LEMMA GivenSound ==
  ASSUME ContentInv, NEW k \in {"verses", "rows"}, Waits(k), NEW c \in Content,
         c.verses < Retain, c.rows < Retain, k = "verses" => c.rows = Missing
  PROVE  LoadFits("merged", Given(k, c))
<1>1. CASE k = "verses"
  <2>1. PICK g : g = [pc |-> "active", value |-> c]
    OBVIOUS
  <2>2. Given(k, c) = g
    BY <1>1, <2>1 DEF Given
  <2>3. g \in Load /\ g.pc = "active" /\ g.value = c
    BY <2>1 DEF Load, LoadPc
  <2> QED BY <2>2, <2>3, <1>1 DEF LoadFits
<1>2. CASE k = "rows"
  <2>1. LoadFits("merged", load["merged"]) /\ load["merged"].pc = "rows"
    BY <1>2 DEF ContentInv, Entry, Waits
  <2>2. PICK w : w = [load["merged"].value EXCEPT !.rows = c.rows]
    OBVIOUS
  <2>3. w \in Content /\ w.verses < Retain /\ w.rows < Retain
    BY <2>1, <2>2 DEF Content, LoadFits, Load
  <2>4. PICK g : g = [pc |-> "write", value |-> w]
    OBVIOUS
  <2>5. Given(k, c) = g
    BY <1>2, <2>2, <2>4 DEF Given
  <2>6. g \in Load /\ g.pc = "write" /\ g.value = w
    BY <2>3, <2>4 DEF Load, LoadPc
  <2>7. ~(~inUse /\ offFor > 0)
    BY <2>1 DEF LoadFits
  <2> QED BY <2>3, <2>5, <2>6, <2>7 DEF LoadFits
<1> QED BY <1>1, <1>2

(* A step that leaves the edition alone keeps the invariant when what it   *)
(* loads and keeps fits.                                                   *)
LEMMA FitsKeep ==
  ASSUME ContentInv, NEW f \in [Entry -> Load], NEW g \in [Entry -> Kept], load' = f, kept' = g,
         \A k \in Entry : LoadFits(k, f[k]) /\ KeptFits(k, g[k]),
         UNCHANGED <<inUse, offFor>>
  PROVE  ContentInv'
<1>1. ContentTypeOK'
  BY DEF ContentInv, ContentTypeOK, Load, Kept
<1>2. \A k \in Entry : LoadFits(k, load[k])'
  BY DEF LoadFits
<1>3. \A k \in Entry : KeptFits(k, kept[k])'
  BY DEF KeptFits
<1> QED BY <1>1, <1>2, <1>3 DEF ContentInv

(* An entry can be left without a load, or with one that begins.           *)
LEMMA BegunFits ==
  ASSUME ContentInv, NEW k \in Entry
  PROVE  LoadFits(k, NoLoad) /\ LoadFits(k, Begun(k))
<1>1. NoLoad.pc = "none" /\ NoLoad.value = NoContent
  BY DEF NoLoad
<1>2. LoadFits(k, NoLoad)
  BY <1>1, ContentRecords DEF LoadFits
<1>3. PICK b : b = Begun(k)
  OBVIOUS
<1>4. b.pc = (IF k = "merged" THEN "base" ELSE "fetch") /\ b.value = NoContent /\ b \in Load
  BY <1>3, ContentRecords DEF Begun, Load, LoadPc
<1>5. LoadFits(k, b)
  BY <1>4, ContentRecords DEF LoadFits, Entry
<1> QED BY <1>2, <1>3, <1>5

(* Steps that only change the load of one entry.                           *)
LEMMA OneLoadKeeps ==
  ASSUME ContentInv, NEW k \in Entry, NEW l, LoadFits(k, l), load' = [load EXCEPT ![k] = l],
         UNCHANGED <<kept, inUse, offFor>>
  PROVE  ContentInv'
<1>1. ContentTypeOK
  BY DEF ContentInv
<1>2. load \in [Entry -> Load] /\ kept \in [Entry -> Kept] /\ l \in Load
  BY <1>1, ContentTypes DEF LoadFits
<1>3. PICK f \in [Entry -> Load] : f = [load EXCEPT ![k] = l]
  BY <1>2
<1>4. PICK g \in [Entry -> Kept] : g = kept
  BY <1>2
<1>5. \A x \in Entry : LoadFits(x, f[x]) /\ KeptFits(x, g[x])
  BY <1>2, <1>3, <1>4 DEF ContentInv
<1>6. load' = f /\ kept' = g /\ UNCHANGED <<inUse, offFor>>
  BY <1>3, <1>4
<1> QED BY <1>5, <1>6, FitsKeep

LEMMA LoadSharedKeeps ==
  ASSUME ContentInv, NEW k \in Entry, LoadShared(k) \/ LoadInside(k)
  PROVE  ContentInv'
<1>1. load' = [load EXCEPT ![k] = Begun(k)] /\ UNCHANGED <<kept, inUse, offFor>>
  BY DEF LoadShared, LoadInside
<1>2. PICK l : l = Begun(k)
  OBVIOUS
<1>3. LoadFits(k, l)
  BY <1>2, BegunFits
<1> QED BY <1>1, <1>2, <1>3, OneLoadKeeps

LEMMA FetchedKeeps ==
  ASSUME ContentInv, NEW k \in Entry, Fetched(k)
  PROVE  ContentInv'
<1>1. /\ load[k].pc = "fetch" /\ UNCHANGED <<kept, inUse, offFor>>
      /\ load' = [load EXCEPT ![k] = [pc |-> "write", value |-> [NoContent EXCEPT ![k] = 0]]]
  BY DEF Fetched
<1>2. k # "merged"
  BY <1>1 DEF ContentInv, LoadFits
<1>3. PICK c : c = [NoContent EXCEPT ![k] = 0]
  OBVIOUS
<1>4. c \in Content
  BY <1>2, <1>3, ContentRecords DEF NoContent, Content, Entry, MaxAge
<1>5. PICK l : l = [pc |-> "write", value |-> c]
  OBVIOUS
<1>6. l \in Load /\ l.pc = "write" /\ l.value = c
  BY <1>4, <1>5 DEF Load, LoadPc
<1>7. LoadFits(k, l)
  BY <1>2, <1>3, <1>6 DEF LoadFits
<1> QED BY <1>1, <1>3, <1>5, <1>7, OneLoadKeeps

LEMMA FilterKeeps ==
  ASSUME ContentInv, FilterActiveEncKeys
  PROVE  ContentInv'
<1>1. "merged" \in Entry
  BY DEF Entry
<1>2. LoadFits("merged", load["merged"]) /\ load["merged"].pc = "active"
  BY <1>1 DEF ContentInv, FilterActiveEncKeys
<1>3. PICK pc : pc = IF inUse THEN "rows" ELSE "write"
  OBVIOUS
<1>4. PICK l : l = [load["merged"] EXCEPT !.pc = pc]
  OBVIOUS
<1>5. load' = [load EXCEPT !["merged"] = l] /\ UNCHANGED <<kept, inUse, offFor>>
  BY <1>1, <1>3, <1>4, ContentTypes DEF FilterActiveEncKeys, ContentInv
<1>6. pc \in {"rows", "write"} /\ (pc = "rows" => inUse)
  BY <1>3, Zenon
<1>7. l \in Load /\ l.pc = pc /\ l.value = load["merged"].value
  BY <1>2, <1>4, <1>6 DEF LoadFits, Load, LoadPc
<1>8. l.value.verses < Retain /\ l.value.rows < Retain /\ l.value.rows = Missing
  BY <1>2, <1>7 DEF LoadFits
<1>9. ~inUse => l.pc # "rows"
  BY <1>6, <1>7
<1>10. LoadFits("merged", l)
  BY <1>6, <1>7, <1>8, <1>9 DEF LoadFits
<1> QED BY <1>1, <1>5, <1>10, OneLoadKeeps

(* What an entry on its own is kept with is younger than the retention,    *)
(* and holds its own part only.                                            *)
LEMMA OwnContent ==
  ASSUME NEW k \in {"verses", "rows"}, NEW e, KeptFits(k, e)
  PROVE  /\ e.content \in Content /\ e.content.verses < Retain /\ e.content.rows < Retain
         /\ k = "verses" => e.content.rows = Missing
<1>1. e.age \in Int /\ e.age < Retain /\ e.content \in Content
  BY ContentRecords DEF KeptFits, Kept, Missing
<1>2. CASE k = "verses"
  <2>1. e.content = [NoContent EXCEPT !.verses = e.age]
    BY <1>2 DEF KeptFits
  <2>2. e.content.verses = e.age /\ e.content.rows = Missing
    BY <2>1 DEF NoContent
  <2> QED BY <1>1, <1>2, <2>2, ContentRecords
<1>3. CASE k = "rows"
  <2>1. e.content = [NoContent EXCEPT !.rows = e.age]
    BY <1>3 DEF KeptFits
  <2>2. e.content.rows = e.age /\ e.content.verses = Missing
    BY <2>1 DEF NoContent
  <2> QED BY <1>1, <1>3, <2>2, ContentRecords
<1> QED BY <1>2, <1>3

LEMMA WaitsAre ==
  ASSUME NEW k \in Entry, Waits(k)
  PROVE  k \in {"verses", "rows"} /\ k # "merged" /\ "merged" \in Entry
BY DEF Waits, Entry

(* Steps that also give the merge something.                               *)
LEMMA TwoLoadsKeep ==
  ASSUME ContentInv, NEW k \in Entry, k # "merged", NEW l, LoadFits(k, l),
         NEW m, LoadFits("merged", m), NEW e, KeptFits(k, e),
         load' = [load EXCEPT !["merged"] = m, ![k] = l],
         kept' = [kept EXCEPT ![k] = e],
         UNCHANGED <<inUse, offFor>>
  PROVE  ContentInv'
<1>1. ContentTypeOK /\ "merged" \in Entry
  BY DEF ContentInv, Entry
<1>2. load \in [Entry -> Load] /\ kept \in [Entry -> Kept] /\ l \in Load /\ m \in Load /\ e \in Kept
  BY <1>1, ContentTypes DEF LoadFits, KeptFits
<1>3. PICK f \in [Entry -> Load] : f = [load EXCEPT !["merged"] = m, ![k] = l]
  BY <1>2
<1>4. PICK g \in [Entry -> Kept] : g = [kept EXCEPT ![k] = e]
  BY <1>2
<1>5. \A x \in Entry : LoadFits(x, f[x])
  BY <1>1, <1>2, <1>3 DEF ContentInv
<1>6. \A x \in Entry : KeptFits(x, g[x])
  BY <1>1, <1>2, <1>4 DEF ContentInv
<1>7. load' = f /\ kept' = g /\ UNCHANGED <<inUse, offFor>>
  BY <1>3, <1>4
<1> QED BY <1>5, <1>6, <1>7, FitsKeep

LEMMA ReadInsideKeeps ==
  ASSUME ContentInv, NEW k \in Entry, ReadInside(k)
  PROVE  ContentInv'
<1>1. /\ Waits(k) /\ UNCHANGED <<inUse, offFor>>
      /\ k \in {"verses", "rows"} /\ k # "merged" /\ "merged" \in Entry
      /\ LoadFits(k, load[k]) /\ KeptFits(k, kept[k]) /\ ContentTypeOK
  BY WaitsAre DEF ReadInside, ContentInv
<1>2. PICK m : m = Given(k, kept[k].content)
  OBVIOUS
<1>3. LoadFits("merged", m)
  <2>1. PICK e : e = kept[k]
    OBVIOUS
  <2>2. PICK c \in Content : c = e.content
    BY <2>1, <1>1, OwnContent
  <2>3. c.verses < Retain /\ c.rows < Retain /\ (k = "verses" => c.rows = Missing)
    BY <2>1, <2>2, <1>1, OwnContent
  <2>4. LoadFits("merged", Given(k, c))
    BY <2>3, <1>1, GivenSound
  <2> QED BY <2>1, <2>2, <2>4, <1>2
<1>4. PICK l : l = IF Idle(k) /\ kept[k].age >= Fresh[k] THEN Begun(k) ELSE load[k]
  OBVIOUS
<1>5. LoadFits(k, l)
  BY <1>1, <1>4, BegunFits
<1>6. load' = [load EXCEPT !["merged"] = m, ![k] = l]
  BY <1>1, <1>2, <1>4, ContentTypes DEF ReadInside
<1>7. PICK e : e = kept[k]
  OBVIOUS
<1>8. kept' = [kept EXCEPT ![k] = e]
  BY <1>1, <1>7, ContentTypes DEF ReadInside
<1> QED BY <1>1, <1>3, <1>5, <1>6, <1>7, <1>8, TwoLoadsKeep

(* An entry is written: it is as old as nothing, and a merge of what is    *)
(* younger than the retention.                                             *)
LEMMA WrittenFits ==
  ASSUME ContentInv, NEW k \in Entry, load[k].pc = "write",
         NEW e, e = [age |-> 0, content |-> load[k].value]
  PROVE  KeptFits(k, e)
<1>1. LoadFits(k, load[k])
  BY DEF ContentInv
<1>2. e.age = 0 /\ e.content = load[k].value /\ e \in Kept
  BY <1>1, ContentRecords DEF LoadFits, Load, Kept
<1>3. CASE k = "merged"
  <2>1. /\ load[k].value.verses < Retain /\ load[k].value.rows < Retain
        /\ ~inUse /\ offFor > 0 => load[k].value.rows = Missing
    BY <1>1, <1>3 DEF LoadFits
  <2> QED BY <2>1, <1>2, <1>3, ContentRecords DEF KeptFits
<1>4. CASE k # "merged"
  <2>1. load[k].value = [NoContent EXCEPT ![k] = 0]
    BY <1>1, <1>4 DEF LoadFits
  <2> QED BY <2>1, <1>2, <1>4, ContentRecords DEF KeptFits, Entry
<1> QED BY <1>3, <1>4

LEMMA WriteEntryKeeps ==
  ASSUME ContentInv, NEW k \in Entry, WriteEntry(k)
  PROVE  ContentInv'
<1>1. load[k].pc = "write" /\ LoadFits(k, load[k]) /\ ContentTypeOK /\ UNCHANGED <<inUse, offFor>>
  BY DEF WriteEntry, ContentInv
<1>2. PICK e : e = [age |-> 0, content |-> load[k].value]
  OBVIOUS
<1>3. KeptFits(k, e)
  BY <1>1, <1>2, WrittenFits
<1>4. kept' = [kept EXCEPT ![k] = e]
  BY <1>2 DEF WriteEntry
<1>5. PICK n : n = NoLoad
  OBVIOUS
<1>6. LoadFits(k, n)
  BY <1>5, BegunFits
<1>7. CASE Waits(k)
  <2>1. k \in {"verses", "rows"} /\ k # "merged" /\ "merged" \in Entry
    BY <1>7, WaitsAre
  <2>2. PICK m : m = Given(k, load[k].value)
    OBVIOUS
  <2>3. LoadFits("merged", m)
    <3>1. e.content = load[k].value
      BY <1>2
    <3>2. PICK c \in Content : c = load[k].value
      BY <3>1, <2>1, <1>3, OwnContent
    <3>3. c.verses < Retain /\ c.rows < Retain /\ (k = "verses" => c.rows = Missing)
      BY <3>1, <3>2, <2>1, <1>3, OwnContent
    <3>4. LoadFits("merged", Given(k, c))
      BY <3>3, <2>1, <1>7, GivenSound
    <3> QED BY <3>2, <3>4, <2>2
  <2>4. load' = [load EXCEPT ![k] = n, !["merged"] = m]
    BY <1>5, <1>7, <2>2 DEF WriteEntry
  <2>5. load' = [load EXCEPT !["merged"] = m, ![k] = n]
    BY <2>1, <2>4, <1>1, ContentTypes
  <2> QED BY <2>1, <2>3, <2>5, <1>1, <1>3, <1>4, <1>6, TwoLoadsKeep
<1>8. CASE ~Waits(k)
  <2>1. load' = [load EXCEPT ![k] = n]
    BY <1>5, <1>8 DEF WriteEntry
  <2>2. load \in [Entry -> Load] /\ kept \in [Entry -> Kept] /\ n \in Load /\ e \in Kept
    BY <1>1, <1>3, <1>6, ContentTypes DEF LoadFits, KeptFits
  <2>3. PICK f \in [Entry -> Load] : f = [load EXCEPT ![k] = n]
    BY <2>2
  <2>4. PICK g \in [Entry -> Kept] : g = [kept EXCEPT ![k] = e]
    BY <2>2
  <2>5. \A x \in Entry : LoadFits(x, f[x]) /\ KeptFits(x, g[x])
    BY <2>2, <2>3, <2>4, <1>3, <1>6 DEF ContentInv
  <2>6. load' = f /\ kept' = g
    BY <2>1, <2>3, <2>4, <1>4
  <2> QED BY <2>5, <2>6, <1>1, FitsKeep
<1> QED BY <1>7, <1>8

(* A load that fails is none; a merge that waited for it is none either,   *)
(* or goes on without rows.                                                *)
LEMMA LoadFailsKeeps ==
  ASSUME ContentInv, NEW k \in Entry, LoadFails(k)
  PROVE  ContentInv'
<1>1. ContentTypeOK /\ UNCHANGED <<kept, inUse, offFor>> /\ LoadFits(k, load[k]) /\ KeptFits(k, kept[k])
  BY DEF LoadFails, ContentInv
<1>2. PICK n : n = NoLoad
  OBVIOUS
<1>3. LoadFits(k, n) /\ LoadFits("merged", n)
  BY <1>2, BegunFits DEF Entry
<1>4. CASE ~Waits(k)
  <2>1. load' = [load EXCEPT ![k] = n]
    BY <1>2, <1>4 DEF LoadFails
  <2> QED BY <2>1, <1>1, <1>3, OneLoadKeeps
<1>5. CASE Waits(k)
  <2>1. k \in {"verses", "rows"} /\ k # "merged" /\ "merged" \in Entry
    BY <1>5, WaitsAre
  <2>2. PICK m : m = IF k = "verses" THEN NoLoad ELSE Given(k, NoContent)
    OBVIOUS
  <2>3. LoadFits("merged", m)
    <3>1. CASE k = "verses"
      BY <3>1, <2>2, <1>2, <1>3
    <3>2. CASE k # "verses"
      <4>1. PICK c \in Content : c = NoContent
        BY ContentRecords
      <4>2. c.verses < Retain /\ c.rows < Retain
        BY <4>1, ContentRecords
      <4>3. LoadFits("merged", Given(k, c))
        BY <4>2, <3>2, <2>1, <1>5, GivenSound
      <4> QED BY <4>1, <4>3, <3>2, <2>2
    <3> QED BY <3>1, <3>2
  <2>4. load' = [load EXCEPT ![k] = n, !["merged"] = m]
    BY <1>2, <1>5, <2>2 DEF LoadFails
  <2>5. load' = [load EXCEPT !["merged"] = m, ![k] = n]
    BY <2>1, <2>4, <1>1, ContentTypes
  <2>6. PICK e : e = kept[k]
    OBVIOUS
  <2>7. kept' = [kept EXCEPT ![k] = e]
    BY <2>6, <1>1, ContentTypes
  <2> QED BY <2>1, <2>3, <2>5, <2>6, <2>7, <1>1, <1>3, TwoLoadsKeep
<1> QED BY <1>4, <1>5

(* An edition that was switched off a moment ago may still be in a load.   *)
LEMMA SetActiveKeeps ==
  ASSUME ContentInv, SetActive
  PROVE  ContentInv'
<1>1. inUse' = ~inUse /\ offFor' = 0 /\ UNCHANGED <<kept, load>>
  BY DEF SetActive
<1>2. ContentTypeOK'
  <2>1. 0 \in 0..MaxAge
    BY ContentRecords DEF MaxAge
  <2>2. inUse' \in BOOLEAN
    BY <1>1
  <2> QED BY <2>1, <2>2, <1>1 DEF ContentInv, ContentTypeOK
<1>3. ASSUME NEW k \in Entry PROVE LoadFits(k, load[k])'
  <2>1. LoadFits(k, load[k]) /\ ~(offFor' > 0)
    BY <1>1 DEF ContentInv
  <2> QED BY <2>1, <1>1 DEF LoadFits
<1>4. ASSUME NEW k \in Entry PROVE KeptFits(k, kept[k])'
  <2>1. KeptFits(k, kept[k]) /\ ~(offFor' > 0)
    BY <1>1 DEF ContentInv
  <2> QED BY <2>1, <1>1 DEF KeptFits
<1> QED BY <1>2, <1>3, <1>4 DEF ContentInv

LEMMA NotKeptFits ==
  ASSUME NEW k \in Entry, ContentTypeOK
  PROVE  KeptFits(k, NotKept)
<1>1. NotKept.age = Missing /\ NotKept.content = NoContent
  BY DEF NotKept
<1>2. [NoContent EXCEPT !.verses = Missing] = NoContent /\ [NoContent EXCEPT !.rows = Missing] = NoContent
  BY DEF NoContent
<1> QED BY <1>1, <1>2, ContentRecords DEF KeptFits

LEMMA InvalidateVersesKeeps ==
  ASSUME ContentInv, InvalidateVerses
  PROVE  ContentInv'
<1>1. ContentTypeOK
  BY DEF ContentInv
<1>2. PICK f \in [Entry -> Load] : f = load
  BY <1>1, ContentTypes
<1>3. PICK g \in [Entry -> Kept] : g = [k \in Entry |-> NotKept]
  BY ContentRecords
<1>4. load' = f /\ kept' = g /\ UNCHANGED <<inUse, offFor>>
  BY <1>2, <1>3 DEF InvalidateVerses
<1>5. \A k \in Entry : LoadFits(k, f[k]) /\ KeptFits(k, g[k])
  BY <1>1, <1>2, <1>3, NotKeptFits DEF ContentInv
<1> QED BY <1>4, <1>5, FitsKeep

(* A tick: what is kept grows older with its entry, and so does the time   *)
(* the edition has been off.                                               *)
LEMMA OlderSound ==
  ASSUME NEW a \in 0..MaxAge \union {Missing}
  PROVE  /\ Older(a) \in 0..MaxAge \union {Missing}
         /\ Older(a) = Missing <=> a = Missing
         /\ Older(a) <= a + 1
         /\ a # Missing /\ a < MaxAge => Older(a) = a + 1
<1>1. MaxAge \in Nat
  BY ContentRecords DEF MaxAge
<1> QED BY <1>1 DEF Older, Missing

LEMMA TickFits ==
  ASSUME ContentInv, NEW k \in Entry, NEW e, KeptFits(k, e), e.age # Missing, e.age + 1 < Retain,
         NEW a, a = [age |-> e.age + 1, content |-> [p \in {"verses", "rows"} |-> Older(e.content[p])]],
         NEW off, off = IF inUse THEN 0 ELSE Older(offFor)
  PROVE  /\ a \in Kept /\ a.age < Retain /\ a.age # Missing
         /\ k = "verses" => a.content = [NoContent EXCEPT !.verses = a.age]
         /\ k = "rows" => a.content = [NoContent EXCEPT !.rows = a.age]
         /\ k = "merged" => a.content.verses < a.age + Retain /\ a.content.rows < a.age + Retain
         /\ k = "merged" /\ ~inUse /\ off > 0 => a.content.rows = Missing \/ a.age >= off
<1>1. /\ e.age \in Int /\ e.age >= 0 /\ e.age < Retain /\ e.content \in Content
      /\ Retain \in Nat /\ Retain > 0 /\ MaxAge \in Nat /\ Retain < MaxAge
  BY ContentRecords DEF KeptFits, Kept, Missing, MaxAge
<1>2. PICK c : c = [verses |-> Older(e.content.verses), rows |-> Older(e.content.rows)]
  OBVIOUS
<1>3. a.age = e.age + 1 /\ a.content = c /\ a = [age |-> e.age + 1, content |-> c]
  <2>1. [p \in {"verses", "rows"} |-> Older(e.content[p])] = c
    BY <1>2
  <2> QED BY <2>1
<1>4. /\ e.content.verses \in 0..MaxAge \union {Missing} /\ e.content.rows \in 0..MaxAge \union {Missing}
  BY <1>1 DEF Content
<1>5. c \in Content /\ c.verses = Older(e.content.verses) /\ c.rows = Older(e.content.rows)
  BY <1>2, <1>4, OlderSound DEF Content
<1>o. Older(e.age) = e.age + 1 /\ Older(Missing) = Missing
  <2>1. e.age \in 0..MaxAge \union {Missing} /\ e.age < MaxAge /\ e.age # Missing
    BY <1>1
  <2>2. Missing \in 0..MaxAge \union {Missing}
    OBVIOUS
  <2> QED BY <2>1, <2>2, OlderSound
<1>6. a \in Kept /\ a.age < Retain /\ a.age # Missing
  BY <1>1, <1>3, <1>5 DEF Kept, Missing
<1>7. CASE k = "verses"
  <2>1. e.content.verses = e.age /\ e.content.rows = Missing
    BY <1>7 DEF KeptFits, NoContent
  <2>2. c.verses = a.age /\ c.rows = Missing
    BY <2>1, <1>3, <1>5, <1>o
  <2>3. c = [verses |-> a.age, rows |-> Missing]
    BY <2>2, <1>2
  <2>4. c = [NoContent EXCEPT !.verses = a.age]
    BY <2>3 DEF NoContent
  <2> QED BY <2>4, <1>3, <1>6, <1>7
<1>8. CASE k = "rows"
  <2>1. e.content.rows = e.age /\ e.content.verses = Missing
    BY <1>8 DEF KeptFits, NoContent
  <2>2. c.rows = a.age /\ c.verses = Missing
    BY <2>1, <1>3, <1>5, <1>o
  <2>3. c = [verses |-> Missing, rows |-> a.age]
    BY <2>2, <1>2
  <2>4. c = [NoContent EXCEPT !.rows = a.age]
    BY <2>3 DEF NoContent
  <2> QED BY <2>4, <1>3, <1>6, <1>8
<1>9. CASE k = "merged"
  <2>1. e.content.verses < e.age + Retain /\ e.content.rows < e.age + Retain
    BY <1>9 DEF KeptFits
  <2>2. c.verses < a.age + Retain /\ c.rows < a.age + Retain
    BY <2>1, <1>1, <1>3, <1>4, <1>5, ContentParts, OlderSound
  <2>3. ~inUse /\ off > 0 => c.rows = Missing \/ a.age >= off
    <3> SUFFICES ASSUME ~inUse, off > 0, c.rows # Missing PROVE a.age >= off
      OBVIOUS
    <3>1. off = Older(offFor) /\ offFor \in 0..MaxAge
      BY Zenon DEF ContentInv, ContentTypeOK
    <3>2. e.content.rows # Missing
      BY <1>4, <1>5, OlderSound
    <3>3. offFor > 0 => e.age >= offFor
      BY <3>2, <1>9 DEF KeptFits
    <3>4. off <= offFor + 1 /\ offFor \in Nat /\ off \in Int
      BY <3>1, <1>1, OlderSound DEF Missing
    <3> QED BY <3>3, <3>4, <1>1, <1>3
  <2> QED BY <2>2, <2>3, <1>3, <1>6, <1>9
<1> QED BY <1>7, <1>8, <1>9 DEF Entry

LEMMA TickKeeps ==
  ASSUME ContentInv, Tick
  PROVE  ContentInv'
<1>1. ContentTypeOK
  BY DEF ContentInv
<1>2. PICK off : off = IF inUse THEN 0 ELSE Older(offFor)
  OBVIOUS
<1>3. /\ \A k \in Entry : load[k].pc = "none"
      /\ offFor' = off /\ UNCHANGED <<load, inUse>>
      /\ kept' = [k \in Entry |->
           IF kept[k].age = Missing \/ kept[k].age + 1 >= Retain THEN NotKept
           ELSE [age |-> kept[k].age + 1,
                 content |-> [p \in {"verses", "rows"} |-> Older(kept[k].content[p])]]]
  BY <1>2 DEF Tick, Idle
<1>4. off \in 0..MaxAge /\ off \in Nat
  <2>1. offFor \in 0..MaxAge /\ MaxAge \in Nat /\ offFor # Missing
    BY <1>1, ContentRecords DEF ContentTypeOK, MaxAge, Missing
  <2>2. Older(offFor) \in 0..MaxAge
    BY <2>1, OlderSound
  <2> QED BY <2>1, <2>2, <1>2
<1>5. ASSUME NEW k \in Entry PROVE LoadFits(k, load[k])'
  <2>1. LoadFits(k, load[k]) /\ load[k].pc = "none"
    BY <1>3 DEF ContentInv
  <2>2. load[k].value.rows = Missing
    BY <2>1, ContentRecords DEF LoadFits
  <2> QED BY <2>1, <2>2, <1>3 DEF LoadFits
<1>6. ASSUME NEW k \in Entry PROVE KeptFits(k, kept[k])' /\ kept'[k] \in Kept
  <2>1. KeptFits(k, kept[k]) /\ kept[k].age \in Int
    BY <1>1, ContentTypes DEF ContentInv
  <2>2. CASE kept[k].age = Missing \/ kept[k].age + 1 >= Retain
    <3>1. kept'[k] = NotKept
      BY <1>3, <2>2
    <3>2. NotKept.age = Missing /\ NotKept.content = NoContent /\ NotKept \in Kept
      BY ContentRecords DEF NotKept
    <3>3. [NoContent EXCEPT !.verses = Missing] = NoContent /\ [NoContent EXCEPT !.rows = Missing] = NoContent
      BY DEF NoContent
    <3> QED BY <3>1, <3>2, <3>3, ContentRecords DEF KeptFits
  <2>3. CASE kept[k].age # Missing /\ ~(kept[k].age + 1 >= Retain)
    <3>1. PICK e : e = kept[k]
      OBVIOUS
    <3>2. PICK a : a = [age |-> e.age + 1, content |-> [p \in {"verses", "rows"} |-> Older(e.content[p])]]
      OBVIOUS
    <3>3. kept'[k] = a
      BY <1>3, <2>3, <3>1, <3>2
    <3>4. e.age # Missing /\ e.age + 1 < Retain /\ KeptFits(k, e)
      BY <2>1, <2>3, <3>1, ContentRecords
    <3>5. /\ a \in Kept /\ a.age < Retain /\ a.age # Missing
          /\ k = "verses" => a.content = [NoContent EXCEPT !.verses = a.age]
          /\ k = "rows" => a.content = [NoContent EXCEPT !.rows = a.age]
          /\ k = "merged" => a.content.verses < a.age + Retain /\ a.content.rows < a.age + Retain
          /\ k = "merged" /\ ~inUse /\ off > 0 => a.content.rows = Missing \/ a.age >= off
      BY <3>2, <3>4, <1>2, TickFits
    <3> QED BY <3>3, <3>5, <1>3 DEF KeptFits
  <2> QED BY <2>2, <2>3
<1>7. ContentTypeOK'
  <2>1. kept' \in [Entry -> Kept]
    BY <1>3, <1>6
  <2> QED BY <2>1, <1>1, <1>3, <1>4 DEF ContentTypeOK, Kept
<1> QED BY <1>5, <1>6, <1>7 DEF ContentInv

LEMMA ContentNextKeeps == ContentInv /\ [ContentNext]_contentVars => ContentInv'
<1> SUFFICES ASSUME ContentInv, [ContentNext]_contentVars PROVE ContentInv'
  OBVIOUS
<1>1. CASE UNCHANGED contentVars
  BY <1>1 DEF contentVars, ContentInv, ContentTypeOK, LoadFits, KeptFits
<1>2. CASE \E k \in Entry : LoadShared(k) \/ LoadStep(k)
  BY <1>2, LoadSharedKeeps, FetchedKeeps, WriteEntryKeeps, LoadFailsKeeps DEF LoadStep
<1>3. CASE MergeStep
  BY <1>3, ReadInsideKeeps, LoadSharedKeeps, FilterKeeps DEF MergeStep
<1>4. CASE SetActive \/ InvalidateVerses \/ Tick
  BY <1>4, SetActiveKeeps, InvalidateVersesKeeps, TickKeeps
<1> QED BY <1>1, <1>2, <1>3, <1>4 DEF ContentNext

(* Entries, loads and the time the edition has been off keep their types.  *)
THEOREM ContentTypeCorrect == ContentSpec => []ContentTypeOK
<1>1. ContentInv => ContentTypeOK
  BY DEF ContentInv
<1> QED BY InitContent, ContentNextKeeps, <1>1, PTL DEF ContentSpec

(***************************************************************************)
(* For any retention and any freshness of the three entries: verses are    *)
(* answered younger than the retention, merges of them younger than twice  *)
(* that, and an edition that has been off for the retention is in no merge.*)
(***************************************************************************)
THEOREM AnswersDoAgeOut == ContentSpec => []AnswersAgeOut
<1>1. ContentInv => AnswersAgeOut
  <2> SUFFICES ASSUME ContentInv PROVE AnswersAgeOut
    OBVIOUS
  <2>1. /\ KeptFits("verses", kept["verses"]) /\ KeptFits("merged", kept["merged"])
        /\ Retain \in Nat /\ Retain > 0 /\ offFor \in Nat
        /\ kept["merged"].content \in Content /\ kept["merged"].age \in Int
    BY ContentTypes DEF ContentInv, Entry
  <2>2. kept["verses"].content.verses < Retain
    BY <2>1, OwnContent
  <2>3. kept["merged"].content.verses < 2 * Retain - 1 /\ kept["merged"].content.rows < 2 * Retain - 1
    <3>1. CASE kept["merged"].age = Missing
      BY <3>1, <2>1, ContentRecords DEF KeptFits, Missing
    <3>2. CASE kept["merged"].age # Missing
      BY <3>2, <2>1, ContentParts DEF KeptFits
    <3> QED BY <3>1, <3>2
  <2>4. ~inUse /\ offFor >= Retain => kept["merged"].content.rows = Missing
    <3> SUFFICES ASSUME ~inUse, offFor >= Retain PROVE kept["merged"].content.rows = Missing
      OBVIOUS
    <3>1. kept["merged"].age < Retain /\ offFor > 0
      BY <2>1 DEF KeptFits
    <3>2. kept["merged"].content.rows = Missing \/ kept["merged"].age >= offFor
      BY <2>1, <3>1 DEF KeptFits
    <3> QED BY <3>1, <3>2, <2>1
  <2> QED BY <2>2, <2>3, <2>4 DEF AnswersAgeOut
<1> QED BY InitContent, ContentNextKeeps, <1>1, PTL DEF ContentSpec

----------------------------------------------------------------------------
(* Every part keeps to its types, whichever of them a behaviour is of. *)
THEOREM PartsTypeCorrect == MCSpec => []PartsTypeOK
<1> DEFINE Inv == ClientInv /\ ContentInv
<1>1. MCInit => Inv
  BY InitClient, InitContent DEF MCInit
<1>2. Inv /\ [MCNext]_allVars => Inv'
  <2> SUFFICES ASSUME Inv, [MCNext]_allVars PROVE Inv'
    OBVIOUS
  <2>1. [ClientNext]_clientVars /\ [ContentNext]_contentVars
    BY DEF MCNext, allVars
  <2> QED BY <2>1, ClientNextKeeps, ContentNextKeeps
<1>3. Inv => PartsTypeOK
  BY DEF ClientInv, ContentInv, PartsTypeOK
<1> QED BY <1>1, <1>2, <1>3, PTL DEF MCSpec
=============================================================================
