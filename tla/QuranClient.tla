----------------------------- MODULE QuranClient -----------------------------
(***************************************************************************)
(* Requests to Quran.Foundation.  The access token is kept in Redis, where *)
(* every process finds it; a process that does not find it fetches one,    *)
(* once for all of its requests that need it.  A request refused with 401  *)
(* drops the token, whichever it is by then, and tries once more; one that *)
(* times out, is throttled or meets a server error waits and tries again.  *)
(* An action is one Redis command, one HTTP exchange or one timer.  A      *)
(* process has one connection to Redis, so that it has seen the reply to   *)
(* its SET before it joins any later GET to the fetch: the SET and the end *)
(* of the fetch are one step.  The two scopes do not share anything; this  *)
(* is one of them.                                                         *)
(***************************************************************************)
EXTENDS Integers, FiniteSets

CONSTANTS
  Request,     \* calls of getContent or getSearch
  Process,     \* the processes of the API and the commands
  Fault,       \* the failures that happen
  MaxRetries,  \* config.maxRetries
  MaxTokens    \* bound on the tokens upstream issues

VARIABLES
  accepted, \* tokens upstream accepts
  issued,   \* tokens it has issued
  stored,   \* the token in Redis
  fetch,    \* the shared fetch of each process
  req       \* where each request is

clientVars == <<accepted, issued, stored, fetch, req>>

Token == 1..MaxTokens
NoToken == 0

(* What a call may end in: an HTTP status, or an error before there is one. *)
Failure == {"timeout", "reset", "redis", "400", "401", "403", "404", "422", "429", "500", "503"}

ASSUME ClientAssumption ==
  /\ Request # {} /\ Process # {}
  /\ Fault \subseteq Failure
  /\ MaxRetries \in Nat /\ MaxTokens \in Nat \ {0}

Answer == {"none", "ok", "badRequest", "notFound", "unprocessable", "throttled", "badGateway",
           "unavailable", "timedOut", "raw"}

RequestPc == {"idle", "read", "join", "wait", "send", "invalidate", "sleep", "done"}
Pending == [pc: RequestPc, home: Process, token: Token \union {NoToken}, attempt: 0..MaxRetries,
            retried: BOOLEAN, refused: SUBSET Token, answer: Answer]

ClientTypeOK ==
  /\ accepted \subseteq Token /\ issued \in 0..MaxTokens
  /\ stored \in Token \union {NoToken}
  /\ fetch \in [Process -> [pc: {"none", "post", "set"}, token: Token \union {NoToken}]]
  /\ req \in [Request -> Pending]

NoFetch == [pc |-> "none", token |-> NoToken]

\* the process starts with a token of an earlier one in Redis, or with none
ClientInit ==
  /\ issued \in {0, 1}
  /\ stored = issued
  /\ accepted = 1..issued
  /\ fetch = [p \in Process |-> NoFetch]
  /\ req = [r \in Request |-> [pc |-> "idle", home |-> CHOOSE p \in Process : TRUE,
                              token |-> NoToken, attempt |-> 0,
                              retried |-> FALSE, refused |-> {}, answer |-> "none"]]

----------------------------------------------------------------------------
(* Errors. *)

\* a redis error is no error of axios: it is neither tried again nor told apart
Mapped(e) ==
  CASE e = "timeout" -> "timedOut"
    [] e \in {"reset", "redis", "401", "403", "500"} -> "badGateway"
    [] e = "400" -> "badRequest"
    [] e = "404" -> "notFound"
    [] e = "422" -> "unprocessable"
    [] e = "429" -> "throttled"
    [] e = "503" -> "unavailable"

Retryable(e) == e \in {"timeout", "reset", "429", "500", "503"}

\* a request that is over keeps nothing but its answer
Ended(q, a) ==
  [q EXCEPT !.pc = "done", !.answer = a,
            !.token = NoToken, !.attempt = 0, !.retried = FALSE, !.refused = {}]

\* what a request does that has met the error e
Handled(q, e) ==
  CASE e = "401" /\ ~q.retried
         -> [q EXCEPT !.pc = "invalidate", !.retried = TRUE, !.token = NoToken,
                      !.refused = @ \union ({q.token} \ {NoToken})]
    [] q.attempt < MaxRetries /\ Retryable(e) -> [q EXCEPT !.pc = "sleep", !.token = NoToken]
    [] OTHER -> Ended(q, Mapped(e))

----------------------------------------------------------------------------
(* The token. *)

\* a caller asks in any of the processes
Call(r) ==
  /\ req[r].pc = "idle"
  /\ \E p \in Process : req' = [req EXCEPT ![r].pc = "read", ![r].home = p]
  /\ UNCHANGED <<accepted, issued, stored, fetch>>

ReadCachedToken(r) ==
  /\ req[r].pc = "read"
  /\ req' = IF stored # NoToken THEN [req EXCEPT ![r].pc = "send", ![r].token = stored]
            ELSE [req EXCEPT ![r].pc = "join"]
  /\ UNCHANGED <<accepted, issued, stored, fetch>>

\* its process may have fetched a token, and be done, since the read
JoinFetch(r) ==
  /\ req[r].pc = "join"
  /\ req' = [req EXCEPT ![r].pc = "wait"]
  /\ fetch' = IF fetch[req[r].home].pc # "none" THEN fetch
              ELSE [fetch EXCEPT ![req[r].home] = [pc |-> "post", token |-> NoToken]]
  /\ UNCHANGED <<accepted, issued, stored>>

Waiting(p) == {r \in Request : req[r].home = p /\ req[r].pc = "wait"}

PostToken(p) ==
  /\ fetch[p].pc = "post" /\ issued < MaxTokens
  /\ issued' = issued + 1
  /\ accepted' = accepted \union {issued'}
  /\ fetch' = [fetch EXCEPT ![p] = [pc |-> "set", token |-> issued']]
  /\ UNCHANGED <<stored, req>>

\* the token is stored and handed to all that wait for it
CacheToken(p) ==
  /\ fetch[p].pc = "set"
  /\ stored' = fetch[p].token
  /\ req' = [r \in Request |-> IF r \in Waiting(p)
               THEN [req[r] EXCEPT !.pc = "send", !.token = fetch[p].token] ELSE req[r]]
  /\ fetch' = [fetch EXCEPT ![p] = NoFetch]
  /\ UNCHANGED <<accepted, issued>>

\* mutant: a fetch that fails is left for others to join
FetchFailsUncleared(p) ==
  \E e \in Fault :
    /\ \/ fetch[p].pc = "post" /\ e # "redis"
       \/ fetch[p].pc = "set" /\ e = "redis"
    /\ req' = [r \in Request |-> IF r \in Waiting(p) THEN Handled(req[r], e) ELSE req[r]]
    /\ fetch' = [fetch EXCEPT ![p].pc = "failed"]
    /\ UNCHANGED <<accepted, issued, stored>>

\* all that wait for it get the error
FetchFails(p) ==
  \E e \in Fault :
    /\ \/ fetch[p].pc = "post" /\ e # "redis"
       \/ fetch[p].pc = "set" /\ e = "redis"
    /\ req' = [r \in Request |-> IF r \in Waiting(p) THEN Handled(req[r], e) ELSE req[r]]
    /\ fetch' = [fetch EXCEPT ![p] = NoFetch]
    /\ UNCHANGED <<accepted, issued, stored>>

----------------------------------------------------------------------------
(* The call. *)

Served(r) ==
  /\ req[r].pc = "send" /\ req[r].token \in accepted
  /\ req' = [req EXCEPT ![r] = Ended(@, "ok")]
  /\ UNCHANGED <<accepted, issued, stored, fetch>>

Unauthorized(r) ==
  /\ req[r].pc = "send" /\ req[r].token \notin accepted
  /\ req' = [req EXCEPT ![r] = Handled(@, "401")]
  /\ UNCHANGED <<accepted, issued, stored, fetch>>

CallFails(r) ==
  \E e \in Fault \ {"401", "redis"} :
    /\ req[r].pc = "send"
    /\ req' = [req EXCEPT ![r] = Handled(@, e)]
    /\ UNCHANGED <<accepted, issued, stored, fetch>>

\* mutant: the retry is left to find the token where it was
InvalidateTokenSkipped(r) ==
  /\ req[r].pc = "invalidate"
  /\ req' = [req EXCEPT ![r].pc = "read"]
  /\ UNCHANGED <<accepted, issued, stored, fetch>>

\* whatever token is stored by now
InvalidateToken(r) ==
  /\ req[r].pc = "invalidate"
  /\ stored' = NoToken
  /\ req' = [req EXCEPT ![r].pc = "read"]
  /\ UNCHANGED <<accepted, issued, fetch>>

\* Redis fails under the read, which is an error of the attempt, or under the DEL, which is not
RedisFails(r) ==
  /\ req[r].pc \in {"read", "invalidate"}
  /\ req' = IF req[r].pc = "read" THEN [req EXCEPT ![r] = Handled(@, "redis")]
            ELSE [req EXCEPT ![r] = Ended(@, "raw")]
  /\ UNCHANGED <<accepted, issued, stored, fetch>>

\* the delay is over: what Retry-After says, or the exponential back-off
Wake(r) ==
  /\ req[r].pc = "sleep"
  /\ req' = [req EXCEPT ![r].pc = "read", ![r].attempt = @ + 1]
  /\ UNCHANGED <<accepted, issued, stored, fetch>>

----------------------------------------------------------------------------
(* Time and upstream. *)

\* the TTL, which is the token's life less a margin, is over
TokenExpires ==
  /\ stored # NoToken
  /\ stored' = NoToken
  /\ UNCHANGED <<accepted, issued, fetch, req>>

\* upstream ends a token, before that margin or, with a life under the shortest TTL, after it
TokenDies ==
  /\ \E t \in accepted : accepted' = accepted \ {t}
  /\ UNCHANGED <<issued, stored, fetch, req>>

RequestStep(r) ==
  \/ ReadCachedToken(r) \/ JoinFetch(r) \/ Served(r) \/ Unauthorized(r) \/ CallFails(r)
  \/ InvalidateToken(r) \/ RedisFails(r) \/ Wake(r)
FetchStep(p) == PostToken(p) \/ CacheToken(p) \/ FetchFails(p)

ClientNext ==
  \/ \E r \in Request : Call(r) \/ RequestStep(r)
  \/ \E p \in Process : FetchStep(p)
  \/ TokenExpires \/ TokenDies

\* timers fire, and an HTTP exchange or a Redis command ends, if only with its timeout
ClientFairness ==
  /\ \A r \in Request : WF_clientVars(RequestStep(r))
  /\ \A p \in Process : WF_clientVars(FetchStep(p))

ClientSpec == ClientInit /\ [][ClientNext]_clientVars /\ ClientFairness

----------------------------------------------------------------------------
(* Properties. *)

\* A request that was refused is never sent again with a token it was refused with: the retry
\* after a 401 would be wasted (request drops the token before it reads again, and a fetch
\* stores its token before any request has it, and not again).
NeverTheDeadTokenAgain ==
  \A r \in Request : req[r].pc = "send" => req[r].token \notin req[r].refused

\* Every request that is made is answered or fails: no fetch that has failed is waited for, and
\* refusals, retries and back-offs come to an end.
RequestsEnd ==
  \A r \in Request : (req[r].pc = "read") ~> (req[r].pc = "done")
=============================================================================
