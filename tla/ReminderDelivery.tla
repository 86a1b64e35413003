-------------------------- MODULE ReminderDelivery --------------------------
(***************************************************************************)
(* Delivery of the daily ayat reminder: a scan run every minute reads the  *)
(* users who are due and puts one job per user and local date on a BullMQ  *)
(* queue; workers run the jobs through NotificationService, which claims   *)
(* the NotificationDelivery row of that user and date, writes the inbox,   *)
(* calls Telegram and records the outcome.  Each action is one database    *)
(* statement or one call, so that workers, scans, users' requests, crashes *)
(* and failed calls interleave as they do in production.                   *)
(***************************************************************************)
EXTENDS ReminderPreferences

CONSTANTS
  Worker,       \* the queue's worker slots, among the actors
  None,         \* no worker holds the job
  MaxAttempts,  \* attempts of a deliver job
  MaxStalls,    \* how often BullMQ puts a stalled job back
  StaleAfter,   \* ticks after which a PENDING row may be reclaimed
  MaxFaults     \* bound on failures, crashes and lost locks

ASSUME DeliveryAssumption ==
  /\ Worker \subseteq Fallible
  /\ IsFiniteSet(Worker)
  /\ None \notin Worker
  /\ MaxAttempts \in Nat \ {0}
  /\ MaxStalls \in Nat
  /\ StaleAfter \in Nat \ {0}
  /\ MaxFaults \in Nat

VARIABLES
  due,       \* what a running scan has read and not yet enqueued, and when it read
  dropped,   \* of those, the ones whose scan stopped before it came to them
  job,       \* the deliver job of each user and date
  worker,    \* where each worker slot is, and what it has read
  delivery,  \* NotificationDelivery rows
  inbox,     \* user and dates with a UserNotification row
  sent,      \* messages Telegram has delivered to the user for the date
  faults,    \* faults that struck a user and date
  faultsLeft

deliveryVars == <<due, dropped, job, worker, delivery, inbox, sent, faults, faultsLeft>>
vars == <<prefVars, deliveryVars>>

Date == 0..LocalDate(MaxClock)
Key == User \X Date

JobState == {"none", "waiting", "active", "failed"}
Job == [state: JobState, attempts: Nat, stalls: 0..MaxStalls,
        owner: Worker \union {None}]
NoJob == [state |-> "none", attempts |-> 0, stalls |-> 0, owner |-> None]

Status == {"PENDING", "SENT", "FAILED", "SKIPPED"}
Terminal == {"SENT", "SKIPPED"}
Row == [status: Status \union {"absent"}, updatedAt: Time]
NoRow == [status |-> "absent", updatedAt |-> 0]

(* The places a worker can be in deliverDailyReminder: the next call.      *)
Pc == {"idle", "findUser", "create", "read", "reclaim", "inbox",
       "markUnwritable", "stampUnwritable", "send", "markSent", "stampSent",
       "markFailed", "markBlocked", "disable"}
Slot == [pc: Pc, key: Key, writeToPm: BOOLEAN]
IdleSlot == [pc |-> "idle", key |-> CHOOSE k \in Key : TRUE, writeToPm |-> FALSE]

DeliveryTypeOK ==
  /\ due \subseteq Time \X Key
  /\ dropped \subseteq Time \X Key
  /\ job \in [Key -> Job]
  /\ worker \in [Worker -> Slot]
  /\ delivery \in [Key -> Row]
  /\ inbox \subseteq Key
  /\ sent \in [Key -> Nat]
  /\ faults \in [Key -> Nat]
  /\ faultsLeft \in 0..MaxFaults

TypeOK == PrefTypeOK /\ DeliveryTypeOK

Init ==
  /\ PrefInit
  /\ due = {}
  /\ dropped = {}
  /\ job = [k \in Key |-> NoJob]
  /\ worker = [w \in Worker |-> IdleSlot]
  /\ delivery = [k \in Key |-> NoRow]
  /\ inbox = {}
  /\ sent = [k \in Key |-> 0]
  /\ faults = [k \in Key |-> 0]
  /\ faultsLeft = MaxFaults

----------------------------------------------------------------------------
(* The scan: findDueReminders, then one queue.add per user.  A throwing    *)
(* add or a crash ends the loop: the rest of what it read is dropped, and  *)
(* only a scan in the same minute finds it again.                          *)

DueKeys == {<<u, LocalDate(clock)>> : u \in {v \in User : Due(v)}}
Found(t) == {p \in due : p[1] = t}

ScanRead ==
  /\ DueKeys # {}
  /\ due' = due \union ({clock} \X DueKeys)
  /\ dropped' = dropped \ ({clock} \X DueKeys)
  /\ UNCHANGED <<prefVars, job, worker, delivery, inbox, sent, faults, faultsLeft>>

\* a job whose id is still known to the queue is not added again
Enqueue(t, k) ==
  /\ <<t, k>> \in due
  /\ due' = due \ {<<t, k>>}
  /\ job' = IF job[k].state = "none" THEN [job EXCEPT ![k] = [NoJob EXCEPT !.state = "waiting"]]
            ELSE job
  /\ UNCHANGED <<prefVars, dropped, worker, delivery, inbox, sent, faults, faultsLeft>>

\* a fault of the scan strikes no delivery: none has begun for what it drops
ScanStops(t) ==
  /\ Found(t) # {}
  /\ faultsLeft > 0
  /\ faultsLeft' = faultsLeft - 1
  /\ due' = due \ Found(t)
  /\ dropped' = dropped \union Found(t)
  /\ UNCHANGED <<prefVars, job, worker, delivery, inbox, sent, faults>>

\* removeOnFail keeps the last hundred failed jobs, of all users
EvictFailed(k) ==
  /\ job[k].state = "failed"
  /\ job' = [job EXCEPT ![k] = NoJob]
  /\ UNCHANGED <<prefVars, due, dropped, worker, delivery, inbox, sent, faults, faultsLeft>>

----------------------------------------------------------------------------
(* A worker and its job. *)

At(w, pc) == worker[w].pc = pc
KeyOf(w) == worker[w].key
On(w, k) == worker[w].pc # "idle" /\ worker[w].key = k
GotoPc(w, pc) == worker' = [worker EXCEPT ![w].pc = pc]
Fault(k) ==
  /\ faultsLeft > 0
  /\ faultsLeft' = faultsLeft - 1
  /\ faults' = [faults EXCEPT ![k] = @ + 1]
NoFault == UNCHANGED <<faults, faultsLeft>>

Owns(w) == job[KeyOf(w)].owner = w

\* a result from a worker that has lost the job's lock changes nothing
Complete(w) ==
  /\ worker' = [worker EXCEPT ![w] = IdleSlot]
  /\ job' = IF Owns(w) THEN [job EXCEPT ![KeyOf(w)] = NoJob] ELSE job

Retried(j) ==
  IF j.attempts + 1 < MaxAttempts
  THEN [j EXCEPT !.state = "waiting", !.attempts = @ + 1, !.owner = None]
  ELSE [j EXCEPT !.state = "failed", !.attempts = @ + 1, !.owner = None]

FailAttempt(w) ==
  /\ worker' = [worker EXCEPT ![w] = IdleSlot]
  /\ job' = IF Owns(w) THEN [job EXCEPT ![KeyOf(w)] = Retried(@)] ELSE job

Take(w, k) ==
  /\ At(w, "idle")
  /\ job[k].state = "waiting"
  /\ job' = [job EXCEPT ![k].state = "active", ![k].owner = w]
  /\ worker' = [worker EXCEPT ![w] = [IdleSlot EXCEPT !.pc = "findUser", !.key = k]]
  /\ UNCHANGED <<prefVars, due, dropped, delivery, inbox, sent>> /\ NoFault

(* deliverDailyReminder, up to the claim. *)

FindUser(w) ==
  LET u == account[KeyOf(w)[1]] IN
  /\ At(w, "findUser")
  /\ \/ /\ ~u.active
        /\ Complete(w)
     \/ /\ u.active
        /\ worker' = [worker EXCEPT ![w].pc = "create", ![w].writeToPm = u.writeToPm]
        /\ UNCHANGED job
  /\ UNCHANGED <<prefVars, due, dropped, delivery, inbox, sent>> /\ NoFault

SetStatus(k, status) ==
  delivery' = [delivery EXCEPT ![k] = [status |-> status, updatedAt |-> clock]]

\* mutant: an upsert, which claims whatever row there is
UpsertRow(w) ==
  /\ At(w, "create")
  /\ SetStatus(KeyOf(w), "PENDING")
  /\ GotoPc(w, "inbox")
  /\ UNCHANGED <<prefVars, due, dropped, job, inbox, sent>> /\ NoFault

CreateRow(w) ==
  LET k == KeyOf(w) IN
  /\ At(w, "create")
  /\ \/ /\ delivery[k].status = "absent"
        /\ SetStatus(k, "PENDING")
        /\ GotoPc(w, "inbox")
     \/ /\ delivery[k].status # "absent"
        /\ GotoPc(w, "read")
        /\ UNCHANGED delivery
  /\ UNCHANGED <<prefVars, due, dropped, job, inbox, sent>> /\ NoFault

CanReclaim(row) ==
  \/ row.status = "FAILED"
  \/ row.status = "PENDING" /\ row.updatedAt <= clock - StaleAfter

ReadRow(w) ==
  LET row == delivery[KeyOf(w)] IN
  /\ At(w, "read")
  /\ \/ /\ CanReclaim(row)
        /\ GotoPc(w, "reclaim")
        /\ UNCHANGED job
     \/ /\ ~CanReclaim(row)
        /\ Complete(w)
  /\ UNCHANGED <<prefVars, due, dropped, delivery, inbox, sent>> /\ NoFault

ReclaimRow(w) ==
  LET k == KeyOf(w) IN
  /\ At(w, "reclaim")
  /\ \/ /\ delivery[k].status \in {"FAILED", "PENDING"}
        /\ SetStatus(k, "PENDING")
        /\ GotoPc(w, "inbox")
        /\ UNCHANGED job
     \/ /\ delivery[k].status \notin {"FAILED", "PENDING"}
        /\ Complete(w)
        /\ UNCHANGED delivery
  /\ UNCHANGED <<prefVars, due, dropped, inbox, sent>> /\ NoFault

(* ... and after it. *)

UpsertInbox(w) ==
  /\ At(w, "inbox")
  /\ inbox' = inbox \union {KeyOf(w)}
  /\ GotoPc(w, IF worker[w].writeToPm THEN "send" ELSE "markUnwritable")
  /\ UNCHANGED <<prefVars, due, dropped, job, delivery, sent>> /\ NoFault

Mark(w, from, status, to) ==
  /\ At(w, from)
  /\ SetStatus(KeyOf(w), status)
  /\ GotoPc(w, to)
  /\ UNCHANGED <<prefVars, due, dropped, job, inbox, sent>> /\ NoFault

\* mutant: a sent reminder is not stamped
MarkSentOnly(w) ==
  /\ At(w, "markSent")
  /\ SetStatus(KeyOf(w), "SENT")
  /\ Complete(w)
  /\ UNCHANGED <<prefVars, due, dropped, inbox, sent>> /\ NoFault

MarkUnwritable(w) == Mark(w, "markUnwritable", "SKIPPED", "stampUnwritable")
MarkSent(w) == Mark(w, "markSent", "SENT", "stampSent")

Stamp(w) ==
  /\ At(w, "stampUnwritable") \/ At(w, "stampSent")
  /\ StampByWorker(KeyOf(w)[1])
  /\ Complete(w)
  /\ UNCHANGED <<due, dropped, delivery, inbox, sent>> /\ NoFault

\* mutant: the error is recorded and not thrown again
MarkFailedAndComplete(w) ==
  /\ At(w, "markFailed")
  /\ SetStatus(KeyOf(w), "FAILED")
  /\ Complete(w)
  /\ UNCHANGED <<prefVars, due, dropped, inbox, sent>> /\ NoFault

MarkFailed(w) ==
  /\ At(w, "markFailed")
  /\ SetStatus(KeyOf(w), "FAILED")
  /\ FailAttempt(w)
  /\ UNCHANGED <<prefVars, due, dropped, inbox, sent>> /\ NoFault

\* 403: SKIPPED, then disableAyatReminders, whose statements are the actor's op
MarkBlocked(w) ==
  LET u == KeyOf(w)[1] IN
  /\ At(w, "markBlocked")
  /\ SetStatus(KeyOf(w), "SKIPPED")
  /\ GotoPc(w, "disable")
  /\ DisableByWorker(w, u)
  /\ UNCHANGED <<due, dropped, job, inbox, sent>> /\ NoFault

Disabled(w) ==
  /\ At(w, "disable")
  /\ op[w].step = "idle"
  /\ Complete(w)
  /\ UNCHANGED <<prefVars, due, dropped, delivery, inbox, sent>> /\ NoFault

(* What Telegram answers.  A request that times out may have been served. *)

Received(k) == sent' = [sent EXCEPT ![k] = @ + 1]

SendOk(w) ==
  /\ At(w, "send")
  /\ Received(KeyOf(w))
  /\ GotoPc(w, "markSent")
  /\ UNCHANGED <<prefVars, due, dropped, job, delivery, inbox>> /\ NoFault

SendRefused(w) ==
  /\ At(w, "send")
  /\ faultsLeft > 0 /\ faultsLeft' = faultsLeft - 1 /\ UNCHANGED faults
  /\ GotoPc(w, "markFailed")
  /\ UNCHANGED <<prefVars, due, dropped, job, delivery, inbox, sent>>

SendBlocked(w) ==
  /\ At(w, "send")
  /\ GotoPc(w, "markBlocked")
  /\ UNCHANGED <<prefVars, due, dropped, job, delivery, inbox, sent>> /\ NoFault

SendTimedOut(w) ==
  /\ At(w, "send")
  /\ Received(KeyOf(w))
  /\ Fault(KeyOf(w))
  /\ GotoPc(w, "markFailed")
  /\ UNCHANGED <<prefVars, due, dropped, job, delivery, inbox>>

----------------------------------------------------------------------------
(* Faults. *)

\* a statement fails inside the try around the send: the catch runs
FailInTry(w) ==
  /\ At(w, "markSent") \/ At(w, "stampSent")
  /\ Fault(KeyOf(w))
  /\ GotoPc(w, "markFailed")
  /\ UNCHANGED <<prefVars, due, dropped, job, delivery, inbox, sent>>

\* a statement fails anywhere else, the catch block included: the job fails
FailOutsideTry(w) ==
  /\ worker[w].pc \notin {"idle", "send", "markSent", "stampSent"}
  /\ Fault(KeyOf(w))
  /\ FailAttempt(w)
  /\ IF op[w].step # "idle" THEN Abandon(w) ELSE UNCHANGED prefVars
  /\ UNCHANGED <<due, dropped, delivery, inbox, sent>>

\* the process dies: the job stays active under a lock nobody renews
Crash(w) ==
  /\ ~At(w, "idle")
  /\ Fault(KeyOf(w))
  /\ worker' = [worker EXCEPT ![w] = IdleSlot]
  /\ job' = IF Owns(w) THEN [job EXCEPT ![KeyOf(w)].owner = None] ELSE job
  /\ IF op[w].step # "idle" THEN Abandon(w) ELSE UNCHANGED prefVars
  /\ UNCHANGED <<due, dropped, delivery, inbox, sent>>

\* a worker that still runs loses the lock (it could not renew it in time)
LoseLock(w) ==
  /\ ~At(w, "idle")
  /\ Owns(w)
  /\ Fault(KeyOf(w))
  /\ job' = [job EXCEPT ![KeyOf(w)].owner = None]
  /\ UNCHANGED <<prefVars, due, dropped, worker, delivery, inbox, sent>>

\* BullMQ's stalled-job check
Recovered(j) ==
  IF j.stalls < MaxStalls THEN [j EXCEPT !.state = "waiting", !.stalls = @ + 1]
  ELSE [j EXCEPT !.state = "failed"]

RecoverStalled(k) ==
  /\ job[k].state = "active"
  /\ job[k].owner = None
  /\ job' = [job EXCEPT ![k] = Recovered(@)]
  /\ UNCHANGED <<prefVars, due, dropped, worker, delivery, inbox, sent>> /\ NoFault

----------------------------------------------------------------------------
Handler == Actor \ Worker

DeliverStep(w) ==
  \/ FindUser(w) \/ CreateRow(w) \/ ReadRow(w) \/ ReclaimRow(w) \/ UpsertInbox(w)
  \/ MarkUnwritable(w) \/ MarkSent(w) \/ Stamp(w) \/ MarkFailed(w) \/ MarkBlocked(w)
  \/ Disabled(w)
  \/ SendOk(w) \/ SendRefused(w) \/ SendBlocked(w) \/ SendTimedOut(w)

FaultStep(w) == FailInTry(w) \/ FailOutsideTry(w) \/ Crash(w) \/ LoseLock(w)

ScanStep == ScanRead \/ \E t \in Time : ScanStops(t) \/ \E k \in Key : Enqueue(t, k)

QueueStep(k) == EvictFailed(k) \/ RecoverStalled(k)

PreferenceStep ==
  /\ \/ \E a \in Handler : RequestStep(a)
     \/ \E a \in Actor : OpStep(a)
     \/ \E a \in Handler \cap Fallible : Abandon(a)
     \/ AccountStep
     \/ Tick
  /\ UNCHANGED deliveryVars

Next ==
  \/ ScanStep
  \/ \E k \in Key : QueueStep(k)
  \/ \E w \in Worker, k \in Key : Take(w, k)
  \/ \E w \in Worker : DeliverStep(w) \/ FaultStep(w)
  \/ PreferenceStep

Spec == Init /\ [][Next]_vars

(* The workers, the queue and the handlers keep running and the clock goes *)
(* on; a scan goes on or stops; users and faults need not act, and neither *)
(* need the eviction.                                                      *)
Fairness ==
  /\ \A t \in Time, k \in Key : WF_vars(Enqueue(t, k) \/ ScanStops(t))
  /\ \A k \in Key : WF_vars(RecoverStalled(k))
  /\ \A k \in Key : WF_vars(\E w \in Worker : Take(w, k))
  /\ \A w \in Worker : WF_vars(DeliverStep(w))
  /\ \A a \in Actor : WF_vars(OpStep(a) /\ UNCHANGED deliveryVars)
  /\ WF_vars(Tick /\ UNCHANGED deliveryVars)

FairSpec == Spec /\ Fairness

----------------------------------------------------------------------------
(* Every message beyond the first that Telegram delivers for one user and  *)
(* date is paid for by a fault that struck that delivery: a timeout of a   *)
(* request that was served, a failed statement, a crash or a lost lock.    *)
ResendsCostAFault == \A k \in Key : sent[k] <= 1 + faults[k]

(* SENT is final: no later attempt, scan or second worker reopens the row  *)
(* of a delivery that no fault struck.                                     *)
ReceiptStands ==
  [][\A k \in Key : delivery[k].status = "SENT" /\ faults'[k] = 0
                       => delivery'[k].status = "SENT"]_vars

(* When the job of a sent reminder is gone, the interval to the next one   *)
(* counts from the sending or later.                                       *)
SentIsStamped ==
  \A k \in Key :
    delivery[k].status = "SENT" /\ faults[k] = 0 /\ job[k].state = "none"
      => settings[k[1]].lastAt >= delivery[k].updatedAt

(* What a fault can leave for good: a claim whose job is gone. *)
LeftOpen(k) ==
  /\ delivery[k].status \in {"PENDING", "FAILED"} /\ faults[k] > 0
  /\ job[k].state = "none" /\ \A w \in Worker : ~On(w, k)

(* Of what a scan found due nothing is forgotten in silence: it is settled, *)
(* or it shows where it stopped, in a failed job, in a claim left open by a *)
(* fault, in a user who is gone or in a scan that did not come to its end.  *)
DueIsSettled ==
  \A t \in Time, k \in Key :
    <<t, k>> \in due ~> \/ delivery[k].status \in Terminal
                       \/ job[k].state = "failed"
                       \/ LeftOpen(k)
                       \/ <<t, k>> \in dropped
                       \/ ~account[k[1]].active

(* "Reclaim PENDING rows older than this many minutes": a claim does not   *)
(* stay open for ever.                                                     *)
PendingIsReclaimed ==
  \A k \in Key : delivery[k].status = "PENDING" ~> delivery[k].status # "PENDING"
============================================================================
