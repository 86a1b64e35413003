----------------------- MODULE ReminderDeliveryProofs -----------------------
(***************************************************************************)
(* Proofs about ReminderDelivery, for every set of users, workers and      *)
(* handlers and every value of the bounds.                                 *)
(***************************************************************************)
EXTENDS ReminderDelivery, UserDataProofs

----------------------------------------------------------------------------
(* Dates and keys. *)

LEMMA DivMonotone ==
  ASSUME NEW a \in Nat, NEW b \in Nat, NEW d \in Nat \ {0}, a <= b
  PROVE  a \div d \in Nat /\ a \div d <= b \div d
<1> DEFINE q == a \div d
           r == b \div d
<1>1. q \in Nat /\ r \in Nat /\ d * q <= a /\ b < d * (r + 1)
  OBVIOUS
<1> HIDE DEF q, r
<1>2. d * q < d * (r + 1)
  BY <1>1
<1>3. q < r + 1
  BY <1>1, <1>2
<1>4. QED
  BY <1>1, <1>3 DEF q, r

LEMMA DateType ==
  ASSUME NEW t \in Time
  PROVE  LocalDate(t) \in Date
<1>1. /\ t \in Nat /\ MaxClock \in Nat /\ t <= MaxClock
      /\ MinuteTicks \in Nat \ {0} /\ DayMinutes \in Nat \ {0}
  BY PreferencesAssumption DEF Time
<1>2. Minute(t) \in Nat /\ Minute(MaxClock) \in Nat /\ Minute(t) <= Minute(MaxClock)
  BY <1>1, DivMonotone DEF Minute
<1>3. LocalDate(t) \in Nat /\ LocalDate(MaxClock) \in Nat /\ LocalDate(t) <= LocalDate(MaxClock)
  BY <1>1, <1>2, DivMonotone DEF LocalDate
<1>4. QED
  BY <1>3 DEF Date

LEMMA IdleSlotType == IdleSlot \in Slot
<1>1. 0 \in Date
  <2>1. MaxClock \in Time
    BY PreferencesAssumption DEF Time
  <2>2. LocalDate(MaxClock) \in Date
    BY <2>1, DateType
  <2>3. QED
    BY <2>2 DEF Date
<1>2. (CHOOSE k \in Key : TRUE) \in Key
  <2>1. PICK u \in User : TRUE
    BY PreferencesAssumption
  <2>2. <<u, 0>> \in Key
    BY <1>1, <2>1 DEF Key
  <2>3. QED
    BY <2>2
<1>3. QED
  BY <1>2 DEF IdleSlot, Slot, Pc

LEMMA InitType == Init => TypeOK
<1> SUFFICES ASSUME Init PROVE TypeOK
  OBVIOUS
<1>1. PrefTypeOK
  BY PrefInitType DEF Init
<1>2. NoJob \in Job /\ NoRow \in Row
  BY DeliveryAssumption, PreferencesAssumption DEF NoJob, Job, JobState, NoRow, Row, Status, Time
<1>3. DeliveryTypeOK
  BY <1>2, IdleSlotType, DeliveryAssumption DEF Init, DeliveryTypeOK
<1>4. QED
  BY <1>1, <1>3 DEF TypeOK

----------------------------------------------------------------------------
(* What the helpers write is well typed. *)

LEMMA WorkerFacts ==
  ASSUME TypeOK, NEW w \in Worker
  PROVE  /\ worker[w] \in Slot /\ KeyOf(w) \in Key /\ KeyOf(w)[1] \in User
         /\ w \in Actor /\ w \in Fallible /\ w # None
<1>1. worker[w] \in Slot /\ KeyOf(w) \in Key
  BY DEF TypeOK, DeliveryTypeOK, Slot, KeyOf
<1>2. KeyOf(w)[1] \in User
  BY <1>1 DEF Key
<1>3. QED
  BY <1>1, <1>2, PreferencesAssumption, DeliveryAssumption

LEMMA GotoPcType ==
  ASSUME TypeOK, NEW w \in Worker, NEW pc \in Pc, GotoPc(w, pc)
  PROVE  worker' \in [Worker -> Slot]
BY DEF TypeOK, DeliveryTypeOK, GotoPc, Slot

LEMMA CompleteType ==
  ASSUME TypeOK, NEW w \in Worker, Complete(w)
  PROVE  worker' \in [Worker -> Slot] /\ job' \in [Key -> Job]
<1>1. NoJob \in Job
  BY DeliveryAssumption DEF NoJob, Job, JobState
<1>2. QED
  BY <1>1, IdleSlotType DEF TypeOK, DeliveryTypeOK, Complete

LEMMA RetriedType ==
  ASSUME NEW j \in Job
  PROVE  Retried(j) \in Job
<1>1. j.attempts + 1 \in Nat
  BY DEF Job
<1>2. ASSUME NEW state \in JobState
      PROVE  [j EXCEPT !.state = state, !.attempts = @ + 1, !.owner = None] \in Job
  BY <1>1 DEF Job
<1>3. QED
  BY <1>2 DEF Retried, JobState

LEMMA RecoveredType ==
  ASSUME NEW j \in Job
  PROVE  Recovered(j) \in Job
<1>1. j.stalls < MaxStalls => j.stalls + 1 \in 0..MaxStalls
  BY DeliveryAssumption DEF Job
<1>2. j.stalls < MaxStalls => [j EXCEPT !.state = "waiting", !.stalls = @ + 1] \in Job
  BY <1>1 DEF Job, JobState
<1>3. [j EXCEPT !.state = "failed"] \in Job
  BY DEF Job, JobState
<1>4. QED
  BY <1>2, <1>3 DEF Recovered

LEMMA FailAttemptType ==
  ASSUME TypeOK, NEW w \in Worker, FailAttempt(w)
  PROVE  worker' \in [Worker -> Slot] /\ job' \in [Key -> Job]
BY IdleSlotType, RetriedType DEF TypeOK, DeliveryTypeOK, FailAttempt

LEMMA SetStatusType ==
  ASSUME TypeOK, NEW k \in Key, NEW status \in Status, SetStatus(k, status)
  PROVE  delivery' \in [Key -> Row]
<1>1. [status |-> status, updatedAt |-> clock] \in Row
  BY DEF Row, TypeOK, PrefTypeOK
<1>2. QED
  BY <1>1 DEF SetStatus, TypeOK, DeliveryTypeOK

LEMMA FaultType ==
  ASSUME TypeOK, NEW k \in Key, Fault(k)
  PROVE  faults' \in [Key -> Nat] /\ faultsLeft' \in 0..MaxFaults
BY DeliveryAssumption DEF Fault, TypeOK, DeliveryTypeOK

LEMMA ReceivedType ==
  ASSUME TypeOK, NEW k \in Key, Received(k)
  PROVE  sent' \in [Key -> Nat]
BY DEF Received, TypeOK, DeliveryTypeOK

----------------------------------------------------------------------------
(* Every step of the delivery is a step of the two switches, or none.       *)

LEMMA StepRefines == TypeOK /\ [Next]_vars => [PrefNext]_prefVars
<1> SUFFICES ASSUME TypeOK, [Next]_vars PROVE [PrefNext]_prefVars
  OBVIOUS
<1>1. CASE UNCHANGED vars
  BY <1>1 DEF vars
<1>2. CASE ScanStep
  BY <1>2 DEF ScanStep, ScanRead, Enqueue, ScanStops
<1>3. ASSUME NEW k \in Key, QueueStep(k)
      PROVE  UNCHANGED prefVars
  BY <1>3 DEF QueueStep, EvictFailed, RecoverStalled
<1>4. ASSUME NEW w \in Worker, NEW k \in Key, Take(w, k)
      PROVE  UNCHANGED prefVars
  BY <1>4 DEF Take
<1>5. ASSUME NEW w \in Worker, DeliverStep(w)
      PROVE  [PrefNext]_prefVars
  <2> w \in Actor /\ KeyOf(w)[1] \in User
    BY WorkerFacts
  <2>1. CASE FindUser(w) \/ CreateRow(w) \/ ReadRow(w) \/ ReclaimRow(w) \/ UpsertInbox(w)
    BY <2>1 DEF FindUser, CreateRow, ReadRow, ReclaimRow, UpsertInbox
  <2>2. CASE MarkUnwritable(w) \/ MarkSent(w) \/ MarkFailed(w) \/ Disabled(w)
    BY <2>2 DEF MarkUnwritable, MarkSent, Mark, MarkFailed, Disabled
  <2>3. CASE SendOk(w) \/ SendRefused(w) \/ SendBlocked(w) \/ SendTimedOut(w)
    BY <2>3 DEF SendOk, SendRefused, SendBlocked, SendTimedOut
  <2>4. CASE Stamp(w)
    BY <2>4 DEF Stamp, PrefNext
  <2>5. CASE MarkBlocked(w)
    BY <2>5 DEF MarkBlocked, PrefNext
  <2>6. QED
    BY <1>5, <2>1, <2>2, <2>3, <2>4, <2>5 DEF DeliverStep
<1>6. ASSUME NEW w \in Worker, FaultStep(w)
      PROVE  [PrefNext]_prefVars
  <2> w \in Actor /\ w \in Fallible
    BY WorkerFacts
  <2>1. CASE FailInTry(w) \/ LoseLock(w)
    BY <2>1 DEF FailInTry, LoseLock
  <2>2. CASE FailOutsideTry(w) \/ Crash(w)
    <3>1. Abandon(w) \/ UNCHANGED prefVars
      BY <2>2 DEF FailOutsideTry, Crash
    <3>2. QED
      BY <3>1 DEF PrefNext
  <2>3. QED
    BY <1>6, <2>1, <2>2 DEF FaultStep
<1>7. CASE PreferenceStep
  <2>1. ASSUME NEW a \in Handler, RequestStep(a) \/ (a \in Fallible /\ Abandon(a))
        PROVE  PrefNext
    BY <2>1 DEF PrefNext, Handler
  <2>2. ASSUME NEW a \in Actor, OpStep(a)
        PROVE  PrefNext
    BY <2>2 DEF PrefNext
  <2>3. AccountStep \/ Tick => PrefNext
    BY DEF PrefNext
  <2>4. QED
    BY <1>7, <2>1, <2>2, <2>3 DEF PreferenceStep
<1>8. QED
  BY <1>1, <1>2, <1>3, <1>4, <1>5, <1>6, <1>7 DEF Next

----------------------------------------------------------------------------
(* Every step keeps the delivery's own types. *)

LEMMA ScanType ==
  ASSUME TypeOK, ScanStep
  PROVE  DeliveryTypeOK'
<1> USE DEF TypeOK, DeliveryTypeOK
<1>1. CASE ScanRead
  <2>1. LocalDate(clock) \in Date /\ clock \in Time
    BY DateType DEF PrefTypeOK
  <2>2. {clock} \X DueKeys \subseteq Time \X Key
    BY <2>1 DEF DueKeys, Key
  <2>3. QED
    BY <1>1, <2>2 DEF ScanRead
<1>2. ASSUME NEW t \in Time, NEW k \in Key, Enqueue(t, k)
      PROVE  DeliveryTypeOK'
  <2>1. [NoJob EXCEPT !.state = "waiting"] \in Job
    BY DeliveryAssumption DEF NoJob, Job, JobState
  <2>2. QED
    BY <1>2, <2>1 DEF Enqueue
<1>3. ASSUME NEW t \in Time, ScanStops(t)
      PROVE  DeliveryTypeOK'
  <2>1. faultsLeft' \in 0..MaxFaults
    BY <1>3, DeliveryAssumption DEF ScanStops
  <2>2. Found(t) \subseteq Time \X Key
    BY DEF Found
  <2>3. QED
    BY <1>3, <2>1, <2>2 DEF ScanStops
<1>4. QED
  BY <1>1, <1>2, <1>3 DEF ScanStep

LEMMA QueueType ==
  ASSUME TypeOK, NEW k \in Key, QueueStep(k)
  PROVE  DeliveryTypeOK'
<1> USE DEF TypeOK, DeliveryTypeOK
<1>1. NoJob \in Job
  BY DeliveryAssumption DEF NoJob, Job, JobState
<1>3. CASE EvictFailed(k)
  BY <1>1, <1>3 DEF EvictFailed, prefVars
<1>4. CASE RecoverStalled(k)
  <2>1. job' \in [Key -> Job]
    BY <1>4, RecoveredType DEF RecoverStalled
  <2>2. QED
    BY <1>4, <2>1 DEF RecoverStalled, NoFault
<1>5. QED
  BY <1>3, <1>4 DEF QueueStep

LEMMA TakeType ==
  ASSUME TypeOK, NEW w \in Worker, NEW k \in Key, Take(w, k)
  PROVE  DeliveryTypeOK'
<1> USE DEF TypeOK, DeliveryTypeOK
<1>1. [job[k] EXCEPT !.state = "active", !.owner = w] \in Job
  BY DEF Job, JobState
<1>2. job' \in [Key -> Job]
  BY <1>1 DEF Take
<1>3. [IdleSlot EXCEPT !.pc = "findUser", !.key = k] \in Slot
  BY IdleSlotType DEF Slot, Pc
<1>4. worker' \in [Worker -> Slot]
  BY <1>3 DEF Take
<1>5. QED
  BY <1>2, <1>4 DEF Take, NoFault

LEMMA DeliverType ==
  ASSUME TypeOK, NEW w \in Worker, DeliverStep(w)
  PROVE  DeliveryTypeOK'
<1> USE DEF TypeOK, DeliveryTypeOK
<1>0. KeyOf(w) \in Key /\ KeyOf(w)[1] \in User /\ worker[w] \in Slot
  BY WorkerFacts
<1>a. \A pc \in Pc : GotoPc(w, pc) => worker' \in [Worker -> Slot]
  BY GotoPcType
<1>b. Complete(w) => worker' \in [Worker -> Slot] /\ job' \in [Key -> Job]
  BY CompleteType
<1>c. \A status \in Status : SetStatus(KeyOf(w), status) => delivery' \in [Key -> Row]
  BY <1>0, SetStatusType
<1>d. Received(KeyOf(w)) => sent' \in [Key -> Nat]
  BY <1>0, ReceivedType
<1>1. CASE FindUser(w)
  <2>1. account[KeyOf(w)[1]].writeToPm \in BOOLEAN
    BY <1>0 DEF PrefTypeOK, Account
  <2>2. [worker[w] EXCEPT !.pc = "create", !.writeToPm = account[KeyOf(w)[1]].writeToPm] \in Slot
    BY <1>0, <2>1 DEF Slot, Pc
  <2>3. worker' \in [Worker -> Slot] /\ job' \in [Key -> Job]
    BY <1>1, <1>b, <2>2 DEF FindUser
  <2>4. QED
    BY <1>1, <2>3 DEF FindUser, NoFault
<1>2. CASE CreateRow(w)
  <2>1. worker' \in [Worker -> Slot] /\ delivery' \in [Key -> Row]
    BY <1>2, <1>a, <1>c DEF CreateRow, Pc, Status
  <2>2. QED
    BY <1>2, <2>1 DEF CreateRow, NoFault
<1>3. CASE ReadRow(w)
  <2>1. worker' \in [Worker -> Slot] /\ job' \in [Key -> Job]
    BY <1>3, <1>a, <1>b DEF ReadRow, Pc
  <2>2. QED
    BY <1>3, <2>1 DEF ReadRow, NoFault
<1>4. CASE ReclaimRow(w)
  <2>1. worker' \in [Worker -> Slot] /\ job' \in [Key -> Job] /\ delivery' \in [Key -> Row]
    BY <1>4, <1>a, <1>b, <1>c DEF ReclaimRow, Pc, Status
  <2>2. QED
    BY <1>4, <2>1 DEF ReclaimRow, NoFault
<1>5. CASE UpsertInbox(w)
  <2>1. worker' \in [Worker -> Slot]
    BY <1>5, <1>a DEF UpsertInbox, Pc
  <2>2. QED
    BY <1>0, <1>5, <2>1 DEF UpsertInbox, NoFault
<1>6. CASE MarkUnwritable(w) \/ MarkSent(w)
  <2>1. worker' \in [Worker -> Slot] /\ delivery' \in [Key -> Row]
    BY <1>6, <1>a, <1>c DEF MarkUnwritable, MarkSent, Mark, Pc, Status
  <2>2. QED
    BY <1>6, <2>1 DEF MarkUnwritable, MarkSent, Mark, NoFault
<1>7. CASE Stamp(w)
  BY <1>7, <1>b DEF Stamp, NoFault
<1>8. CASE MarkFailed(w)
  <2>1. worker' \in [Worker -> Slot] /\ job' \in [Key -> Job]
    BY <1>8, FailAttemptType DEF MarkFailed
  <2>2. delivery' \in [Key -> Row]
    BY <1>8, <1>c DEF MarkFailed, Status
  <2>3. QED
    BY <1>8, <2>1, <2>2 DEF MarkFailed, NoFault
<1>9. CASE MarkBlocked(w)
  <2>1. worker' \in [Worker -> Slot] /\ delivery' \in [Key -> Row]
    BY <1>9, <1>a, <1>c DEF MarkBlocked, Pc, Status
  <2>2. QED
    BY <1>9, <2>1 DEF MarkBlocked, NoFault
<1>10. CASE Disabled(w)
  BY <1>10, <1>b DEF Disabled, NoFault
<1>11. CASE SendOk(w)
  <2>1. worker' \in [Worker -> Slot] /\ sent' \in [Key -> Nat]
    BY <1>11, <1>a, <1>d DEF SendOk, Pc
  <2>2. QED
    BY <1>11, <2>1 DEF SendOk, NoFault
<1>12. CASE SendRefused(w)
  <2>1. worker' \in [Worker -> Slot]
    BY <1>12, <1>a DEF SendRefused, Pc
  <2>2. faultsLeft' \in 0..MaxFaults
    BY <1>12, DeliveryAssumption DEF SendRefused
  <2>3. QED
    BY <1>12, <2>1, <2>2 DEF SendRefused
<1>13. CASE SendBlocked(w)
  <2>1. worker' \in [Worker -> Slot]
    BY <1>13, <1>a DEF SendBlocked, Pc
  <2>2. QED
    BY <1>13, <2>1 DEF SendBlocked, NoFault
<1>14. CASE SendTimedOut(w)
  <2>1. worker' \in [Worker -> Slot] /\ sent' \in [Key -> Nat]
    BY <1>14, <1>a, <1>d DEF SendTimedOut, Pc
  <2>2. faults' \in [Key -> Nat] /\ faultsLeft' \in 0..MaxFaults
    BY <1>0, <1>14, FaultType DEF SendTimedOut
  <2>3. QED
    BY <1>14, <2>1, <2>2 DEF SendTimedOut
<1>15. QED
  BY <1>1, <1>2, <1>3, <1>4, <1>5, <1>6, <1>7, <1>8, <1>9, <1>10, <1>11, <1>12, <1>13, <1>14
     DEF DeliverStep

LEMMA FaultStepType ==
  ASSUME TypeOK, NEW w \in Worker, FaultStep(w)
  PROVE  DeliveryTypeOK'
<1> USE DEF TypeOK, DeliveryTypeOK
<1>0. KeyOf(w) \in Key /\ worker[w] \in Slot
  BY WorkerFacts
<1>1. Fault(KeyOf(w))
  BY DEF FaultStep, FailInTry, FailOutsideTry, Crash, LoseLock
<1>2. faults' \in [Key -> Nat] /\ faultsLeft' \in 0..MaxFaults
  BY <1>0, <1>1, FaultType
<1>3. [job[KeyOf(w)] EXCEPT !.owner = None] \in Job
  BY <1>0 DEF Job
<1>4. CASE FailInTry(w)
  <2>1. worker' \in [Worker -> Slot]
    BY <1>4, GotoPcType DEF FailInTry, Pc
  <2>2. QED
    BY <1>2, <1>4, <2>1 DEF FailInTry
<1>5. CASE FailOutsideTry(w)
  <2>1. worker' \in [Worker -> Slot] /\ job' \in [Key -> Job]
    BY <1>5, FailAttemptType DEF FailOutsideTry
  <2>2. QED
    BY <1>2, <1>5, <2>1 DEF FailOutsideTry
<1>6. CASE Crash(w)
  <2>1. worker' \in [Worker -> Slot] /\ job' \in [Key -> Job]
    BY <1>3, <1>6, IdleSlotType DEF Crash
  <2>2. QED
    BY <1>2, <1>6, <2>1 DEF Crash
<1>7. CASE LoseLock(w)
  <2>1. job' \in [Key -> Job]
    BY <1>3, <1>7 DEF LoseLock
  <2>2. QED
    BY <1>2, <1>7, <2>1 DEF LoseLock
<1>8. QED
  BY <1>4, <1>5, <1>6, <1>7 DEF FaultStep

LEMMA TypeStep == TypeOK /\ [Next]_vars => TypeOK'
<1> SUFFICES ASSUME TypeOK, [Next]_vars PROVE TypeOK'
  OBVIOUS
<1>1. PrefTypeOK'
  BY StepRefines, PrefTypeStep DEF TypeOK
<1>3. ASSUME UNCHANGED deliveryVars
      PROVE  DeliveryTypeOK'
  BY <1>3 DEF TypeOK, DeliveryTypeOK, deliveryVars
<1>4. PreferenceStep \/ UNCHANGED vars => UNCHANGED deliveryVars
  BY DEF PreferenceStep, vars
<1>5. DeliveryTypeOK'
  BY <1>3, <1>4, ScanType, QueueType, TakeType, DeliverType, FaultStepType DEF Next
<1>6. QED
  BY <1>1, <1>5 DEF TypeOK

(* Rows, jobs, worker slots and counters keep the types the schema and the  *)
(* queue give them, whatever workers, scans, requests and faults there are. *)
THEOREM TypeCorrect == Spec => []TypeOK
BY InitType, TypeStep, PTL DEF Spec

(* The settings and preference rows move in the delivery as they do in      *)
(* ReminderPreferences, whose actions its workers and users take.           *)
LEMMA DeliveryRefinesPreferences == Spec => PrefSpec
<1>1. Init => PrefInit
  BY DEF Init
<1>2. QED
  BY <1>1, TypeCorrect, StepRefines, PTL DEF Spec, PrefSpec

(* The switches agree beside scans and workers too, unless a request or a   *)
(* worker's turning off of a blocked user's reminders was torn.             *)
THEOREM FlagsAgreeInDelivery == Spec => []FlagsAgreeUnlessTorn
BY DeliveryRefinesPreferences, FlagsAgree, PTL

----------------------------------------------------------------------------
(* Resends.  ResendsCostAFault is not inductive: a message not yet sent may *)
(* be under way.  The strengthening counts, against the faults so far, the  *)
(* messages that may still come without a new one: from each worker that    *)
(* lost the lock of its job (a zombie), and from the job's own attempts.    *)

(* A worker holds a job's lock only while it runs that job.                 *)
LockInv ==
  \A k \in Key, w \in Worker : job[k].owner = w => On(w, k) /\ job[k].state = "active"

(* Where a worker may yet send, or write FAILED over another's row.         *)
Menacing == {"findUser", "create", "read", "reclaim", "inbox", "send", "markFailed"}
Zombies(k) ==
  {w \in Worker : worker[w].key = k /\ worker[w].pc \in Menacing /\ job[k].owner # w}

(* May the job's own attempts still send?                                   *)
OwnerPends(k) ==
  job[k].owner \in Worker /\ worker[job[k].owner].pc \in {"inbox", "send", "markFailed"}
OwnerHasSent(k) == job[k].owner \in Worker /\ worker[job[k].owner].pc = "markSent"
Pending(k) == OwnerPends(k) \/ (~OwnerHasSent(k) /\ delivery[k].status \notin Terminal)

Bit(b) == IF b THEN 1 ELSE 0
Budget(k) == sent[k] + Cardinality(Zombies(k)) + Bit(Pending(k)) <= 1 + faults[k]

IInv == TypeOK /\ LockInv /\ \A k \in Key : Budget(k)

(* How a step of w may move the account of k: it costs nothing, or a fault  *)
(* pays for a new attempt or a new zombie, or one of the messages counted   *)
(* as possible is sent, or a zombie ends by reopening the row.              *)
Kept(k) ==
  /\ Zombies(k)' \subseteq Zombies(k) /\ (Pending(k)' => Pending(k))
  /\ sent'[k] = sent[k] /\ faults'[k] = faults[k]
Charged(k, w) ==
  /\ sent'[k] = sent[k] /\ faults'[k] = faults[k] + 1
  /\ \/ Zombies(k)' \subseteq Zombies(k)
     \/ Zombies(k)' \subseteq Zombies(k) \union {w} /\ (Pending(k)' => Pending(k))
Spent(k, w) ==
  /\ sent'[k] = sent[k] + 1
  /\ \/ /\ faults'[k] = faults[k]
        /\ Zombies(k)' \subseteq Zombies(k) /\ Pending(k) /\ ~Pending(k)'
     \/ /\ faults'[k] = faults[k]
        /\ w \in Zombies(k) /\ w \notin Zombies(k)'
        /\ Zombies(k)' \subseteq Zombies(k) /\ (Pending(k)' => Pending(k))
     \/ /\ faults'[k] = faults[k] + 1
        /\ Zombies(k)' \subseteq Zombies(k) /\ (Pending(k)' => Pending(k))
Reopened(k, w) ==
  /\ sent'[k] = sent[k] /\ faults'[k] = faults[k]
  /\ w \in Zombies(k) /\ w \notin Zombies(k)' /\ Zombies(k)' \subseteq Zombies(k)

LEMMA ZombiesFinite ==
  ASSUME NEW Z, Z \subseteq Worker
  PROVE  IsFiniteSet(Z) /\ Cardinality(Z) \in Nat
BY DeliveryAssumption, FS_Subset, FS_CardinalityType

LEMMA FewerZombies ==
  ASSUME NEW Z, NEW Y, Z \subseteq Worker, Y \subseteq Z
  PROVE  /\ Cardinality(Y) <= Cardinality(Z)
         /\ \A w \in Z : w \notin Y => Cardinality(Y) + 1 <= Cardinality(Z)
<1>1. IsFiniteSet(Z) /\ Cardinality(Z) \in Nat
  BY ZombiesFinite
<1>2. Cardinality(Y) <= Cardinality(Z)
  BY <1>1, FS_Subset
<1>3. ASSUME NEW w \in Z, w \notin Y
      PROVE  Cardinality(Y) + 1 <= Cardinality(Z)
  <2>1. IsFiniteSet(Z \ {w}) /\ Cardinality(Z \ {w}) = Cardinality(Z) - 1
    BY <1>1, <1>3, FS_RemoveElement
  <2>2. Y \subseteq Z \ {w}
    BY <1>3
  <2>3. Cardinality(Y) <= Cardinality(Z \ {w})
    BY <2>1, <2>2, FS_Subset
  <2>4. Cardinality(Y) \in Nat
    BY ZombiesFinite
  <2>5. QED
    BY <1>1, <2>1, <2>3, <2>4
<1>4. QED
  BY <1>2, <1>3

LEMMA OneMoreZombie ==
  ASSUME NEW Z, NEW Y, NEW w \in Worker, Z \subseteq Worker, Y \subseteq Z \union {w}
  PROVE  Cardinality(Y) <= Cardinality(Z) + 1
<1>1. IsFiniteSet(Z) /\ Cardinality(Z) \in Nat
  BY ZombiesFinite
<1>2. /\ IsFiniteSet(Z \union {w})
      /\ \/ Cardinality(Z \union {w}) = Cardinality(Z)
         \/ Cardinality(Z \union {w}) = Cardinality(Z) + 1
  BY <1>1, FS_AddElement
<1>3. Cardinality(Y) <= Cardinality(Z \union {w}) /\ Cardinality(Y) \in Nat
  BY <1>2, FS_Subset, ZombiesFinite
<1>4. QED
  BY <1>1, <1>2, <1>3

LEMMA BudgetKept ==
  ASSUME TypeOK, TypeOK', NEW k \in Key, Budget(k), Kept(k)
  PROVE  Budget(k)'
<1>1. /\ Zombies(k) \subseteq Worker /\ Zombies(k)' \subseteq Worker
      /\ sent[k] \in Nat /\ faults[k] \in Nat
  BY DEF Zombies, TypeOK, DeliveryTypeOK
<1>2. /\ Cardinality(Zombies(k)) \in Nat /\ Cardinality(Zombies(k)') \in Nat
      /\ Cardinality(Zombies(k)') <= Cardinality(Zombies(k))
  BY <1>1, ZombiesFinite, FewerZombies DEF Kept
<1>3. Bit(Pending(k)') <= Bit(Pending(k)) /\ Bit(Pending(k)) \in Nat /\ Bit(Pending(k)') \in Nat
  BY DEF Bit, Kept
<1>4. QED
  BY <1>1, <1>2, <1>3 DEF Budget, Kept, Bit

LEMMA BudgetMoved ==
  ASSUME TypeOK, TypeOK', NEW k \in Key, NEW w \in Worker, Budget(k),
         Charged(k, w) \/ Spent(k, w) \/ Reopened(k, w)
  PROVE  Budget(k)'
<1> DEFINE z == Cardinality(Zombies(k))
           y == Cardinality(Zombies(k)')
           p == Bit(Pending(k))
           q == Bit(Pending(k)')
<1>1. /\ Zombies(k) \subseteq Worker /\ Zombies(k)' \subseteq Worker
      /\ sent[k] \in Nat /\ faults[k] \in Nat
  BY DEF Zombies, TypeOK, DeliveryTypeOK
<1>2. z \in Nat /\ y \in Nat
  BY <1>1, ZombiesFinite
<1>3. /\ Zombies(k)' \subseteq Zombies(k) => y <= z
      /\ Zombies(k)' \subseteq Zombies(k) /\ w \in Zombies(k) /\ w \notin Zombies(k)' => y + 1 <= z
      /\ Zombies(k)' \subseteq Zombies(k) \union {w} => y <= z + 1
  BY <1>1, FewerZombies, OneMoreZombie
<1>4. /\ p \in 0..1 /\ q \in 0..1 /\ ((Pending(k)' => Pending(k)) => q <= p)
      /\ (Pending(k) /\ ~Pending(k)' => p = 1 /\ q = 0)
  BY DEF Bit
<1>5. sent[k] + z + p <= 1 + faults[k]
  BY DEF Budget
<1> HIDE DEF z, y, p, q
<1>6. sent'[k] + y + q <= 1 + faults'[k]
  BY <1>1, <1>2, <1>3, <1>4, <1>5 DEF Charged, Spent, Reopened
<1>7. QED
  BY <1>6 DEF Budget, Bit, y, q

----------------------------------------------------------------------------
(* A step of one worker, at its own key and elsewhere. *)

OthersStay(w, k) ==
  /\ On(w, k) \/ At(w, "idle")
  /\ worker'[w].key = k \/ worker'[w].pc = "idle"
  /\ \A x \in Worker \ {w} : worker'[x] = worker[x]
  /\ \A j \in Key \ {k} : job'[j] = job[j] /\ delivery'[j] = delivery[j]
                           /\ sent'[j] = sent[j] /\ faults'[j] = faults[j]

LEMMA KeptElsewhere ==
  ASSUME TypeOK, LockInv, NEW w \in Worker, NEW k \in Key, OthersStay(w, k),
         NEW j \in Key \ {k}
  PROVE  Kept(j)
<1> USE DEF OthersStay, On, At
<1>1. Zombies(j)' \subseteq Zombies(j)
  BY DEF Zombies, Menacing
<1>2. job[j].owner # w
  BY DEF LockInv
<1>3. Pending(j)' <=> Pending(j)
  BY <1>2 DEF Pending, OwnerPends, OwnerHasSent
<1>4. QED
  BY <1>1, <1>3 DEF Kept

LEMMA LockKept ==
  ASSUME TypeOK, LockInv, NEW w \in Worker, NEW k \in Key, OthersStay(w, k),
         \A x \in Worker \ {w} :
           job'[k].owner = x => job[k].owner = x /\ job'[k].state = job[k].state,
         job'[k].owner = w =>
           worker'[w].pc # "idle" /\ worker'[w].key = k /\ job'[k].state = "active"
  PROVE  LockInv'
<1> SUFFICES ASSUME NEW j \in Key, NEW x \in Worker, job'[j].owner = x
             PROVE  worker'[x].pc # "idle" /\ worker'[x].key = j /\ job'[j].state = "active"
  BY DEF LockInv, On
<1>1. CASE j = k /\ x = w
  BY <1>1
<1>2. CASE j = k /\ x # w
  BY <1>2 DEF LockInv, OthersStay, On
<1>3. CASE j # k
  BY <1>3 DEF LockInv, OthersStay, On, At
<1>4. QED
  BY <1>1, <1>2, <1>3

OwnPc == {"inbox", "send", "markFailed"}

LEMMA Here ==
  ASSUME TypeOK, LockInv, NEW w \in Worker, NEW k \in Key, OthersStay(w, k), On(w, k),
         job'[k].owner = job[k].owner \/ (Owns(w) /\ job'[k].owner = None)
  PROVE  /\ Zombies(k)' \subseteq Zombies(k) \union {w}
         /\ w \in Zombies(k) <=> worker[w].pc \in Menacing /\ ~Owns(w)
         /\ w \in Zombies(k)' => worker'[w].pc \in Menacing /\ job'[k].owner # w
         /\ w \notin Zombies(k)' => Zombies(k)' \subseteq Zombies(k)
         /\ ~Owns(w) => /\ OwnerPends(k)' <=> OwnerPends(k)
                        /\ OwnerHasSent(k)' <=> OwnerHasSent(k)
         /\ Owns(w) => /\ OwnerPends(k) <=> worker[w].pc \in OwnPc
                       /\ OwnerHasSent(k) <=> worker[w].pc = "markSent"
         /\ job'[k].owner = w => /\ OwnerPends(k)' <=> worker'[w].pc \in OwnPc
                                 /\ OwnerHasSent(k)' <=> worker'[w].pc = "markSent"
         /\ job'[k].owner = None => ~OwnerPends(k)' /\ ~OwnerHasSent(k)'
<1> USE DEF OthersStay, On, Owns, KeyOf
<1>0. None \notin Worker /\ worker[w].key = k
  BY DeliveryAssumption
<1>1. Zombies(k)' \subseteq Zombies(k) \union {w}
  BY <1>0 DEF Zombies
<1>2. w \in Zombies(k) <=> worker[w].pc \in Menacing /\ ~Owns(w)
  BY <1>0 DEF Zombies
<1>3. w \in Zombies(k)' => worker'[w].pc \in Menacing /\ job'[k].owner # w
  BY <1>0 DEF Zombies
<1>4. ~Owns(w) => /\ OwnerPends(k)' <=> OwnerPends(k)
                  /\ OwnerHasSent(k)' <=> OwnerHasSent(k)
  BY <1>0 DEF OwnerPends, OwnerHasSent
<1>5. Owns(w) => /\ OwnerPends(k) <=> worker[w].pc \in OwnPc
                 /\ OwnerHasSent(k) <=> worker[w].pc = "markSent"
  BY <1>0 DEF OwnerPends, OwnerHasSent, OwnPc
<1>6. job'[k].owner = w => /\ OwnerPends(k)' <=> worker'[w].pc \in OwnPc
                           /\ OwnerHasSent(k)' <=> worker'[w].pc = "markSent"
  BY <1>0 DEF OwnerPends, OwnerHasSent, OwnPc
<1>7. job'[k].owner = None => ~OwnerPends(k)' /\ ~OwnerHasSent(k)'
  BY <1>0 DEF OwnerPends, OwnerHasSent
<1>8. QED
  BY <1>1, <1>2, <1>3, <1>4, <1>5, <1>6, <1>7

(* The two ways a worker steps: to another place in the handler, or out of  *)
(* it, giving up the lock if it holds it.                                   *)

MovesTo(w, pc) ==
  /\ worker'[w].pc = pc /\ worker'[w].key = KeyOf(w)
  /\ \A x \in Worker \ {w} : worker'[x] = worker[x]
  /\ job' = job
Leaves(w) ==
  /\ worker'[w].pc = "idle"
  /\ \A x \in Worker \ {w} : worker'[x] = worker[x]
  /\ \A j \in Key \ {KeyOf(w)} : job'[j] = job[j]
  /\ IF Owns(w) THEN job'[KeyOf(w)].owner = None ELSE job' = job
RowsElsewhere(k) ==
  \A j \in Key \ {k} :
    delivery'[j] = delivery[j] /\ sent'[j] = sent[j] /\ faults'[j] = faults[j]

LEMMA MovesShape ==
  ASSUME TypeOK, LockInv, NEW w \in Worker, NEW pc \in Pc \ {"idle"}, ~At(w, "idle"),
         MovesTo(w, pc), RowsElsewhere(KeyOf(w))
  PROVE  OthersStay(w, KeyOf(w)) /\ On(w, KeyOf(w)) /\ LockInv'
<1>1. KeyOf(w) \in Key
  BY WorkerFacts
<1>2. OthersStay(w, KeyOf(w)) /\ On(w, KeyOf(w))
  BY DEF OthersStay, On, At, MovesTo, RowsElsewhere, KeyOf
<1>3. job[KeyOf(w)].owner = w => job[KeyOf(w)].state = "active"
  BY <1>1 DEF LockInv
<1> DEFINE k == KeyOf(w)
<1> HIDE DEF k
<1>4. LockInv'
  <2>1. \A x \in Worker \ {w} :
          job'[k].owner = x => job[k].owner = x /\ job'[k].state = job[k].state
    BY DEF MovesTo
  <2>2. job'[k].owner = w =>
          worker'[w].pc # "idle" /\ worker'[w].key = k /\ job'[k].state = "active"
    BY <1>3 DEF MovesTo, k
  <2>3. k \in Key /\ OthersStay(w, k)
    BY <1>1, <1>2 DEF k
  <2>4. QED
    BY <2>1, <2>2, <2>3, LockKept
<1>5. QED
  BY <1>2, <1>4

LEMMA LeavesShape ==
  ASSUME TypeOK, LockInv, NEW w \in Worker, ~At(w, "idle"), Leaves(w), RowsElsewhere(KeyOf(w))
  PROVE  OthersStay(w, KeyOf(w)) /\ On(w, KeyOf(w)) /\ LockInv'
<1>1. KeyOf(w) \in Key /\ None \notin Worker
  BY WorkerFacts, DeliveryAssumption
<1>2. OthersStay(w, KeyOf(w)) /\ On(w, KeyOf(w))
  BY DEF OthersStay, On, At, Leaves, RowsElsewhere, KeyOf
<1> DEFINE k == KeyOf(w)
<1> HIDE DEF k
<1>3. \A x \in Worker \ {w} :
        job'[k].owner = x => job[k].owner = x /\ job'[k].state = job[k].state
  BY <1>1 DEF Leaves, k
<1>4. job'[k].owner # w
  BY <1>1 DEF Leaves, Owns, k
<1>5. k \in Key /\ OthersStay(w, k)
  BY <1>1, <1>2 DEF k
<1>6. LockInv'
  BY <1>3, <1>4, <1>5, LockKept
<1>7. QED
  BY <1>2, <1>6

----------------------------------------------------------------------------
(* Each action's entry in the account. *)

Accounted(k, w) == Kept(k) \/ Charged(k, w) \/ Spent(k, w) \/ Reopened(k, w)
Ledger(k, w) == LockInv' /\ (\A j \in Key \ {k} : Kept(j)) /\ Accounted(k, w)

(* A move that neither sends nor fails, from a place where the attempt may  *)
(* yet send to another, or to one where it may not.                         *)
LEMMA MoveKeeps ==
  ASSUME TypeOK, LockInv, NEW w \in Worker, NEW k \in Key, k = KeyOf(w),
         NEW pc \in Pc \ {"idle", "markSent"}, ~At(w, "idle"), ~At(w, "markSent"),
         MovesTo(w, pc), RowsElsewhere(k), sent' = sent, faults' = faults,
         pc \in Menacing => worker[w].pc \in Menacing,
         pc \in OwnPc => worker[w].pc \in OwnPc \/ delivery[k].status \notin Terminal,
         delivery'[k].status \in Terminal \/ delivery[k].status \notin Terminal
  PROVE  Ledger(k, w)
<1>1. OthersStay(w, k) /\ On(w, k) /\ LockInv'
  BY MovesShape
<1>2. \A j \in Key \ {k} : Kept(j)
  BY <1>1, KeptElsewhere
<1>3. job'[k].owner = job[k].owner /\ worker'[w].pc = pc
  BY DEF MovesTo
<1>4. Zombies(k)' \subseteq Zombies(k)
  BY <1>1, <1>3, Here DEF Owns
<1>5. CASE Owns(w)
  <2>1. /\ OwnerPends(k)' <=> pc \in OwnPc
        /\ OwnerPends(k) <=> worker[w].pc \in OwnPc
        /\ ~OwnerHasSent(k)' /\ ~OwnerHasSent(k)
    BY <1>1, <1>3, <1>5, Here DEF Owns, At
  <2>2. Pending(k)' => Pending(k)
    BY <2>1 DEF Pending
  <2>3. QED
    BY <1>1, <1>2, <1>4, <2>2 DEF Ledger, Accounted, Kept
<1>6. CASE ~Owns(w)
  <2>1. /\ OwnerPends(k)' <=> OwnerPends(k)
        /\ OwnerHasSent(k)' <=> OwnerHasSent(k)
    BY <1>1, <1>3, <1>6, Here
  <2>2. Pending(k)' => Pending(k)
    BY <2>1 DEF Pending
  <2>3. QED
    BY <1>1, <1>2, <1>4, <2>2 DEF Ledger, Accounted, Kept
<1>7. QED
  BY <1>5, <1>6

(* A worker that leaves, the row as it was.                                 *)
LEMMA LeaveKeeps ==
  ASSUME TypeOK, LockInv, NEW w \in Worker, NEW k \in Key, k = KeyOf(w),
         ~At(w, "idle"), ~At(w, "markSent"), Leaves(w),
         delivery' = delivery, sent' = sent, faults' = faults
  PROVE  Ledger(k, w)
<1>1. OthersStay(w, k) /\ On(w, k) /\ LockInv'
  BY LeavesShape DEF RowsElsewhere
<1>2. \A j \in Key \ {k} : Kept(j)
  BY <1>1, KeptElsewhere
<1>3. job'[k].owner = job[k].owner \/ (Owns(w) /\ job'[k].owner = None)
  BY DEF Leaves
<1>4. worker'[w].pc \notin Menacing
  BY DEF Leaves, Menacing
<1>5. Zombies(k)' \subseteq Zombies(k)
  BY <1>1, <1>3, <1>4, Here
<1>6. CASE Owns(w)
  <2>1. ~OwnerPends(k)' /\ ~OwnerHasSent(k)' /\ ~OwnerHasSent(k)
    BY <1>1, <1>3, <1>6, Here DEF Leaves, At
  <2>2. Pending(k)' => Pending(k)
    BY <2>1 DEF Pending
  <2>3. QED
    BY <1>1, <1>2, <1>5, <2>2 DEF Ledger, Accounted, Kept
<1>7. CASE ~Owns(w)
  <2>1. /\ OwnerPends(k)' <=> OwnerPends(k)
        /\ OwnerHasSent(k)' <=> OwnerHasSent(k)
    BY <1>1, <1>3, <1>7, Here
  <2>2. Pending(k)' => Pending(k)
    BY <2>1 DEF Pending
  <2>3. QED
    BY <1>1, <1>2, <1>5, <2>2 DEF Ledger, Accounted, Kept
<1>8. QED
  BY <1>6, <1>7

LEMMA CompleteLeaves ==
  ASSUME TypeOK, NEW w \in Worker, Complete(w) \/ FailAttempt(w)
  PROVE  Leaves(w)
<1>1. KeyOf(w) \in Key /\ job[KeyOf(w)] \in Job
  BY WorkerFacts DEF TypeOK, DeliveryTypeOK
<1>2. NoJob.owner = None
  BY DEF NoJob
<1>3. Retried(job[KeyOf(w)]).owner = None
  BY <1>1 DEF Retried, Job
<1>4. IdleSlot.pc = "idle"
  BY DEF IdleSlot
<1>5. worker'[w].pc = "idle" /\ \A x \in Worker \ {w} : worker'[x] = worker[x]
  BY <1>4 DEF Complete, FailAttempt, TypeOK, DeliveryTypeOK
<1>6. CASE Complete(w)
  BY <1>1, <1>2, <1>5, <1>6 DEF Complete, Leaves, TypeOK, DeliveryTypeOK
<1>7. CASE FailAttempt(w)
  BY <1>1, <1>3, <1>5, <1>7 DEF FailAttempt, Leaves, TypeOK, DeliveryTypeOK
<1>8. QED
  BY <1>6, <1>7

LEMMA GotoMoves ==
  ASSUME TypeOK, NEW w \in Worker, NEW pc \in Pc, GotoPc(w, pc), job' = job
  PROVE  MovesTo(w, pc)
BY DEF GotoPc, MovesTo, KeyOf, TypeOK, DeliveryTypeOK, Slot

LEMMA SetStatusFacts ==
  ASSUME TypeOK, NEW k \in Key, NEW status \in Status, SetStatus(k, status)
  PROVE  delivery'[k].status = status /\ \A j \in Key \ {k} : delivery'[j] = delivery[j]
BY DEF SetStatus, TypeOK, DeliveryTypeOK

LEMMA ClaimLedger ==
  ASSUME TypeOK, LockInv, NEW w \in Worker, NEW k \in Key, k = KeyOf(w),
         FindUser(w) \/ CreateRow(w) \/ ReadRow(w) \/ ReclaimRow(w)
  PROVE  Ledger(k, w)
<1> USE DEF At, Menacing, OwnPc, Terminal, Pc, Status
<1>1. CASE FindUser(w)
  <2>1. UNCHANGED <<delivery, sent, faults>> /\ At(w, "findUser")
    BY <1>1 DEF FindUser, NoFault
  <2>2. CASE Complete(w)
    BY <2>1, <2>2, CompleteLeaves, LeaveKeeps
  <2>3. CASE ~Complete(w)
    <3>1. MovesTo(w, "create")
      BY <1>1, <2>3 DEF FindUser, MovesTo, KeyOf, TypeOK, DeliveryTypeOK, Slot
    <3>2. QED
      BY <2>1, <3>1, MoveKeeps DEF RowsElsewhere
  <2>4. QED
    BY <2>2, <2>3
<1>2. CASE CreateRow(w)
  <2>1. UNCHANGED <<job, sent, faults>> /\ At(w, "create")
    BY <1>2 DEF CreateRow, NoFault
  <2>2. CASE delivery[k].status = "absent"
    <3>1. SetStatus(k, "PENDING") /\ MovesTo(w, "inbox")
      BY <1>2, <2>1, <2>2, GotoMoves DEF CreateRow
    <3>2. delivery'[k].status = "PENDING" /\ RowsElsewhere(k)
      BY <2>1, <3>1, SetStatusFacts DEF RowsElsewhere
    <3>3. QED
      BY <2>1, <2>2, <3>1, <3>2, MoveKeeps
  <2>3. CASE delivery[k].status # "absent"
    <3>1. delivery' = delivery /\ MovesTo(w, "read")
      BY <1>2, <2>1, <2>3, GotoMoves DEF CreateRow
    <3>2. QED
      BY <2>1, <3>1, MoveKeeps DEF RowsElsewhere
  <2>4. QED
    BY <2>2, <2>3
<1>3. CASE ReadRow(w)
  <2>1. UNCHANGED <<delivery, sent, faults>> /\ At(w, "read")
    BY <1>3 DEF ReadRow, NoFault
  <2>2. CASE Complete(w)
    BY <2>1, <2>2, CompleteLeaves, LeaveKeeps
  <2>3. CASE ~Complete(w)
    <3>1. MovesTo(w, "reclaim")
      BY <1>3, <2>3, GotoMoves DEF ReadRow
    <3>2. QED
      BY <2>1, <3>1, MoveKeeps DEF RowsElsewhere
  <2>4. QED
    BY <2>2, <2>3
<1>4. CASE ReclaimRow(w)
  <2>1. UNCHANGED <<sent, faults>> /\ At(w, "reclaim")
    BY <1>4 DEF ReclaimRow, NoFault
  <2>2. CASE delivery[k].status \in {"FAILED", "PENDING"}
    <3>1. SetStatus(k, "PENDING") /\ MovesTo(w, "inbox")
      BY <1>4, <2>2, GotoMoves DEF ReclaimRow
    <3>2. delivery'[k].status = "PENDING" /\ RowsElsewhere(k)
      BY <2>1, <3>1, SetStatusFacts DEF RowsElsewhere
    <3>3. QED
      BY <2>1, <2>2, <3>1, <3>2, MoveKeeps
  <2>3. CASE delivery[k].status \notin {"FAILED", "PENDING"}
    <3>1. delivery' = delivery /\ Complete(w)
      BY <1>4, <2>3 DEF ReclaimRow
    <3>2. QED
      BY <2>1, <3>1, CompleteLeaves, LeaveKeeps
  <2>4. QED
    BY <2>2, <2>3
<1>5. QED
  BY <1>1, <1>2, <1>3, <1>4

LEMMA OutcomeLedger ==
  ASSUME TypeOK, LockInv, NEW w \in Worker, NEW k \in Key, k = KeyOf(w),
         UpsertInbox(w) \/ MarkUnwritable(w) \/ Stamp(w) \/ MarkBlocked(w) \/ Disabled(w)
           \/ SendRefused(w) \/ SendBlocked(w)
  PROVE  Ledger(k, w)
<1> USE DEF At, Menacing, OwnPc, Terminal, Pc, Status
<1>1. CASE UpsertInbox(w)
  <2>1. UNCHANGED <<job, delivery, sent, faults>> /\ At(w, "inbox")
    BY <1>1 DEF UpsertInbox, NoFault
  <2>2. MovesTo(w, "send") \/ MovesTo(w, "markUnwritable")
    BY <1>1, <2>1, GotoMoves DEF UpsertInbox
  <2>3. QED
    BY <2>1, <2>2, MoveKeeps DEF RowsElsewhere
<1>2. CASE MarkUnwritable(w)
  <2>1. UNCHANGED <<job, sent, faults>> /\ At(w, "markUnwritable") /\ SetStatus(k, "SKIPPED")
    BY <1>2 DEF MarkUnwritable, Mark, NoFault
  <2>2. MovesTo(w, "stampUnwritable")
    BY <1>2, <2>1, GotoMoves DEF MarkUnwritable, Mark
  <2>3. delivery'[k].status = "SKIPPED" /\ RowsElsewhere(k)
    BY <2>1, SetStatusFacts DEF RowsElsewhere
  <2>4. QED
    BY <2>1, <2>2, <2>3, MoveKeeps
<1>3. CASE MarkBlocked(w)
  <2>1. UNCHANGED <<job, sent, faults>> /\ At(w, "markBlocked") /\ SetStatus(k, "SKIPPED")
    BY <1>3 DEF MarkBlocked, NoFault
  <2>2. MovesTo(w, "disable")
    BY <1>3, <2>1, GotoMoves DEF MarkBlocked
  <2>3. delivery'[k].status = "SKIPPED" /\ RowsElsewhere(k)
    BY <2>1, SetStatusFacts DEF RowsElsewhere
  <2>4. QED
    BY <2>1, <2>2, <2>3, MoveKeeps
<1>4. CASE Stamp(w) \/ Disabled(w)
  <2>1. UNCHANGED <<delivery, sent, faults>> /\ Complete(w) /\ ~At(w, "idle") /\ ~At(w, "markSent")
    BY <1>4 DEF Stamp, Disabled, NoFault
  <2>2. QED
    BY <2>1, CompleteLeaves, LeaveKeeps
<1>5. CASE SendRefused(w) \/ SendBlocked(w)
  <2>1. UNCHANGED <<job, delivery, sent, faults>> /\ At(w, "send")
    BY <1>5 DEF SendRefused, SendBlocked, NoFault
  <2>2. MovesTo(w, "markFailed") \/ MovesTo(w, "markBlocked")
    BY <1>5, <2>1, GotoMoves DEF SendRefused, SendBlocked
  <2>3. QED
    BY <2>1, <2>2, MoveKeeps DEF RowsElsewhere
<1>6. QED
  BY <1>1, <1>2, <1>3, <1>4, <1>5

LEMMA MarkSentLedger ==
  ASSUME TypeOK, LockInv, NEW w \in Worker, NEW k \in Key, k = KeyOf(w), MarkSent(w)
  PROVE  Ledger(k, w)
<1> USE DEF At
<1>1. UNCHANGED <<job, sent, faults>> /\ At(w, "markSent") /\ SetStatus(k, "SENT")
  BY DEF MarkSent, Mark, NoFault
<1>2. MovesTo(w, "stampSent")
  BY <1>1, GotoMoves DEF MarkSent, Mark, Pc
<1>3. delivery'[k].status = "SENT" /\ RowsElsewhere(k)
  BY <1>1, SetStatusFacts DEF RowsElsewhere, Status
<1>4. OthersStay(w, k) /\ On(w, k) /\ LockInv'
  BY <1>1, <1>2, <1>3, MovesShape DEF Pc
<1>5. \A j \in Key \ {k} : Kept(j)
  BY <1>4, KeptElsewhere
<1>6. Zombies(k)' \subseteq Zombies(k)
  BY <1>1, <1>2, <1>4, Here DEF MovesTo, Menacing
<1>7. OwnerPends(k)' => OwnerPends(k)
  BY <1>1, <1>2, <1>4, Here DEF MovesTo, Owns, OwnPc
<1>8. Pending(k)' => Pending(k)
  BY <1>3, <1>7 DEF Pending, Terminal
<1>9. QED
  BY <1>1, <1>4, <1>5, <1>6, <1>8 DEF Ledger, Accounted, Kept

(* FAILED: a worker that holds the job leaves it to be retried; a zombie    *)
(* may reopen a row that another attempt settled, but is then gone itself.  *)
LEMMA MarkFailedLedger ==
  ASSUME TypeOK, LockInv, NEW w \in Worker, NEW k \in Key, k = KeyOf(w), MarkFailed(w)
  PROVE  Ledger(k, w)
<1> USE DEF At
<1>1. UNCHANGED <<sent, faults>> /\ At(w, "markFailed") /\ SetStatus(k, "FAILED")
  BY DEF MarkFailed, NoFault
<1>2. Leaves(w)
  BY CompleteLeaves DEF MarkFailed
<1>3. RowsElsewhere(k)
  BY <1>1, SetStatusFacts DEF RowsElsewhere, Status
<1>4. OthersStay(w, k) /\ On(w, k) /\ LockInv'
  BY <1>1, <1>2, <1>3, LeavesShape
<1>5. \A j \in Key \ {k} : Kept(j)
  BY <1>4, KeptElsewhere
<1>6. job'[k].owner = job[k].owner \/ (Owns(w) /\ job'[k].owner = None)
  BY <1>2 DEF Leaves
<1>7. w \notin Zombies(k)' /\ Zombies(k)' \subseteq Zombies(k)
  BY <1>2, <1>4, <1>6, Here DEF Leaves, Menacing
<1>8. CASE Owns(w)
  <2>1. Pending(k)
    BY <1>1, <1>4, <1>6, <1>8, Here DEF Pending, OwnPc
  <2>2. QED
    BY <1>1, <1>4, <1>5, <1>7, <2>1 DEF Ledger, Accounted, Kept
<1>9. CASE ~Owns(w)
  <2>1. w \in Zombies(k)
    BY <1>1, <1>4, <1>6, <1>9, Here DEF Menacing
  <2>2. QED
    BY <1>1, <1>4, <1>5, <1>7, <2>1 DEF Ledger, Accounted, Reopened
<1>10. QED
  BY <1>8, <1>9

LEMMA SendLedger ==
  ASSUME TypeOK, LockInv, NEW w \in Worker, NEW k \in Key, k = KeyOf(w),
         SendOk(w) \/ SendTimedOut(w)
  PROVE  Ledger(k, w)
<1> USE DEF At
<1>1. /\ UNCHANGED <<job, delivery>> /\ At(w, "send") /\ sent'[k] = sent[k] + 1
      /\ \A j \in Key \ {k} : sent'[j] = sent[j] /\ faults'[j] = faults[j]
  BY DEF SendOk, SendTimedOut, Received, Fault, NoFault, TypeOK, DeliveryTypeOK
<1>2. RowsElsewhere(k)
  BY <1>1 DEF RowsElsewhere
<1>3. CASE SendOk(w)
  <2>1. MovesTo(w, "markSent") /\ faults' = faults
    BY <1>1, <1>3, GotoMoves DEF SendOk, NoFault, Pc
  <2>2. OthersStay(w, k) /\ On(w, k) /\ LockInv'
    BY <1>1, <1>2, <2>1, MovesShape DEF Pc
  <2>3. \A j \in Key \ {k} : Kept(j)
    BY <2>2, KeptElsewhere
  <2>4. w \notin Zombies(k)' /\ Zombies(k)' \subseteq Zombies(k)
    BY <1>1, <2>1, <2>2, Here DEF MovesTo, Menacing
  <2>5. CASE Owns(w)
    <3>1. Pending(k)
      BY <1>1, <2>2, <2>5, Here DEF Pending, OwnPc
    <3>2. ~Pending(k)'
      BY <1>1, <2>1, <2>2, <2>5, Here DEF Pending, OwnPc, MovesTo, Owns
    <3>3. QED
      BY <1>1, <2>1, <2>2, <2>3, <2>4, <3>1, <3>2 DEF Ledger, Accounted, Spent
  <2>6. CASE ~Owns(w)
    <3>1. w \in Zombies(k)
      BY <1>1, <2>2, <2>6, Here DEF Menacing
    <3>2. Pending(k)' => Pending(k)
      BY <1>1, <2>2, <2>6, Here DEF Pending
    <3>3. QED
      BY <1>1, <2>1, <2>2, <2>3, <2>4, <3>1, <3>2 DEF Ledger, Accounted, Spent
  <2>7. QED
    BY <2>5, <2>6
<1>4. CASE SendTimedOut(w)
  <2>1. MovesTo(w, "markFailed") /\ faults'[k] = faults[k] + 1
    BY <1>1, <1>4, GotoMoves DEF SendTimedOut, Fault, Pc, TypeOK, DeliveryTypeOK
  <2>2. OthersStay(w, k) /\ On(w, k) /\ LockInv'
    BY <1>1, <1>2, <2>1, MovesShape DEF Pc
  <2>3. \A j \in Key \ {k} : Kept(j)
    BY <2>2, KeptElsewhere
  <2>4. Zombies(k)' \subseteq Zombies(k)
    BY <1>1, <2>1, <2>2, Here DEF MovesTo, Menacing, Owns
  <2>5. Pending(k)' => Pending(k)
    BY <1>1, <2>1, <2>2, Here DEF Pending, OwnPc, MovesTo, Owns
  <2>6. QED
    BY <1>1, <2>1, <2>2, <2>3, <2>4, <2>5 DEF Ledger, Accounted, Spent
<1>5. QED
  BY <1>3, <1>4

LEMMA FaultFacts ==
  ASSUME TypeOK, NEW k \in Key, Fault(k)
  PROVE  faults'[k] = faults[k] + 1 /\ \A j \in Key \ {k} : faults'[j] = faults[j]
BY DEF Fault, TypeOK, DeliveryTypeOK

LEMMA FaultLedger ==
  ASSUME TypeOK, LockInv, NEW w \in Worker, NEW k \in Key, k = KeyOf(w), FaultStep(w)
  PROVE  Ledger(k, w)
<1> USE DEF At
<1>1. /\ UNCHANGED <<delivery, sent>> /\ ~At(w, "idle")
      /\ faults'[k] = faults[k] + 1 /\ \A j \in Key \ {k} : faults'[j] = faults[j]
  BY FaultFacts DEF FaultStep, FailInTry, FailOutsideTry, Crash, LoseLock
<1>2. RowsElsewhere(k)
  BY <1>1 DEF RowsElsewhere
<1>3. CASE FailInTry(w)
  <2>1. job' = job /\ MovesTo(w, "markFailed")
    BY <1>3, GotoMoves DEF FailInTry, Pc
  <2>2. OthersStay(w, k) /\ On(w, k) /\ LockInv'
    BY <1>1, <1>2, <2>1, MovesShape DEF Pc
  <2>3. \A j \in Key \ {k} : Kept(j)
    BY <2>2, KeptElsewhere
  <2>4. CASE Owns(w)
    <3>1. Zombies(k)' \subseteq Zombies(k)
      BY <2>1, <2>2, <2>4, Here DEF MovesTo, Owns
    <3>2. QED
      BY <1>1, <2>2, <2>3, <3>1 DEF Ledger, Accounted, Charged
  <2>5. CASE ~Owns(w)
    <3>1. Zombies(k)' \subseteq Zombies(k) \union {w} /\ (Pending(k)' => Pending(k))
      BY <1>1, <2>1, <2>2, <2>5, Here DEF Pending
    <3>2. QED
      BY <1>1, <2>2, <2>3, <3>1 DEF Ledger, Accounted, Charged
  <2>6. QED
    BY <2>4, <2>5
<1>4. CASE FailOutsideTry(w) \/ Crash(w)
  <2>1. Leaves(w)
    <3>1. CASE FailOutsideTry(w)
      BY <3>1, CompleteLeaves DEF FailOutsideTry
    <3>2. CASE Crash(w)
      BY <3>2, WorkerFacts DEF Crash, Leaves, IdleSlot, TypeOK, DeliveryTypeOK, Job
    <3>3. QED
      BY <1>4, <3>1, <3>2
  <2>2. OthersStay(w, k) /\ On(w, k) /\ LockInv'
    BY <1>1, <1>2, <2>1, LeavesShape
  <2>3. \A j \in Key \ {k} : Kept(j)
    BY <2>2, KeptElsewhere
  <2>4. Zombies(k)' \subseteq Zombies(k)
    BY <2>1, <2>2, Here DEF Leaves, Menacing
  <2>5. QED
    BY <1>1, <2>2, <2>3, <2>4 DEF Ledger, Accounted, Charged
<1>5. CASE LoseLock(w)
  <2>1. /\ worker' = worker /\ Owns(w) /\ job'[k].owner = None
        /\ \A j \in Key \ {k} : job'[j] = job[j]
    BY <1>5 DEF LoseLock, TypeOK, DeliveryTypeOK, Job
  <2>2. OthersStay(w, k) /\ On(w, k)
    BY <1>1, <1>2, <2>1 DEF OthersStay, On, RowsElsewhere, KeyOf
  <2>3. LockInv'
    BY <2>1, <2>2, LockKept, DeliveryAssumption
  <2>4. \A j \in Key \ {k} : Kept(j)
    BY <2>2, KeptElsewhere
  <2>5. CASE At(w, "markSent")
    <3>1. Zombies(k)' \subseteq Zombies(k)
      BY <2>1, <2>2, <2>5, Here DEF Menacing
    <3>2. QED
      BY <1>1, <2>3, <2>4, <3>1 DEF Ledger, Accounted, Charged
  <2>6. CASE ~At(w, "markSent")
    <3>1. Zombies(k)' \subseteq Zombies(k) \union {w}
      BY <2>1, <2>2, Here
    <3>2. Pending(k)' => Pending(k)
      BY <1>1, <2>1, <2>2, <2>6, Here DEF Pending
    <3>3. QED
      BY <1>1, <2>3, <2>4, <3>1, <3>2 DEF Ledger, Accounted, Charged
  <2>7. QED
    BY <2>5, <2>6
<1>6. QED
  BY <1>3, <1>4, <1>5 DEF FaultStep

LEMMA TakeLedger ==
  ASSUME TypeOK, LockInv, NEW w \in Worker, NEW k \in Key, Take(w, k)
  PROVE  LockInv' /\ \A j \in Key : Kept(j)
<1>1. /\ UNCHANGED <<delivery, sent, faults>> /\ At(w, "idle")
      /\ job'[k].owner = w /\ job'[k].state = "active" /\ job[k].state = "waiting"
      /\ \A j \in Key \ {k} : job'[j] = job[j]
      /\ worker'[w].pc = "findUser" /\ worker'[w].key = k
      /\ \A x \in Worker \ {w} : worker'[x] = worker[x]
  BY IdleSlotType DEF Take, NoFault, TypeOK, DeliveryTypeOK, Job, Slot
<1>2. OthersStay(w, k)
  BY <1>1 DEF OthersStay
<1>3. LockInv'
  BY <1>1, <1>2, LockKept
<1>4. \A j \in Key \ {k} : Kept(j)
  BY <1>2, KeptElsewhere
<1>5. \A x \in Worker : job[k].owner # x
  BY <1>1 DEF LockInv
<1>6. Zombies(k)' \subseteq Zombies(k)
  BY <1>1, <1>5 DEF Zombies
<1>7. ~OwnerPends(k)' /\ ~OwnerPends(k) /\ ~OwnerHasSent(k)
  BY <1>1, <1>5 DEF OwnerPends, OwnerHasSent
<1>8. Kept(k)
  BY <1>1, <1>6, <1>7 DEF Kept, Pending
<1>9. QED
  BY <1>3, <1>4, <1>8

(* The scan and the queue alone: no job they touch has an owner.            *)
OwnerlessMove(k) ==
  /\ UNCHANGED <<worker, delivery, sent, faults>>
  /\ \A j \in Key \ {k} : job'[j] = job[j]
  /\ job' = job \/ (job[k].owner \notin Worker /\ job'[k].owner \notin Worker)

LEMMA OwnerlessLedger ==
  ASSUME LockInv, NEW k \in Key, OwnerlessMove(k)
  PROVE  /\ LockInv' /\ \A j \in Key : Kept(j)
         /\ \A j \in Key, x \in Worker : job[j].owner = x => job'[j].owner = x
<1> USE DEF OwnerlessMove
<1>1. \A j \in Key, x \in Worker : job'[j].owner = x <=> job[j].owner = x
  OBVIOUS
<1>2. LockInv'
  BY DEF LockInv, On
<1>3. ASSUME NEW j \in Key
      PROVE  Kept(j)
  <2>1. Zombies(j)' \subseteq Zombies(j)
    BY <1>1, <1>3 DEF Zombies
  <2>2. Pending(j)' <=> Pending(j)
    BY <1>3 DEF Pending, OwnerPends, OwnerHasSent
  <2>3. QED
    BY <2>1, <2>2 DEF Kept
<1>4. QED
  BY <1>1, <1>2, <1>3

LEMMA QueueMoves ==
  ASSUME TypeOK, LockInv, NEW k \in Key, QueueStep(k)
  PROVE  OwnerlessMove(k)
<1>1. UNCHANGED <<worker, delivery, sent, faults>>
  BY DEF QueueStep, EvictFailed, RecoverStalled, NoFault
<1>2. NoJob.owner = None /\ None \notin Worker
  BY DeliveryAssumption DEF NoJob
<1>3. Recovered(job[k]).owner = job[k].owner
  BY DEF Recovered, TypeOK, DeliveryTypeOK, Job
<1>4. CASE EvictFailed(k)
  BY <1>1, <1>2, <1>4 DEF EvictFailed, LockInv, TypeOK, DeliveryTypeOK, OwnerlessMove
<1>5. CASE RecoverStalled(k)
  BY <1>1, <1>2, <1>3, <1>5 DEF RecoverStalled, TypeOK, DeliveryTypeOK, OwnerlessMove
<1>6. QED
  BY <1>4, <1>5 DEF QueueStep

LEMMA ScanMoves ==
  ASSUME TypeOK, LockInv, ScanStep
  PROVE  \E k \in Key : OwnerlessMove(k)
<1>1. UNCHANGED <<worker, delivery, sent, faults>>
  BY DEF ScanStep, ScanRead, Enqueue, ScanStops
<1>2. ASSUME NEW t \in Time, NEW k \in Key, Enqueue(t, k)
      PROVE  OwnerlessMove(k)
  <2>1. NoJob.owner = None /\ [NoJob EXCEPT !.state = "waiting"].owner = None /\ None \notin Worker
    BY DeliveryAssumption DEF NoJob
  <2>2. job[k].state = "none" => job[k].owner \notin Worker
    BY DEF LockInv
  <2>3. QED
    BY <1>1, <1>2, <2>1, <2>2 DEF Enqueue, TypeOK, DeliveryTypeOK, OwnerlessMove
<1>3. ASSUME ScanRead \/ \E t \in Time : ScanStops(t)
      PROVE  \E k \in Key : OwnerlessMove(k)
  <2>1. job' = job
    BY <1>3 DEF ScanRead, ScanStops
  <2>2. PICK k \in Key : TRUE
    BY IdleSlotType DEF Slot
  <2>3. OwnerlessMove(k)
    BY <1>1, <2>1 DEF OwnerlessMove
  <2>4. QED
    BY <2>3
<1>4. QED
  BY <1>2, <1>3 DEF ScanStep

LEMMA IdleLedger ==
  ASSUME LockInv, UNCHANGED <<worker, job, delivery, sent, faults>>
  PROVE  LockInv' /\ \A j \in Key : Kept(j)
BY DEF LockInv, On, Kept, Zombies, Pending, OwnerPends, OwnerHasSent

LEMMA IInvInit == Init => IInv
<1> SUFFICES ASSUME Init PROVE IInv
  OBVIOUS
<1>1. TypeOK
  BY InitType
<1>2. /\ \A k \in Key : job[k].owner \notin Worker /\ sent[k] = 0 /\ faults[k] = 0
      /\ \A w \in Worker : worker[w].pc = "idle"
  BY DeliveryAssumption DEF Init, NoJob, IdleSlot
<1>3. LockInv
  BY <1>2 DEF LockInv
<1>4. ASSUME NEW k \in Key
      PROVE  Budget(k)
  <2>1. Zombies(k) = {}
    BY <1>2 DEF Zombies, Menacing
  <2>2. Cardinality(Zombies(k)) = 0
    BY <2>1, FS_EmptySet
  <2>3. QED
    BY <1>2, <2>2 DEF Budget, Bit
<1>5. QED
  BY <1>1, <1>3, <1>4 DEF IInv

LEMMA IInvStep == IInv /\ [Next]_vars => IInv'
<1> SUFFICES ASSUME IInv, [Next]_vars PROVE IInv'
  OBVIOUS
<1>1. TypeOK /\ LockInv /\ TypeOK' /\ \A k \in Key : Budget(k)
  BY TypeStep DEF IInv
<1>2. ASSUME LockInv', \A j \in Key : Kept(j)
      PROVE  IInv'
  BY <1>1, <1>2, BudgetKept DEF IInv
<1>3. ASSUME NEW w \in Worker, NEW k \in Key, Ledger(k, w)
      PROVE  IInv'
  BY <1>1, <1>3, BudgetKept, BudgetMoved DEF IInv, Ledger, Accounted
<1>4. ASSUME NEW w \in Worker, DeliverStep(w) \/ FaultStep(w)
      PROVE  IInv'
  <2>1. PICK k \in Key : k = KeyOf(w)
    BY <1>1, WorkerFacts
  <2>2. Ledger(k, w)
    BY <1>1, <1>4, <2>1, ClaimLedger, OutcomeLedger, MarkSentLedger, MarkFailedLedger, SendLedger,
       FaultLedger DEF DeliverStep
  <2>3. QED
    BY <1>3, <2>2
<1>5. ASSUME NEW w \in Worker, NEW k \in Key, Take(w, k)
      PROVE  IInv'
  BY <1>1, <1>2, <1>5, TakeLedger
<1>6. ASSUME ScanStep \/ \E k \in Key : QueueStep(k)
      PROVE  IInv'
  <2>1. PICK k \in Key : OwnerlessMove(k)
    BY <1>1, <1>6, ScanMoves, QueueMoves
  <2>2. QED
    BY <1>1, <1>2, <2>1, OwnerlessLedger
<1>7. ASSUME UNCHANGED <<worker, job, delivery, sent, faults>>
      PROVE  IInv'
  BY <1>1, <1>2, <1>7, IdleLedger
<1>8. PreferenceStep \/ UNCHANGED vars
        => UNCHANGED <<worker, job, delivery, sent, faults>>
  BY DEF PreferenceStep, vars, deliveryVars
<1>9. QED
  BY <1>4, <1>5, <1>6, <1>7, <1>8 DEF Next

(* A user gets at most one message for a date, and one more for each fault  *)
(* that struck its delivery: no interleaving of scans, workers, retries,    *)
(* evictions and reclaims resends a reminder by itself.                     *)
THEOREM ResendsBounded == Spec => []ResendsCostAFault
<1>1. IInv => ResendsCostAFault
  <2> SUFFICES ASSUME IInv, NEW k \in Key PROVE sent[k] <= 1 + faults[k]
    BY DEF ResendsCostAFault
  <2>1. sent[k] \in Nat /\ faults[k] \in Nat /\ Zombies(k) \subseteq Worker /\ Budget(k)
    BY DEF IInv, TypeOK, DeliveryTypeOK, Zombies
  <2>2. Cardinality(Zombies(k)) \in Nat /\ Bit(Pending(k)) \in Nat
    BY <2>1, ZombiesFinite DEF Bit
  <2>3. QED
    BY <2>1, <2>2 DEF Budget
<1>2. QED
  BY <1>1, IInvInit, IInvStep, PTL DEF Spec

----------------------------------------------------------------------------
(* Receipts.  On a delivery that no fault struck every worker at work holds *)
(* the job, so there is one at most, and once the row says SENT that worker *)
(* is either about to stamp it or has come after it and will find it SENT.  *)

AfterSent == {"findUser", "create", "read", "reclaim", "stampSent"}
Receipt(k) ==
  /\ \A w \in Worker : On(w, k) => job[k].owner = w
  /\ delivery[k].status = "SENT" =>
       /\ \A w \in Worker : On(w, k) => worker[w].pc \in AfterSent
       /\ \/ settings[k[1]].lastAt >= delivery[k].updatedAt
          \/ \E w \in Worker : On(w, k) /\ At(w, "stampSent")
Dated == \A k \in Key : delivery[k].updatedAt <= clock
ReceiptInv == IInv /\ Dated /\ \A k \in Key : faults[k] = 0 => Receipt(k)

(* The last reminder's time is kept or becomes the present; time goes on.   *)
TimeGoesOn ==
  clock' >= clock /\ \A u \in User : settings'[u].lastAt \in {settings[u].lastAt, clock}

LEMMA TimeStep == TypeOK /\ [Next]_vars => TimeGoesOn
<1> SUFFICES ASSUME TypeOK, [Next]_vars PROVE TimeGoesOn
  OBVIOUS
<1>1. [PrefNext]_prefVars /\ PrefTypeOK
  BY StepRefines DEF TypeOK
<1>2. clock \in Nat /\ settings \in [User -> Settings]
  BY <1>1, PreferencesAssumption DEF PrefTypeOK, Time
<1>3. clock' = clock /\ settings' = settings => TimeGoesOn
  BY <1>2 DEF TimeGoesOn
<1>4. ASSUME NEW a \in Actor, RequestStep(a)
      PROVE  TimeGoesOn
  <2>1. ASSUME NEW u \in User, NEW b \in BOOLEAN, UpdateSettings(a, u, b)
        PROVE  TimeGoesOn
    BY <1>2, <2>1 DEF UpdateSettings, UpsertDefaults, TimeGoesOn, Settings
  <2>2. ASSUME NEW u \in User, NEW b \in BOOLEAN, NEW t \in 0..DayMinutes-1,
               PutReminder(a, u, b, t)
        PROVE  TimeGoesOn
    BY <1>3, <2>2 DEF PutReminder
  <2>3. ASSUME NEW u \in User, DeleteReminder(a, u) \/ StopCommand(a, u)
        PROVE  TimeGoesOn
    BY <1>3, <2>3 DEF DeleteReminder, StopCommand
  <2>4. QED
    BY <1>4, <2>1, <2>2, <2>3 DEF RequestStep
<1>5. ASSUME NEW a \in Actor, OpStep(a)
      PROVE  TimeGoesOn
  <2>1. CASE SyncSettings(a) \/ WriteSettings(a)
    <3>1. /\ clock' = clock
          /\ settings' = [settings EXCEPT ![op[a].user] = SetEnabled(@, op[a].enabled)]
      BY <2>1 DEF SyncSettings, WriteSettings, SetAyatRemindersEnabled
    <3>2. \A u \in User : settings'[u].lastAt = settings[u].lastAt
      BY <1>2, <3>1 DEF SetEnabled, Settings
    <3>3. QED
      BY <1>2, <3>1, <3>2 DEF TimeGoesOn
  <2>2. CASE ReadPref(a) \/ WritePref(a)
    BY <1>3, <2>2 DEF ReadPref, WritePref
  <2>3. QED
    BY <1>5, <2>1, <2>2 DEF OpStep
<1>6. ASSUME NEW a \in Actor, Abandon(a)
      PROVE  TimeGoesOn
  BY <1>3, <1>6 DEF Abandon
<1>7. ASSUME AccountStep
      PROVE  TimeGoesOn
  <2>1. ASSUME NEW u \in User, GetSettings(u)
        PROVE  TimeGoesOn
    BY <1>2, <2>1 DEF GetSettings, UpsertDefaults, TimeGoesOn, Settings
  <2>2. ASSUME NEW u \in User, DeactivateUser(u)
        PROVE  TimeGoesOn
    BY <1>3, <2>2 DEF DeactivateUser
  <2>3. ASSUME NEW u \in User, NEW allows \in BOOLEAN, UpsertFromTelegram(u, allows)
        PROVE  TimeGoesOn
    BY <1>3, <2>3 DEF UpsertFromTelegram
  <2>4. QED
    BY <1>7, <2>1, <2>2, <2>3 DEF AccountStep
<1>8. ASSUME NEW u \in User, StampByWorker(u)
      PROVE  TimeGoesOn
  BY <1>2, <1>8 DEF StampByWorker, MarkLastAyatReminderAt, TimeGoesOn, Settings
<1>9. ASSUME NEW u \in User, NEW a \in Actor, DisableByWorker(a, u)
      PROVE  TimeGoesOn
  BY <1>3, <1>9 DEF DisableByWorker
<1>10. ASSUME Tick
       PROVE  TimeGoesOn
  BY <1>2, <1>10 DEF Tick, TimeGoesOn
<1>11. CASE UNCHANGED prefVars
  BY <1>3, <1>11 DEF prefVars
<1>12. QED
  BY <1>1, <1>4, <1>5, <1>6, <1>7, <1>8, <1>9, <1>10, <1>11 DEF PrefNext

(* What a step may do to one row: nothing, or a write at the present time.  *)
RowsDated == \A j \in Key : delivery'[j].updatedAt \in {delivery[j].updatedAt, clock}
SaysSent(k) == delivery[k].status = "SENT"

(* One step of a worker at its own row.  Either the row stays, or it comes  *)
(* to say something else than SENT, or it says SENT and is to be stamped.   *)
RowStays(w, k) ==
  /\ delivery' = delivery
  /\ \/ \E pc \in Pc \ {"idle"} :
          MovesTo(w, pc) /\ ~At(w, "stampSent")
            /\ (SaysSent(k) /\ worker[w].pc \in AfterSent => pc \in AfterSent)
     \/ Leaves(w) /\ (At(w, "stampSent") => settings'[k[1]].lastAt = clock)
RowTurns(w, k) ==
  /\ ~SaysSent(k)'
  /\ worker[w].pc \notin AfterSent \/ ~SaysSent(k)
  /\ (\E pc \in Pc \ {"idle"} : MovesTo(w, pc)) \/ Leaves(w)
RowIsSent(w, k) == SaysSent(k)' /\ MovesTo(w, "stampSent")
RowStep(w, k) ==
  /\ RowsDated /\ RowsElsewhere(k) /\ ~At(w, "idle")
  /\ RowStays(w, k) \/ RowTurns(w, k) \/ RowIsSent(w, k)

LEMMA WriteDates ==
  ASSUME TypeOK, NEW k \in Key, NEW status \in Status, SetStatus(k, status)
  PROVE  RowsDated
BY DEF SetStatus, RowsDated, TypeOK, DeliveryTypeOK

LEMMA SameDates == UNCHANGED delivery => RowsDated
BY DEF RowsDated

LEMMA ClaimRows ==
  ASSUME TypeOK, NEW w \in Worker, NEW k \in Key, k = KeyOf(w),
         FindUser(w) \/ CreateRow(w) \/ ReadRow(w) \/ ReclaimRow(w)
  PROVE  RowStep(w, k)
<1> USE DEF At, AfterSent, Pc, Status
<1>1. CASE FindUser(w)
  <2>1. UNCHANGED <<delivery, sent, faults>> /\ At(w, "findUser")
    BY <1>1 DEF FindUser, NoFault
  <2>2. Leaves(w) \/ MovesTo(w, "create")
    <3>1. CASE Complete(w)
      BY <3>1, CompleteLeaves
    <3>2. CASE ~Complete(w)
      BY <1>1, <3>2 DEF FindUser, MovesTo, KeyOf, TypeOK, DeliveryTypeOK, Slot
    <3>3. QED
      BY <3>1, <3>2
  <2>3. RowStays(w, k)
    BY <2>1, <2>2 DEF RowStays
  <2>4. QED
    BY <2>1, <2>3, SameDates DEF RowStep, RowsElsewhere
<1>2. CASE CreateRow(w)
  <2>1. UNCHANGED <<job, sent, faults>> /\ At(w, "create")
    BY <1>2 DEF CreateRow, NoFault
  <2>2. CASE delivery[k].status = "absent"
    <3>1. SetStatus(k, "PENDING") /\ MovesTo(w, "inbox")
      BY <1>2, <2>1, <2>2, GotoMoves DEF CreateRow
    <3>2. delivery'[k].status = "PENDING" /\ RowsElsewhere(k) /\ RowsDated
      BY <2>1, <3>1, SetStatusFacts, WriteDates DEF RowsElsewhere
    <3>3. RowTurns(w, k)
      BY <2>2, <3>1, <3>2 DEF RowTurns, SaysSent
    <3>4. QED
      BY <2>1, <3>2, <3>3 DEF RowStep
  <2>3. CASE delivery[k].status # "absent"
    <3>1. delivery' = delivery /\ MovesTo(w, "read")
      BY <1>2, <2>1, <2>3, GotoMoves DEF CreateRow
    <3>2. RowStays(w, k)
      BY <2>1, <3>1 DEF RowStays
    <3>3. QED
      BY <2>1, <3>1, <3>2, SameDates DEF RowStep, RowsElsewhere
  <2>4. QED
    BY <2>2, <2>3
<1>3. CASE ReadRow(w)
  <2>1. UNCHANGED <<delivery, sent, faults>> /\ At(w, "read")
    BY <1>3 DEF ReadRow, NoFault
  <2>2. Leaves(w) \/ MovesTo(w, "reclaim")
    BY <1>3, CompleteLeaves, GotoMoves DEF ReadRow
  <2>3. RowStays(w, k)
    BY <2>1, <2>2 DEF RowStays
  <2>4. QED
    BY <2>1, <2>3, SameDates DEF RowStep, RowsElsewhere
<1>4. CASE ReclaimRow(w)
  <2>1. UNCHANGED <<sent, faults>> /\ At(w, "reclaim")
    BY <1>4 DEF ReclaimRow, NoFault
  <2>2. CASE delivery[k].status \in {"FAILED", "PENDING"}
    <3>1. SetStatus(k, "PENDING") /\ MovesTo(w, "inbox")
      BY <1>4, <2>2, GotoMoves DEF ReclaimRow
    <3>2. delivery'[k].status = "PENDING" /\ RowsElsewhere(k) /\ RowsDated
      BY <2>1, <3>1, SetStatusFacts, WriteDates DEF RowsElsewhere
    <3>3. RowTurns(w, k)
      BY <2>2, <3>1, <3>2 DEF RowTurns, SaysSent
    <3>4. QED
      BY <2>1, <3>2, <3>3 DEF RowStep
  <2>3. CASE delivery[k].status \notin {"FAILED", "PENDING"}
    <3>1. delivery' = delivery /\ Leaves(w)
      BY <1>4, <2>3, CompleteLeaves DEF ReclaimRow
    <3>2. RowStays(w, k)
      BY <2>1, <3>1 DEF RowStays
    <3>3. QED
      BY <2>1, <3>1, <3>2, SameDates DEF RowStep, RowsElsewhere
  <2>4. QED
    BY <2>2, <2>3
<1>5. QED
  BY <1>1, <1>2, <1>3, <1>4

LEMMA OutcomeRows ==
  ASSUME TypeOK, NEW w \in Worker, NEW k \in Key, k = KeyOf(w),
         UpsertInbox(w) \/ MarkUnwritable(w) \/ MarkSent(w) \/ MarkFailed(w) \/ MarkBlocked(w)
  PROVE  RowStep(w, k)
<1> USE DEF At, AfterSent, Pc, Status
<1>1. CASE UpsertInbox(w)
  <2>1. UNCHANGED <<job, delivery, sent, faults>> /\ At(w, "inbox")
    BY <1>1 DEF UpsertInbox, NoFault
  <2>2. MovesTo(w, "send") \/ MovesTo(w, "markUnwritable")
    BY <1>1, <2>1, GotoMoves DEF UpsertInbox
  <2>3. RowStays(w, k)
    BY <2>1, <2>2 DEF RowStays
  <2>4. QED
    BY <2>1, <2>3, SameDates DEF RowStep, RowsElsewhere
<1>2. CASE MarkUnwritable(w)
  <2>1. UNCHANGED <<job, sent, faults>> /\ At(w, "markUnwritable") /\ SetStatus(k, "SKIPPED")
    BY <1>2 DEF MarkUnwritable, Mark, NoFault
  <2>2. MovesTo(w, "stampUnwritable")
    BY <1>2, <2>1, GotoMoves DEF MarkUnwritable, Mark
  <2>3. delivery'[k].status = "SKIPPED" /\ RowsElsewhere(k) /\ RowsDated
    BY <2>1, SetStatusFacts, WriteDates DEF RowsElsewhere
  <2>4. RowTurns(w, k)
    BY <2>1, <2>2, <2>3 DEF RowTurns, SaysSent
  <2>5. QED
    BY <2>1, <2>3, <2>4 DEF RowStep
<1>3. CASE MarkBlocked(w)
  <2>1. UNCHANGED <<job, sent, faults>> /\ At(w, "markBlocked") /\ SetStatus(k, "SKIPPED")
    BY <1>3 DEF MarkBlocked, NoFault
  <2>2. MovesTo(w, "disable")
    BY <1>3, <2>1, GotoMoves DEF MarkBlocked
  <2>3. delivery'[k].status = "SKIPPED" /\ RowsElsewhere(k) /\ RowsDated
    BY <2>1, SetStatusFacts, WriteDates DEF RowsElsewhere
  <2>4. RowTurns(w, k)
    BY <2>1, <2>2, <2>3 DEF RowTurns, SaysSent
  <2>5. QED
    BY <2>1, <2>3, <2>4 DEF RowStep
<1>4. CASE MarkSent(w)
  <2>1. UNCHANGED <<job, sent, faults>> /\ At(w, "markSent") /\ SetStatus(k, "SENT")
    BY <1>4 DEF MarkSent, Mark, NoFault
  <2>2. MovesTo(w, "stampSent")
    BY <1>4, <2>1, GotoMoves DEF MarkSent, Mark
  <2>3. delivery'[k].status = "SENT" /\ RowsElsewhere(k) /\ RowsDated
    BY <2>1, SetStatusFacts, WriteDates DEF RowsElsewhere
  <2>4. QED
    BY <2>1, <2>2, <2>3 DEF RowStep, RowIsSent, SaysSent
<1>5. CASE MarkFailed(w)
  <2>1. UNCHANGED <<sent, faults>> /\ At(w, "markFailed") /\ SetStatus(k, "FAILED")
    BY <1>5 DEF MarkFailed, NoFault
  <2>2. Leaves(w)
    BY <1>5, CompleteLeaves DEF MarkFailed
  <2>3. delivery'[k].status = "FAILED" /\ RowsElsewhere(k) /\ RowsDated
    BY <2>1, SetStatusFacts, WriteDates DEF RowsElsewhere
  <2>4. RowTurns(w, k)
    BY <2>1, <2>2, <2>3 DEF RowTurns, SaysSent
  <2>5. QED
    BY <2>1, <2>3, <2>4 DEF RowStep
<1>6. QED
  BY <1>1, <1>2, <1>3, <1>4, <1>5

LEMMA SettleRows ==
  ASSUME TypeOK, NEW w \in Worker, NEW k \in Key, k = KeyOf(w),
         Stamp(w) \/ Disabled(w) \/ SendOk(w) \/ SendRefused(w) \/ SendBlocked(w)
  PROVE  RowStep(w, k)
<1> USE DEF At, AfterSent, Pc
<1>1. CASE Stamp(w)
  <2>1. /\ UNCHANGED <<delivery, sent, faults>> /\ ~At(w, "idle") /\ Leaves(w)
        /\ StampByWorker(k[1]) /\ k[1] \in User
    BY <1>1, CompleteLeaves, WorkerFacts DEF Stamp, NoFault
  <2>2. settings'[k[1]].lastAt = clock
    BY <2>1 DEF StampByWorker, MarkLastAyatReminderAt, TypeOK, PrefTypeOK, Settings
  <2>3. RowStays(w, k)
    BY <2>1, <2>2 DEF RowStays
  <2>4. QED
    BY <2>1, <2>3, SameDates DEF RowStep, RowsElsewhere
<1>2. CASE Disabled(w)
  <2>1. UNCHANGED <<delivery, sent, faults>> /\ At(w, "disable") /\ Leaves(w)
    BY <1>2, CompleteLeaves DEF Disabled, NoFault
  <2>2. RowStays(w, k)
    BY <2>1 DEF RowStays
  <2>3. QED
    BY <2>1, <2>2, SameDates DEF RowStep, RowsElsewhere
<1>3. CASE SendOk(w) \/ SendRefused(w) \/ SendBlocked(w)
  <2>1. /\ UNCHANGED <<job, delivery, faults>> /\ At(w, "send")
        /\ \A j \in Key \ {k} : sent'[j] = sent[j]
    BY <1>3 DEF SendOk, SendRefused, SendBlocked, NoFault, Received, TypeOK, DeliveryTypeOK
  <2>2. MovesTo(w, "markSent") \/ MovesTo(w, "markFailed") \/ MovesTo(w, "markBlocked")
    BY <1>3, <2>1, GotoMoves DEF SendOk, SendRefused, SendBlocked
  <2>3. RowStays(w, k)
    BY <2>1, <2>2 DEF RowStays
  <2>4. QED
    BY <2>1, <2>3, SameDates DEF RowStep, RowsElsewhere
<1>4. QED
  BY <1>1, <1>2, <1>3

(* What a step keeps of one key's receipt, as long as no fault struck it:   *)
(* the invariant, and a row that says SENT.                                 *)
Safe(k) ==
  faults'[k] = 0 => /\ faults[k] = 0 => Receipt(k)' /\ (SaysSent(k) => SaysSent(k)')
                    /\ faults[k] = 0

LEMMA StampLasts ==
  ASSUME TypeOK, TypeOK', TimeGoesOn, Dated, NEW k \in Key, delivery'[k] = delivery[k],
         settings[k[1]].lastAt >= delivery[k].updatedAt
  PROVE  settings'[k[1]].lastAt >= delivery'[k].updatedAt
BY DEF TimeGoesOn, Dated, Key

LEMMA SafeElsewhere ==
  ASSUME TypeOK, TypeOK', LockInv, TimeGoesOn, Dated, NEW w \in Worker, NEW k \in Key,
         OthersStay(w, k), NEW j \in Key \ {k}, faults[j] = 0 => Receipt(j)
  PROVE  Safe(j)
<1> SUFFICES ASSUME faults'[j] = 0
             PROVE  faults[j] = 0 /\ Receipt(j)' /\ (SaysSent(j) => SaysSent(j)')
  BY DEF Safe
<1>1. delivery'[j] = delivery[j] /\ faults[j] = 0 /\ job'[j] = job[j] /\ Receipt(j)
  BY DEF OthersStay
<1>2. \A x \in Worker : worker'[x].pc # "idle" /\ worker'[x].key = j => worker'[x] = worker[x]
  BY DEF OthersStay
<1>3. \A x \in Worker : worker[x].pc # "idle" /\ worker[x].key = j => worker'[x] = worker[x]
  BY DEF OthersStay, On, At
<1>4. \A x \in Worker : On(x, j)' => job'[j].owner = x
  BY <1>1, <1>2 DEF Receipt, On
<1>5. SaysSent(j) => \A x \in Worker : On(x, j)' => worker'[x].pc \in AfterSent
  BY <1>1, <1>2 DEF Receipt, On, SaysSent
<1>6. SaysSent(j) => \/ settings'[j[1]].lastAt >= delivery'[j].updatedAt
                     \/ \E x \in Worker : On(x, j)' /\ At(x, "stampSent")'
  <2> SUFFICES ASSUME SaysSent(j) PROVE \/ settings'[j[1]].lastAt >= delivery'[j].updatedAt
                                        \/ \E x \in Worker : On(x, j)' /\ At(x, "stampSent")'
    OBVIOUS
  <2>1. CASE settings[j[1]].lastAt >= delivery[j].updatedAt
    BY <1>1, <2>1, StampLasts
  <2>2. CASE \E x \in Worker : On(x, j) /\ At(x, "stampSent")
    BY <1>3, <2>2 DEF On, At
  <2>3. QED
    BY <1>1, <2>1, <2>2 DEF Receipt, SaysSent
<1>7. QED
  BY <1>1, <1>4, <1>5, <1>6 DEF Receipt, SaysSent

(* A step that strikes the delivery, or leaves it to its worker.            *)
LEMMA SafeHere ==
  ASSUME TypeOK, TypeOK', LockInv, TimeGoesOn, Dated, NEW w \in Worker, NEW k \in Key, k = KeyOf(w),
         RowStep(w, k), faults' = faults, faults[k] = 0 => Receipt(k)
  PROVE  OthersStay(w, k) /\ Safe(k)
<1> SUFFICES ASSUME faults[k] = 0
             PROVE  OthersStay(w, k) /\ Receipt(k)' /\ (SaysSent(k) => SaysSent(k)')
  <2>1. OthersStay(w, k)
    BY MovesShape, LeavesShape DEF RowStep, RowStays, RowTurns, RowIsSent, Pc
  <2>2. QED
    BY <2>1 DEF Safe
<1>0. On(w, k) /\ job[k].owner = w /\ Receipt(k) /\ k[1] \in User
  BY WorkerFacts DEF RowStep, On, At, KeyOf, Receipt, Key
<1>1. OthersStay(w, k)
  BY MovesShape, LeavesShape DEF RowStep, RowStays, RowTurns, RowIsSent, Pc
<1>2. \A x \in Worker \ {w} : ~On(x, k)'
  BY <1>0, <1>1 DEF OthersStay, Receipt, On
<1>3. (\E pc \in Pc \ {"idle"} : MovesTo(w, pc)) \/ Leaves(w)
  BY DEF RowStep, RowStays, RowTurns, RowIsSent, Pc
<1>4. On(w, k)' => job'[k].owner = w
  BY <1>0, <1>3 DEF MovesTo, Leaves, On
<1>5. \A x \in Worker : On(x, k)' => job'[k].owner = x
  BY <1>2, <1>4
<1>6. CASE RowTurns(w, k)
  <2>1. ~SaysSent(k)
    BY <1>0, <1>6 DEF RowTurns, Receipt, SaysSent
  <2>2. ~SaysSent(k)'
    BY <1>6 DEF RowTurns
  <2>3. QED
    BY <1>1, <1>5, <2>1, <2>2 DEF Receipt, SaysSent
<1>7. CASE RowIsSent(w, k)
  <2>1. SaysSent(k)' /\ worker'[w].pc = "stampSent" /\ worker'[w].key = k
    BY <1>7 DEF RowIsSent, MovesTo
  <2>2. On(w, k)' /\ At(w, "stampSent")'
    BY <2>1 DEF On, At
  <2>3. \A x \in Worker : On(x, k)' => worker'[x].pc \in AfterSent
    BY <1>2, <2>1 DEF AfterSent
  <2>4. QED
    BY <1>1, <1>5, <2>1, <2>2, <2>3 DEF Receipt
<1>8. CASE RowStays(w, k)
  <2>1. delivery' = delivery /\ (SaysSent(k)' <=> SaysSent(k))
    BY <1>8 DEF RowStays, SaysSent
  <2>2. CASE ~SaysSent(k)
    BY <1>1, <1>5, <2>1, <2>2 DEF Receipt, SaysSent
  <2>3. CASE SaysSent(k)
    <3>1. worker[w].pc \in AfterSent
      BY <1>0, <2>3 DEF Receipt, SaysSent
    <3>2. On(w, k)' => worker'[w].pc \in AfterSent
      BY <1>8, <2>3, <3>1 DEF RowStays, MovesTo, Leaves, On
    <3>3. \A x \in Worker : On(x, k)' => worker'[x].pc \in AfterSent
      BY <1>2, <3>2
    <3>4. settings'[k[1]].lastAt >= delivery'[k].updatedAt
      <4>1. CASE At(w, "stampSent")
        <5>1. settings'[k[1]].lastAt = clock
          BY <1>8, <4>1 DEF RowStays
        <5>2. delivery'[k].updatedAt <= clock /\ clock \in Nat /\ delivery'[k].updatedAt \in Nat
          BY <2>1, PreferencesAssumption DEF Dated, TypeOK, PrefTypeOK, DeliveryTypeOK, Row, Time
        <5>3. QED
          BY <5>1, <5>2
      <4>2. CASE ~At(w, "stampSent")
        <5>1. ~\E x \in Worker : On(x, k) /\ At(x, "stampSent")
          BY <1>0, <4>2 DEF Receipt
        <5>2. settings[k[1]].lastAt >= delivery[k].updatedAt
          BY <1>0, <2>3, <5>1 DEF Receipt, SaysSent
        <5>3. QED
          BY <2>1, <5>2, StampLasts
      <4>3. QED
        BY <4>1, <4>2
    <3>5. QED
      BY <1>1, <1>5, <2>1, <2>3, <3>3, <3>4 DEF Receipt
  <2>4. QED
    BY <2>2, <2>3
<1>9. QED
  BY <1>6, <1>7, <1>8 DEF RowStep

LEMMA SafeStruck ==
  ASSUME TypeOK, LockInv, NEW w \in Worker, NEW k \in Key, k = KeyOf(w),
         FaultStep(w) \/ SendTimedOut(w)
  PROVE  OthersStay(w, k) /\ Safe(k) /\ delivery' = delivery
<1> USE DEF At
<1>1. /\ delivery' = delivery /\ ~At(w, "idle") /\ Fault(k)
      /\ \A j \in Key \ {k} : sent'[j] = sent[j]
  BY DEF FaultStep, FailInTry, FailOutsideTry, Crash, LoseLock, SendTimedOut, Received, TypeOK,
     DeliveryTypeOK
<1>2. faults'[k] = faults[k] + 1 /\ faults[k] \in Nat /\ RowsElsewhere(k)
  BY <1>1, FaultFacts DEF RowsElsewhere, TypeOK, DeliveryTypeOK
<1>3. Safe(k)
  BY <1>2 DEF Safe
<1>4. CASE FailInTry(w) \/ SendTimedOut(w)
  <2>1. MovesTo(w, "markFailed")
    BY <1>4, GotoMoves DEF FailInTry, SendTimedOut, Pc
  <2>2. QED
    BY <1>1, <1>2, <1>3, <2>1, MovesShape DEF Pc
<1>5. CASE FailOutsideTry(w)
  <2>1. Leaves(w)
    BY <1>5, CompleteLeaves DEF FailOutsideTry
  <2>2. QED
    BY <1>1, <1>2, <1>3, <2>1, LeavesShape
<1>6. CASE Crash(w)
  <2>1. Leaves(w)
    BY <1>6, WorkerFacts DEF Crash, Leaves, IdleSlot, TypeOK, DeliveryTypeOK, Job
  <2>2. QED
    BY <1>1, <1>2, <1>3, <2>1, LeavesShape
<1>7. CASE LoseLock(w)
  <2>1. worker' = worker /\ \A j \in Key \ {k} : job'[j] = job[j]
    BY <1>7 DEF LoseLock, TypeOK, DeliveryTypeOK
  <2>2. OthersStay(w, k)
    BY <1>1, <1>2, <2>1 DEF OthersStay, On, RowsElsewhere, KeyOf
  <2>3. QED
    BY <1>1, <1>3, <2>2
<1>8. QED
  BY <1>4, <1>5, <1>6, <1>7 DEF FaultStep

LEMMA SafeTake ==
  ASSUME TypeOK, TypeOK', LockInv, TimeGoesOn, Dated, NEW w \in Worker, NEW k \in Key, Take(w, k),
         \A j \in Key : faults[j] = 0 => Receipt(j)
  PROVE  delivery' = delivery /\ \A j \in Key : Safe(j)
<1>1. /\ UNCHANGED <<delivery, sent, faults>> /\ At(w, "idle")
      /\ job'[k].owner = w /\ job[k].state = "waiting"
      /\ \A j \in Key \ {k} : job'[j] = job[j]
      /\ worker'[w].pc = "findUser" /\ worker'[w].key = k
      /\ \A x \in Worker \ {w} : worker'[x] = worker[x]
  BY IdleSlotType DEF Take, NoFault, TypeOK, DeliveryTypeOK, Job, Slot
<1>2. OthersStay(w, k)
  BY <1>1 DEF OthersStay
<1>3. \A j \in Key \ {k} : Safe(j)
  BY <1>2, SafeElsewhere
<1>4. ASSUME faults[k] = 0
      PROVE  Receipt(k)' /\ (SaysSent(k) <=> SaysSent(k)')
  <2>1. \A x \in Worker : ~On(x, k)
    BY <1>1, <1>4 DEF Receipt, LockInv
  <2>2. \A x \in Worker : On(x, k)' => x = w
    BY <1>1, <2>1 DEF On
  <2>3. \A x \in Worker : On(x, k)' => job'[k].owner = x /\ worker'[x].pc \in AfterSent
    BY <1>1, <2>2 DEF AfterSent
  <2>4. SaysSent(k) => settings[k[1]].lastAt >= delivery[k].updatedAt
    BY <1>4, <2>1 DEF Receipt, SaysSent
  <2>5. SaysSent(k) => settings'[k[1]].lastAt >= delivery'[k].updatedAt
    BY <1>1, <2>4, StampLasts
  <2>6. QED
    BY <1>1, <2>3, <2>5 DEF Receipt, SaysSent
<1>5. Safe(k)
  BY <1>1, <1>4 DEF Safe
<1>6. QED
  BY <1>1, <1>3, <1>5

(* Where no worker moves and no job changes hands.                          *)
LEMMA SafeAway ==
  ASSUME TypeOK, TypeOK', TimeGoesOn, Dated, UNCHANGED <<worker, delivery, faults>>,
         \A j \in Key, x \in Worker : job[j].owner = x => job'[j].owner = x,
         \A j \in Key : faults[j] = 0 => Receipt(j)
  PROVE  \A j \in Key : Safe(j)
<1> SUFFICES ASSUME NEW j \in Key, faults[j] = 0
             PROVE  Receipt(j)' /\ (SaysSent(j) <=> SaysSent(j)')
  BY DEF Safe
<1>1. \A x \in Worker : On(x, j)' <=> On(x, j)
  BY DEF On
<1>2. \A x \in Worker : At(x, "stampSent")' <=> At(x, "stampSent")
  BY DEF At
<1>3. \A x \in Worker : On(x, j)' => job'[j].owner = x
  BY <1>1 DEF Receipt
<1>4. SaysSent(j) => \A x \in Worker : On(x, j)' => worker'[x].pc \in AfterSent
  BY <1>1 DEF Receipt, SaysSent
<1>5. SaysSent(j) => \/ settings'[j[1]].lastAt >= delivery'[j].updatedAt
                     \/ \E x \in Worker : On(x, j)' /\ At(x, "stampSent")'
  BY <1>1, <1>2, StampLasts DEF Receipt, SaysSent
<1>6. QED
  BY <1>3, <1>4, <1>5 DEF Receipt, SaysSent

LEMMA DatedStep ==
  ASSUME TypeOK, TypeOK', TimeGoesOn, Dated, RowsDated
  PROVE  Dated'
<1> SUFFICES ASSUME NEW k \in Key PROVE delivery'[k].updatedAt <= clock'
  BY DEF Dated
<1>1. /\ clock \in Nat /\ clock' \in Nat /\ delivery[k].updatedAt \in Nat
      /\ delivery'[k].updatedAt \in Nat
  BY PreferencesAssumption DEF TypeOK, PrefTypeOK, DeliveryTypeOK, Row, Time
<1>2. QED
  BY <1>1 DEF Dated, RowsDated, TimeGoesOn

LEMMA ReceiptInit == Init => ReceiptInv
<1> SUFFICES ASSUME Init PROVE ReceiptInv
  OBVIOUS
<1>1. \A k \in Key : delivery[k].updatedAt = 0 /\ delivery[k].status = "absent"
  BY DEF Init, NoRow
<1>2. \A w \in Worker : worker[w].pc = "idle"
  BY DEF Init, IdleSlot
<1>3. clock = 0
  BY DEF Init, PrefInit
<1>4. QED
  BY <1>1, <1>2, <1>3, IInvInit DEF ReceiptInv, Dated, Receipt, On

LEMMA ReceiptStep == ReceiptInv /\ [Next]_vars => ReceiptInv' /\ \A k \in Key : Safe(k)
<1> SUFFICES ASSUME ReceiptInv, [Next]_vars PROVE ReceiptInv' /\ \A k \in Key : Safe(k)
  OBVIOUS
<1>1. /\ TypeOK /\ LockInv /\ TypeOK' /\ IInv' /\ TimeGoesOn /\ Dated
      /\ \A k \in Key : faults[k] = 0 => Receipt(k)
  BY IInvStep, TimeStep DEF ReceiptInv, IInv
<1>2. ASSUME RowsDated, \A k \in Key : Safe(k)
      PROVE  ReceiptInv'
  BY <1>1, <1>2, DatedStep DEF ReceiptInv, Safe
<1>3. ASSUME NEW w \in Worker, NEW k \in Key, OthersStay(w, k), Safe(k), RowsDated
      PROVE  RowsDated /\ \A j \in Key : Safe(j)
  BY <1>1, <1>3, SafeElsewhere
<1>4. ASSUME NEW w \in Worker, DeliverStep(w) \/ FaultStep(w)
      PROVE  RowsDated /\ \A j \in Key : Safe(j)
  <2>1. PICK k \in Key : k = KeyOf(w)
    BY <1>1, WorkerFacts
  <2>2. CASE FaultStep(w) \/ SendTimedOut(w)
    BY <1>1, <1>3, <2>1, <2>2, SafeStruck, SameDates
  <2>3. CASE ~(FaultStep(w) \/ SendTimedOut(w))
    <3>1. RowStep(w, k)
      BY <1>1, <1>4, <2>1, <2>3, ClaimRows, OutcomeRows, SettleRows DEF DeliverStep
    <3>2. faults' = faults
      BY <1>4, <2>3 DEF DeliverStep, FindUser, CreateRow, ReadRow, ReclaimRow, UpsertInbox,
         MarkUnwritable, MarkSent, Mark, Stamp, MarkFailed, MarkBlocked, Disabled, SendOk,
         SendRefused, SendBlocked, NoFault
    <3>3. OthersStay(w, k) /\ Safe(k)
      BY <1>1, <2>1, <3>1, <3>2, SafeHere
    <3>4. QED
      BY <1>3, <3>1, <3>3 DEF RowStep
  <2>4. QED
    BY <2>2, <2>3
<1>5. ASSUME NEW w \in Worker, NEW k \in Key, Take(w, k)
      PROVE  RowsDated /\ \A j \in Key : Safe(j)
  BY <1>1, <1>5, SafeTake, SameDates
<1>6. ASSUME ScanStep \/ \E k \in Key : QueueStep(k)
      PROVE  RowsDated /\ \A j \in Key : Safe(j)
  <2>0. PICK k \in Key : OwnerlessMove(k)
    BY <1>1, <1>6, ScanMoves, QueueMoves
  <2>1. /\ UNCHANGED <<worker, delivery, faults>>
        /\ \A j \in Key, x \in Worker : job[j].owner = x => job'[j].owner = x
    BY <1>1, <2>0, OwnerlessLedger DEF OwnerlessMove
  <2>2. QED
    BY <1>1, <2>1, SafeAway, SameDates
<1>7. CASE UNCHANGED <<worker, job, delivery, faults>>
  <2>1. \A j \in Key, x \in Worker : job[j].owner = x => job'[j].owner = x
    BY <1>7
  <2>2. QED
    BY <1>1, <1>2, <1>7, <2>1, SafeAway, SameDates
<1>8. PreferenceStep \/ UNCHANGED vars
        => UNCHANGED <<worker, job, delivery, faults>>
  BY DEF PreferenceStep, vars, deliveryVars
<1>9. QED
  BY <1>2, <1>4, <1>5, <1>6, <1>7, <1>8 DEF Next

(* When the job of a sent reminder is gone and no fault struck it, the      *)
(* user's lastAyatReminderAt is that sending's or a later one's: the two    *)
(* days to the next reminder are never counted from before it.              *)
THEOREM SentIsAlwaysStamped == Spec => []SentIsStamped
<1>1. ReceiptInv => SentIsStamped
  <2> SUFFICES ASSUME ReceiptInv, NEW k \in Key, delivery[k].status = "SENT", faults[k] = 0,
                      job[k].state = "none"
               PROVE  settings[k[1]].lastAt >= delivery[k].updatedAt
    BY DEF SentIsStamped
  <2>1. \A w \in Worker : ~On(w, k)
    BY DEF ReceiptInv, Receipt, IInv, LockInv
  <2>2. QED
    BY <2>1 DEF ReceiptInv, Receipt
<1>2. QED
  BY <1>1, ReceiptInit, ReceiptStep, PTL DEF Spec

(* A row that says SENT is final: no attempt, scan, eviction or reclaim     *)
(* reopens a delivery that no fault struck, whatever its workers have read. *)
THEOREM ReceiptsAreFinal == Spec => ReceiptStands
<1>1. ReceiptInv /\ [Next]_vars
        => [\A k \in Key : delivery[k].status = "SENT" /\ faults'[k] = 0
                             => delivery'[k].status = "SENT"]_vars
  BY ReceiptStep DEF Safe, SaysSent
<1>2. QED
  BY <1>1, ReceiptInit, ReceiptStep, PTL DEF Spec, ReceiptStands
============================================================================
