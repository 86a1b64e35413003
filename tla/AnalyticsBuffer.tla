--------------------------- MODULE AnalyticsBuffer ---------------------------
(***************************************************************************)
(* Server-side analytics: track() pushes an event on a Redis list and asks *)
(* BullMQ for one delayed flush job per time bucket; a flush takes a batch *)
(* off the list, inserts it in chunks and puts it back when that fails.    *)
(* Each action is one Redis command, one insert or one call of the queue,  *)
(* so that requests, flushes, the list's expiry, failures and crashes      *)
(* interleave.                                                             *)
(***************************************************************************)
EXTENDS Integers, FiniteSets, Sequences, Functions

CONSTANTS
  MaxEvents,      \* bound on the events that are tracked, each by a call of its own
  MaxCalls,       \* bound on the calls under way at a time
  Worker,         \* slots of the flush queue's workers
  None,           \* no worker holds the job
  FlushMaxBatch,  \* most events a flush takes
  ChunkSize,      \* events inserted by one statement
  BufferTtl,      \* buckets the list lives since it was last touched
  MaxAttempts,    \* attempts of a flush job
  MaxStalls,      \* how often BullMQ puts a stalled job back
  MaxClock,       \* bound on the clock, in buckets of flushDelayMs
  MaxFaults       \* bound on failures, crashes and lost locks

ASSUME AnalyticsAssumption ==
  /\ MaxEvents \in Nat /\ MaxCalls \in Nat /\ None \notin Worker
  /\ FlushMaxBatch \in Nat \ {0} /\ ChunkSize \in Nat \ {0} /\ BufferTtl \in Nat \ {0}
  /\ MaxAttempts \in Nat \ {0} /\ MaxStalls \in Nat
  /\ MaxClock \in Nat \ {0} /\ MaxFaults \in Nat

VARIABLES
  clock,
  buffer,    \* the Redis list, oldest first
  deadline,  \* when Redis drops the list
  stored,    \* AnalyticsEvent rows: the idempotency key is unique
  tracker,   \* where the call that tracks each event is
  job,       \* the flush job of each bucket
  flush,     \* where each worker is, and the batch it has taken
  lost,      \* events given up, as the code allows
  stranded,  \* events left on the list by a flush, a job or a call that ended
  faultsLeft

vars == <<clock, buffer, deadline, stored, tracker, job, flush, lost, stranded, faultsLeft>>

(* Events are numbered in the order their calls reach the list.            *)
Event == 1..MaxEvents
Time == 0..MaxClock
Bucket == 0..MaxClock - 1
Never == -1

(* The next command of track(). *)
TrackPc == {"idle", "expire", "length", "trim", "add", "fallback", "done"}
JobState == {"none", "delayed", "active", "failed"}
Job == [state: JobState, attempts: 0..MaxAttempts, stalls: 0..MaxStalls,
        owner: Worker \union {None}]
NoJob == [state |-> "none", attempts |-> 0, stalls |-> 0, owner |-> None]

(* The next command of flushBuffer. *)
FlushPc == {"idle", "take", "insert", "restore", "expire"}
Slot == [pc: FlushPc, bucket: Bucket, batch: Seq(Event), inserted: Nat]
IdleSlot == [pc |-> "idle", bucket |-> 0, batch |-> <<>>, inserted |-> 0]

TypeOK ==
  /\ clock \in Time
  /\ buffer \in Seq(Event)
  /\ deadline \in Time \union {Never}
  /\ stored \subseteq Event /\ lost \subseteq Event /\ stranded \subseteq Event
  /\ tracker \in [Event -> TrackPc]
  /\ job \in [Bucket -> Job]
  /\ flush \in [Worker -> Slot]
  /\ \A w \in Worker : Len(flush[w].batch) <= FlushMaxBatch
  /\ faultsLeft \in 0..MaxFaults

Init ==
  /\ clock = 0
  /\ buffer = <<>>
  /\ deadline = Never
  /\ stored = {} /\ lost = {} /\ stranded = {}
  /\ tracker = [e \in Event |-> "idle"]
  /\ job = [b \in Bucket |-> NoJob]
  /\ flush = [w \in Worker |-> IdleSlot]
  /\ faultsLeft = MaxFaults

----------------------------------------------------------------------------
Fault == faultsLeft > 0 /\ faultsLeft' = faultsLeft - 1
NoFault == UNCHANGED faultsLeft
Unsaved(events) == events \ stored
InBatch(e) == \E w \in Worker : e \in Range(flush[w].batch)

(* A list that becomes empty is gone, and its expiry with it.              *)
SetBuffer(events) ==
  /\ buffer' = events
  /\ deadline' = IF events = <<>> THEN Never ELSE deadline

Touch ==
  LET due == IF clock + BufferTtl <= MaxClock THEN clock + BufferTtl ELSE Never IN
  deadline' = IF buffer = <<>> THEN Never ELSE due

----------------------------------------------------------------------------
(* track() *)

TrackAt(e, pc) == tracker[e] = pc
TrackTo(e, pc) == tracker' = [tracker EXCEPT ![e] = pc]

UnderWay == {e \in Event : tracker[e] \notin {"idle", "done"}}
Arrives(e) ==
  /\ \A f \in Event : TrackAt(f, "idle") <=> f >= e
  /\ Cardinality(UnderWay) < MaxCalls
  /\ clock < MaxClock

Track(e) ==
  /\ Arrives(e)
  /\ SetBuffer(Append(buffer, e))
  /\ TrackTo(e, "expire")
  /\ UNCHANGED <<clock, stored, job, flush, lost, stranded>> /\ NoFault

Expire(e) ==
  /\ TrackAt(e, "expire")
  /\ Touch
  /\ TrackTo(e, "length")
  /\ UNCHANGED <<clock, buffer, stored, job, flush, lost, stranded>> /\ NoFault

Length(e) ==
  /\ TrackAt(e, "length")
  /\ TrackTo(e, IF Len(buffer) > FlushMaxBatch * 2 THEN "trim" ELSE "add")
  /\ UNCHANGED <<clock, buffer, deadline, stored, job, flush, lost, stranded>> /\ NoFault

\* the newest are kept
Newest(s, n) == SubSeq(s, IF Len(s) > n THEN Len(s) - n + 1 ELSE 1, Len(s))

Trim(e) ==
  LET kept == Newest(buffer, FlushMaxBatch) IN
  /\ TrackAt(e, "trim")
  /\ SetBuffer(kept)
  /\ lost' = lost \union Unsaved(Range(buffer) \ Range(kept))
  /\ TrackTo(e, "add")
  /\ UNCHANGED <<clock, stored, job, flush, stranded>> /\ NoFault

\* a job whose id is known to the queue is not added again
WithFlushJob ==
  IF job[clock].state = "none" THEN [job EXCEPT ![clock] = [NoJob EXCEPT !.state = "delayed"]]
  ELSE job

AddFlushJob(e) ==
  /\ TrackAt(e, "add")
  /\ job' = WithFlushJob
  /\ stranded' = {}
  /\ TrackTo(e, "done")
  /\ UNCHANGED <<clock, buffer, deadline, stored, flush, lost>> /\ NoFault

\* a command fails; one that took effect and was not acknowledged is the next that fails
TrackFails(e) ==
  /\ Arrives(e) \/ tracker[e] \in {"expire", "length", "trim", "add"}
  /\ Fault
  /\ TrackTo(e, "fallback")
  /\ job' \in IF TrackAt(e, "add") THEN {job, WithFlushJob} ELSE {job}
  /\ UNCHANGED <<clock, buffer, deadline, stored, flush, lost, stranded>>

Fallback(e) ==
  /\ TrackAt(e, "fallback")
  /\ stored' = stored \union {e}
  /\ TrackTo(e, "done")
  /\ UNCHANGED <<clock, buffer, deadline, job, flush, lost, stranded>> /\ NoFault

\* the insert fails too and is logged, or the process dies
TrackEnds(e) ==
  /\ tracker[e] \notin {"idle", "done"}
  /\ Fault
  /\ lost' = IF e \in Range(buffer) \/ InBatch(e) THEN lost ELSE lost \union Unsaved({e})
  /\ stranded' = stranded \union {e}
  /\ TrackTo(e, "done")
  /\ UNCHANGED <<clock, buffer, deadline, stored, job, flush>>

----------------------------------------------------------------------------
(* flushBuffer, run for the job of a bucket. *)

FlushAt(w, pc) == flush[w].pc = pc
BucketOf(w) == flush[w].bucket
Owns(w) == job[BucketOf(w)].owner = w
Idle(w) == flush' = [flush EXCEPT ![w] = IdleSlot]

\* a result from a worker that has lost the job's lock changes nothing
Complete(w) ==
  /\ Idle(w)
  /\ job' = IF Owns(w) THEN [job EXCEPT ![BucketOf(w)] = NoJob] ELSE job

Retried(j) ==
  [j EXCEPT !.state = IF j.attempts + 1 < MaxAttempts THEN "delayed" ELSE "failed",
            !.attempts = @ + 1, !.owner = None]

\* what is on the list once the attempt has failed may have no job any more
FailAttempt(w, left) ==
  /\ Idle(w)
  /\ job' = IF Owns(w) THEN [job EXCEPT ![BucketOf(w)] = Retried(@)] ELSE job
  /\ stranded' = stranded \union left

\* mutant: the job is not delayed
TakeJobAtOnce(w, b) ==
  /\ FlushAt(w, "idle")
  /\ job[b].state = "delayed"
  /\ job' = [job EXCEPT ![b].state = "active", ![b].owner = w]
  /\ flush' = [flush EXCEPT ![w] = [IdleSlot EXCEPT !.pc = "take", !.bucket = b]]
  /\ UNCHANGED <<clock, buffer, deadline, stored, tracker, lost, stranded>> /\ NoFault

\* the delay is the length of a bucket
TakeJob(w, b) ==
  /\ FlushAt(w, "idle")
  /\ job[b].state = "delayed"
  /\ clock > b
  /\ job' = [job EXCEPT ![b].state = "active", ![b].owner = w]
  /\ flush' = [flush EXCEPT ![w] = [IdleSlot EXCEPT !.pc = "take", !.bucket = b]]
  /\ UNCHANGED <<clock, buffer, deadline, stored, tracker, lost, stranded>> /\ NoFault

\* mutant: a flush empties the list
WholeList == Len(buffer)

BatchSize == IF Len(buffer) < FlushMaxBatch THEN Len(buffer) ELSE FlushMaxBatch

Batch == SubSeq(buffer, 1, BatchSize)
Rest == SubSeq(buffer, BatchSize + 1, Len(buffer))

\* the Lua script
TakeBatch(w) ==
  /\ FlushAt(w, "take")
  /\ SetBuffer(Rest)
  /\ stranded' = stranded \union Range(Rest)
  /\ IF Batch = <<>> THEN Complete(w)
     ELSE /\ flush' = [flush EXCEPT ![w].pc = "insert", ![w].batch = Batch]
          /\ UNCHANGED job
  /\ UNCHANGED <<clock, stored, tracker, lost>> /\ NoFault

Chunk(w) ==
  LET r == flush[w]
      end == IF r.inserted + ChunkSize < Len(r.batch) THEN r.inserted + ChunkSize ELSE Len(r.batch)
  IN SubSeq(r.batch, r.inserted + 1, end)

InsertChunk(w) ==
  LET inserted == flush[w].inserted + Len(Chunk(w)) IN
  /\ FlushAt(w, "insert")
  /\ stored' = stored \union Range(Chunk(w))
  /\ IF inserted = Len(flush[w].batch) THEN Complete(w)
     ELSE flush' = [flush EXCEPT ![w].inserted = inserted] /\ UNCHANGED job
  /\ UNCHANGED <<clock, buffer, deadline, tracker, lost, stranded>> /\ NoFault

\* rows that stand after a statement that may have been committed before it failed
MayHaveStored(w) ==
  IF FlushAt(w, "insert") THEN {stored, stored \union Range(Chunk(w))} ELSE {stored}

InsertFails(w) ==
  /\ FlushAt(w, "insert")
  /\ Fault
  /\ stored' \in MayHaveStored(w)
  /\ flush' = [flush EXCEPT ![w].pc = "restore"]
  /\ UNCHANGED <<clock, buffer, deadline, tracker, job, lost, stranded>>

\* mutant: only the chunk that failed is put back
RestoreChunk(w) ==
  /\ FlushAt(w, "restore")
  /\ SetBuffer(Chunk(w) \o buffer)
  /\ flush' = [flush EXCEPT ![w] = [IdleSlot EXCEPT !.pc = "expire", !.bucket = BucketOf(w)]]
  /\ stranded' = stranded \union Range(buffer')
  /\ UNCHANGED <<clock, stored, tracker, job, lost>> /\ NoFault

\* reversed and pushed at the head, the batch stands as it did
Restore(w) ==
  /\ FlushAt(w, "restore")
  /\ SetBuffer(flush[w].batch \o buffer)
  /\ flush' = [flush EXCEPT ![w] = [IdleSlot EXCEPT !.pc = "expire", !.bucket = BucketOf(w)]]
  /\ stranded' = stranded \union Range(buffer')
  /\ UNCHANGED <<clock, stored, tracker, job, lost>> /\ NoFault

ExpireRestored(w) ==
  /\ FlushAt(w, "expire")
  /\ Touch
  /\ FailAttempt(w, Range(buffer))
  /\ UNCHANGED <<clock, buffer, stored, tracker, lost>> /\ NoFault

\* Redis fails, before or after it has run the script or the push
RedisFails(w) ==
  /\ flush[w].pc \in {"take", "restore", "expire"}
  /\ Fault
  /\ \E rest \in IF FlushAt(w, "take") THEN {buffer, Rest} ELSE {buffer} :
       /\ SetBuffer(rest)
       /\ lost' = lost \union Unsaved((Range(flush[w].batch) \union Range(buffer)) \ Range(rest))
       /\ FailAttempt(w, Range(rest))
  /\ UNCHANGED <<clock, stored, tracker>>

Crash(w) ==
  /\ ~FlushAt(w, "idle")
  /\ Fault
  /\ stored' \in MayHaveStored(w)
  /\ lost' = lost \union (Range(flush[w].batch) \ (Range(buffer) \union stored'))
  /\ Idle(w)
  /\ job' = IF Owns(w) THEN [job EXCEPT ![BucketOf(w)].owner = None] ELSE job
  /\ UNCHANGED <<clock, buffer, deadline, tracker, stranded>>

LoseLock(w) ==
  /\ ~FlushAt(w, "idle")
  /\ Owns(w)
  /\ Fault
  /\ job' = [job EXCEPT ![BucketOf(w)].owner = None]
  /\ UNCHANGED <<clock, buffer, deadline, stored, tracker, flush, lost, stranded>>

Recovered(j) ==
  IF j.stalls < MaxStalls THEN [j EXCEPT !.state = "delayed", !.stalls = @ + 1]
  ELSE [j EXCEPT !.state = "failed"]

\* BullMQ's stalled-job check puts the job back, to be taken at once
RecoverStalled(b) ==
  /\ job[b].state = "active" /\ job[b].owner = None
  /\ job' = [job EXCEPT ![b] = Recovered(@)]
  /\ stranded' = stranded \union Range(buffer)
  /\ UNCHANGED <<clock, buffer, deadline, stored, tracker, flush, lost>> /\ NoFault

----------------------------------------------------------------------------
\* Redis drops a list that nobody has touched for long enough
ExpireBuffer ==
  /\ buffer # <<>>
  /\ deadline # Never /\ deadline <= clock
  /\ lost' = lost \union Unsaved(Range(buffer))
  /\ SetBuffer(<<>>)
  /\ UNCHANGED <<clock, stored, tracker, job, flush, stranded>> /\ NoFault

\* the last bucket ends the model: no call is under way when it begins
Tick ==
  /\ clock < MaxClock
  /\ clock + 1 = MaxClock => UnderWay = {}
  /\ clock' = clock + 1
  /\ UNCHANGED <<buffer, deadline, stored, tracker, job, flush, lost, stranded>> /\ NoFault

TrackStep(e) ==
  Expire(e) \/ Length(e) \/ Trim(e) \/ AddFlushJob(e) \/ Fallback(e)

FlushStep(w) == TakeBatch(w) \/ InsertChunk(w) \/ Restore(w) \/ ExpireRestored(w)

FaultStep ==
  \/ \E e \in Event : TrackFails(e) \/ TrackEnds(e)
  \/ \E w \in Worker : InsertFails(w) \/ RedisFails(w) \/ Crash(w) \/ LoseLock(w)

Next ==
  \/ \E e \in Event : Track(e) \/ TrackStep(e)
  \/ \E w \in Worker : FlushStep(w) \/ \E b \in Bucket : TakeJob(w, b)
  \/ \E b \in Bucket : RecoverStalled(b)
  \/ FaultStep
  \/ ExpireBuffer
  \/ Tick

Spec == Init /\ [][Next]_vars

----------------------------------------------------------------------------
(* Every event that was tracked is somewhere: on its way, on the list, in  *)
(* a batch, stored, or given up by the trimming, the expiry or a fault.    *)
NothingVanishes ==
  \A e \in Event :
    tracker[e] \in {"expire", "length", "trim", "add", "done"}
      => e \in Range(buffer) \union stored \union lost \/ InBatch(e)

(* An event that waits on the list has a flush coming that has yet to take *)
(* its batch, unless its call has not asked for one yet, or more than a    *)
(* batch was waiting, or an attempt, a worker or its call has failed.      *)
FlushComing ==
  \E b \in Bucket :
    \/ job[b].state = "delayed"
    \/ job[b].state = "active" /\ job[b].owner = None
    \/ \E w \in Worker : job[b].owner = w /\ FlushAt(w, "take")

FlushIsComing ==
  \A e \in Range(buffer) \ (stored \union stranded) :
    FlushComing \/ tracker[e] \in {"expire", "length", "trim", "add", "fallback"}
=============================================================================
