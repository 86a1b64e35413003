----------------------------- MODULE ActivityProofs -----------------------------
(***************************************************************************)
(* Proofs about AnalyticsBuffer and ReadingStats, for every number of      *)
(* events, calls and workers and every value of the batch, the chunk and   *)
(* the other bounds, and for every number of days, ayahs and opens; those  *)
(* about ReadingGoals are in ReadingProofs.                                *)
(***************************************************************************)
EXTENDS MCActivity, ReadingProofs, SequenceTheorems, FiniteSetTheorems, WellFoundedInduction, TLAPS

----------------------------------------------------------------------------
(* What the list commands do to the set of events on the list.             *)

LEMMA RangeElements ==
  ASSUME NEW S, NEW s \in Seq(S)
  PROVE  /\ Range(s) \subseteq S
         /\ \A x : x \in Range(s) <=> \E i \in 1..Len(s) : s[i] = x
<1>1. DOMAIN s = 1..Len(s) /\ \A i \in 1..Len(s) : s[i] \in S
  BY LenProperties
<1>2. QED
  BY <1>1 DEF Range

LEMMA RangeOfEmpty == Range(<<>>) = {}
BY DEF Range

LEMMA RangeOfAppend ==
  ASSUME NEW S, NEW s \in Seq(S), NEW e \in S
  PROVE  Append(s, e) \in Seq(S) /\ Range(Append(s, e)) = Range(s) \union {e}
<1> DEFINE t == Append(s, e)
<1>1. /\ t \in Seq(S) /\ Len(t) = Len(s) + 1 /\ Len(s) \in Nat
      /\ \A i \in 1..Len(s) : t[i] = s[i]
      /\ t[Len(s) + 1] = e
  BY AppendProperties, LenProperties
<1> HIDE DEF t
<1>2. \A x : x \in Range(t) => x \in Range(s) \union {e}
  BY <1>1, RangeElements
<1>3. \A x : x \in Range(s) \union {e} => x \in Range(t)
  BY <1>1, RangeElements
<1>4. t \in Seq(S) /\ Range(t) = Range(s) \union {e}
  BY <1>1, <1>2, <1>3
<1>5. QED
  BY <1>4 DEF t

LEMMA RangeOfConcat ==
  ASSUME NEW S, NEW s \in Seq(S), NEW u \in Seq(S)
  PROVE  s \o u \in Seq(S) /\ Range(s \o u) = Range(s) \union Range(u)
<1> DEFINE t == s \o u
<1>1. /\ t \in Seq(S) /\ Len(t) = Len(s) + Len(u) /\ Len(s) \in Nat /\ Len(u) \in Nat
      /\ \A i \in 1..Len(s) + Len(u) : t[i] = IF i <= Len(s) THEN s[i] ELSE u[i - Len(s)]
  BY ConcatProperties, LenProperties
<1> HIDE DEF t
<1>2. \A x : x \in Range(t) => x \in Range(s) \union Range(u)
  <2> SUFFICES ASSUME NEW i \in 1..Len(t) PROVE t[i] \in Range(s) \union Range(u)
    BY <1>1, RangeElements
  <2>1. CASE i <= Len(s)
    BY <1>1, <2>1, RangeElements
  <2>2. CASE i > Len(s)
    <3>1. i - Len(s) \in 1..Len(u) /\ t[i] = u[i - Len(s)]
      BY <1>1, <2>2
    <3>2. QED
      BY <3>1, RangeElements
  <2>3. QED
    BY <1>1, <2>1, <2>2
<1>3. \A x : x \in Range(s) => x \in Range(t)
  <2> SUFFICES ASSUME NEW i \in 1..Len(s) PROVE s[i] \in Range(t)
    BY RangeElements
  <2>1. i \in 1..Len(t) /\ t[i] = s[i]
    BY <1>1
  <2>2. QED
    BY <1>1, <2>1, RangeElements
<1>4. \A x : x \in Range(u) => x \in Range(t)
  <2> SUFFICES ASSUME NEW i \in 1..Len(u) PROVE u[i] \in Range(t)
    BY RangeElements
  <2> DEFINE j == Len(s) + i
  <2>1. /\ i \in Nat /\ j \in 1..Len(t) /\ j \in 1..Len(s) + Len(u) /\ ~(j <= Len(s))
        /\ j - Len(s) = i
    BY <1>1
  <2> HIDE DEF j
  <2>2. t[j] = u[i]
    BY <1>1, <2>1
  <2>3. QED
    BY <1>1, <2>1, <2>2, RangeElements
<1>5. t \in Seq(S) /\ Range(t) = Range(s) \union Range(u)
  BY <1>1, <1>2, <1>3, <1>4
<1>6. QED
  BY <1>5 DEF t

LEMMA PartOfSeq ==
  ASSUME NEW S, NEW s \in Seq(S), NEW m \in Nat \ {0}, NEW n \in Nat, n <= Len(s)
  PROVE  /\ SubSeq(s, m, n) \in Seq(S)
         /\ Len(SubSeq(s, m, n)) = IF m <= n THEN n - m + 1 ELSE 0
         /\ \A i \in 1..n - m + 1 : SubSeq(s, m, n)[i] = s[m + i - 1]
         /\ \A x : x \in Range(SubSeq(s, m, n)) <=> \E i \in m..n : s[i] = x
<1>1. Len(s) \in Nat /\ \A i \in 1..Len(s) : s[i] \in S
  BY LenProperties
<1>2. \A i \in m..n : s[i] \in S
  BY <1>1
<1> DEFINE t == SubSeq(s, m, n)
<1>3. /\ t \in Seq(S)
      /\ Len(t) = IF m <= n THEN n - m + 1 ELSE 0
      /\ \A i \in 1..n - m + 1 : t[i] = s[m + i - 1]
  BY <1>2, SubSeqProperties
<1> HIDE DEF t
<1>4. \A i \in 1..Len(t) : m + i - 1 \in m..n /\ t[i] = s[m + i - 1]
  BY <1>3
<1>5. ASSUME NEW i \in m..n PROVE i - m + 1 \in 1..Len(t) /\ t[i - m + 1] = s[i]
  <2>1. i \in Int /\ m <= i /\ i <= n /\ m <= n
    BY <1>1
  <2>2. i - m + 1 \in 1..n - m + 1 /\ m + (i - m + 1) - 1 = i
    BY <2>1
  <2>3. t[i - m + 1] = s[m + (i - m + 1) - 1] /\ Len(t) = n - m + 1
    BY <1>3, <2>1, <2>2
  <2>4. QED
    BY <2>2, <2>3
<1>6. \A x : x \in Range(t) <=> \E i \in m..n : s[i] = x
  <2>1. \A x : x \in Range(t) <=> \E i \in 1..Len(t) : t[i] = x
    BY <1>3, RangeElements
  <2>2. ASSUME NEW i \in 1..Len(t)
        PROVE  \E j \in m..n : s[j] = t[i]
    BY <1>4
  <2>3. ASSUME NEW i \in m..n
        PROVE  \E j \in 1..Len(t) : t[j] = s[i]
    BY <1>5
  <2>4. QED
    BY <2>1, <2>2, <2>3
<1>7. QED
  BY <1>3, <1>6 DEF t

(* A batch and the rest are the list.                                      *)
LEMMA SplitOfSeq ==
  ASSUME NEW S, NEW s \in Seq(S), NEW n \in Nat, n <= Len(s)
  PROVE  /\ SubSeq(s, 1, n) \in Seq(S) /\ Len(SubSeq(s, 1, n)) = n
         /\ SubSeq(s, n + 1, Len(s)) \in Seq(S)
         /\ Range(s) = Range(SubSeq(s, 1, n)) \union Range(SubSeq(s, n + 1, Len(s)))
<1>1. Len(s) \in Nat
  BY LenProperties
<1>2. /\ SubSeq(s, 1, n) \in Seq(S) /\ Len(SubSeq(s, 1, n)) = n
      /\ \A x : x \in Range(SubSeq(s, 1, n)) <=> \E i \in 1..n : s[i] = x
  BY PartOfSeq
<1>3. /\ SubSeq(s, n + 1, Len(s)) \in Seq(S)
      /\ \A x : x \in Range(SubSeq(s, n + 1, Len(s))) <=> \E i \in n + 1..Len(s) : s[i] = x
  BY <1>1, PartOfSeq
<1>4. \A i : i \in 1..Len(s) <=> i \in 1..n \/ i \in n + 1..Len(s)
  BY <1>1
<1>5. \A x : x \in Range(s) <=> \E i \in 1..Len(s) : s[i] = x
  BY RangeElements
<1>6. QED
  BY <1>2, <1>3, <1>4, <1>5

LEMMA NewestFacts ==
  ASSUME NEW S, NEW s \in Seq(S), NEW n \in Nat
  PROVE  Newest(s, n) \in Seq(S) /\ Range(Newest(s, n)) \subseteq Range(s)
<1> DEFINE m == IF Len(s) > n THEN Len(s) - n + 1 ELSE 1
<1>1. Len(s) \in Nat /\ m \in Nat \ {0}
  BY LenProperties
<1>2. /\ SubSeq(s, m, Len(s)) \in Seq(S)
      /\ \A x : x \in Range(SubSeq(s, m, Len(s))) <=> \E i \in m..Len(s) : s[i] = x
  BY <1>1, PartOfSeq
<1>3. \A x : x \in Range(s) <=> \E i \in 1..Len(s) : s[i] = x
  BY RangeElements
<1>4. QED
  BY <1>1, <1>2, <1>3 DEF Newest

----------------------------------------------------------------------------
(* The inductive invariant.  A worker holds the lock only of the job it     *)
(* runs; a job that may run has attempts left, and the job of a bucket that *)
(* is not over has not run; what a flush counts as inserted is stored; and  *)
(* no call is under way in the last bucket.                                 *)

LockHeld ==
  \A b \in Bucket, w \in Worker :
    job[b].owner = w => job[b].state = "active" /\ flush[w].pc # "idle" /\ flush[w].bucket = b

JobSound(j, b) ==
  /\ j.state \in {"delayed", "active"} => j.attempts < MaxAttempts
  /\ b >= clock => j.state \in {"none", "delayed"}
JobsSound == \A b \in Bucket : JobSound(job[b], b)

SlotSound(r, rows) ==
  /\ Len(r.batch) <= FlushMaxBatch
  /\ r.pc \notin {"insert", "restore"} => r.batch = <<>> /\ r.inserted = 0
  /\ r.pc = "insert" => /\ r.inserted <= Len(r.batch)
                        /\ \A i \in 1..r.inserted : r.batch[i] \in rows
SlotsSound == \A w \in Worker : SlotSound(flush[w], stored)

CallsEnd == clock = MaxClock => UnderWay = {}

Sound == TypeOK /\ LockHeld /\ JobsSound /\ SlotsSound /\ CallsEnd

----------------------------------------------------------------------------
(* Types of what the commands write. *)

Constants ==
  /\ MaxEvents \in Nat /\ MaxCalls \in Nat /\ None \notin Worker
  /\ FlushMaxBatch \in Nat /\ FlushMaxBatch > 0 /\ ChunkSize \in Nat /\ ChunkSize > 0
  /\ BufferTtl \in Nat /\ BufferTtl > 0 /\ MaxAttempts \in Nat /\ MaxAttempts > 0
  /\ MaxStalls \in Nat /\ MaxClock \in Nat /\ MaxClock > 0 /\ MaxFaults \in Nat

LEMMA ConstantsHold == Constants
BY AnalyticsAssumption DEF Constants

LEMMA NoJobType == NoJob \in Job /\ NoJob.owner = None /\ NoJob.state = "none"
BY ConstantsHold DEF Constants, NoJob, Job, JobState

LEMMA DelayedType ==
  /\ [NoJob EXCEPT !.state = "delayed"] \in Job
  /\ [NoJob EXCEPT !.state = "delayed"].owner = None
  /\ [NoJob EXCEPT !.state = "delayed"].state = "delayed"
  /\ [NoJob EXCEPT !.state = "delayed"].attempts = 0
BY ConstantsHold DEF Constants, NoJob, Job, JobState

LEMMA IdleSlotType ==
  /\ IdleSlot \in Slot /\ IdleSlot.pc = "idle" /\ IdleSlot.batch = <<>>
  /\ \A rows : SlotSound(IdleSlot, rows)
<1>1. <<>> \in Seq(Event) /\ Len(<<>>) = 0
  BY EmptySeq
<1>2. 0 \in Bucket
  BY ConstantsHold DEF Constants, Bucket
<1>3. QED
  BY <1>1, <1>2, ConstantsHold DEF Constants, IdleSlot, Slot, FlushPc, SlotSound

LEMMA BufferType ==
  ASSUME TypeOK, NEW s \in Seq(Event), SetBuffer(s)
  PROVE  buffer' \in Seq(Event) /\ deadline' \in Time \union {Never}
BY DEF SetBuffer, TypeOK

LEMMA TouchType ==
  ASSUME TypeOK, Touch
  PROVE  deadline' \in Time \union {Never}
<1>1. clock + BufferTtl <= MaxClock => clock + BufferTtl \in Time
  BY ConstantsHold DEF Constants, TypeOK, Time
<1>2. QED
  BY <1>1 DEF Touch

LEMMA FaultType ==
  ASSUME TypeOK, Fault \/ NoFault
  PROVE  faultsLeft' \in 0..MaxFaults
BY ConstantsHold DEF Constants, Fault, NoFault, TypeOK

LEMMA EventRanges ==
  ASSUME TypeOK
  PROVE  /\ Range(buffer) \subseteq Event
         /\ \A w \in Worker : flush[w] \in Slot /\ flush[w].batch \in Seq(Event)
                               /\ Range(flush[w].batch) \subseteq Event
                               /\ flush[w].bucket \in Bucket /\ flush[w].inserted \in Nat
BY RangeElements DEF TypeOK, Slot

LEMMA BatchFacts ==
  ASSUME TypeOK
  PROVE  /\ Batch \in Seq(Event) /\ Len(Batch) <= FlushMaxBatch /\ Rest \in Seq(Event)
         /\ Range(buffer) = Range(Batch) \union Range(Rest)
         /\ Range(Rest) \subseteq Range(buffer)
<1>1. buffer \in Seq(Event) /\ Len(buffer) \in Nat /\ FlushMaxBatch \in Nat
  BY LenProperties, ConstantsHold DEF Constants, TypeOK
<1>2. BatchSize \in Nat /\ BatchSize <= Len(buffer) /\ BatchSize <= FlushMaxBatch
  BY <1>1 DEF BatchSize
<1>3. QED
  BY <1>1, <1>2, SplitOfSeq DEF Batch, Rest

LEMMA ChunkFacts ==
  ASSUME TypeOK, NEW w \in Worker, flush[w].inserted <= Len(flush[w].batch)
  PROVE  /\ Len(Chunk(w)) \in Nat
         /\ flush[w].inserted + Len(Chunk(w)) <= Len(flush[w].batch)
         /\ Range(Chunk(w)) \subseteq Range(flush[w].batch)
         /\ \A i \in flush[w].inserted + 1..flush[w].inserted + Len(Chunk(w)) :
              flush[w].batch[i] \in Range(Chunk(w))
<1> DEFINE s == flush[w].batch
           m == flush[w].inserted
           n == IF m + ChunkSize < Len(s) THEN m + ChunkSize ELSE Len(s)
<1>1. s \in Seq(Event) /\ Len(s) \in Nat /\ m \in Nat /\ m <= Len(s)
  BY EventRanges, LenProperties
<1>2. ChunkSize \in Nat
  BY ConstantsHold DEF Constants
<1>3. Chunk(w) = SubSeq(s, m + 1, n)
  BY DEF Chunk
<1> HIDE DEF s, m
<1>4. n \in Nat /\ n <= Len(s) /\ m <= n /\ m + 1 \in Nat \ {0}
  BY <1>1, <1>2
<1> HIDE DEF n
<1>5. /\ SubSeq(s, m + 1, n) \in Seq(Event)
      /\ Len(SubSeq(s, m + 1, n)) = IF m + 1 <= n THEN n - (m + 1) + 1 ELSE 0
      /\ \A x : x \in Range(SubSeq(s, m + 1, n)) <=> \E i \in m + 1..n : s[i] = x
  <2> DEFINE k == m + 1
  <2>1. k \in Nat \ {0} /\ n \in Nat /\ n <= Len(s) /\ s \in Seq(Event)
    BY <1>1, <1>4
  <2> HIDE DEF k
  <2>2. /\ SubSeq(s, k, n) \in Seq(Event)
        /\ Len(SubSeq(s, k, n)) = IF k <= n THEN n - k + 1 ELSE 0
        /\ \A x : x \in Range(SubSeq(s, k, n)) <=> \E i \in k..n : s[i] = x
    BY <2>1, PartOfSeq
  <2>3. QED
    BY <2>2 DEF k
<1>6. Len(Chunk(w)) = n - m
  BY <1>1, <1>3, <1>4, <1>5
<1>7. \A i \in m + 1..n : i \in 1..Len(s)
  BY <1>1, <1>4
<1>8. \A x : x \in Range(s) <=> \E i \in 1..Len(s) : s[i] = x
  BY <1>1, RangeElements
<1>9. Range(Chunk(w)) \subseteq Range(s)
  BY <1>3, <1>5, <1>7, <1>8
<1>10. \A i \in m + 1..m + Len(Chunk(w)) : s[i] \in Range(Chunk(w))
  BY <1>1, <1>3, <1>4, <1>5, <1>6
<1>11. Len(Chunk(w)) \in Nat /\ m + Len(Chunk(w)) <= Len(s)
  BY <1>1, <1>4, <1>6
<1>12. QED
  BY <1>9, <1>10, <1>11 DEF s, m

----------------------------------------------------------------------------
(* The two ways a worker steps, and what they do to locks, jobs and slots:  *)
(* it goes on with its job, or it ends and the job, if it still holds the   *)
(* lock, becomes j.                                                         *)

WorkSound ==
  job \in [Bucket -> Job] /\ flush \in [Worker -> Slot] /\ LockHeld /\ JobsSound /\ SlotsSound

GoesOn(w, r) ==
  /\ flush' = [flush EXCEPT ![w] = r] /\ job' = job
  /\ r \in Slot /\ r.pc # "idle" /\ r.bucket = flush[w].bucket
Ends(w, j) ==
  /\ flush' = [flush EXCEPT ![w] = IdleSlot]
  /\ job' = IF Owns(w) THEN [job EXCEPT ![BucketOf(w)] = j] ELSE job

LEMMA SlotsStay ==
  ASSUME Sound, stored \subseteq stored', NEW w \in Worker, flush'[w] = flush[w]
  PROVE  SlotSound(flush'[w], stored')
BY DEF Sound, SlotsSound, SlotSound

LEMMA GoesOnSound ==
  ASSUME Sound, NEW w \in Worker, NEW r, GoesOn(w, r), flush[w].pc # "idle",
         SlotSound(r, stored'), stored \subseteq stored', clock' = clock
  PROVE  WorkSound'
<1>1. /\ job' = job /\ flush'[w] = r /\ \A x \in Worker \ {w} : flush'[x] = flush[x]
      /\ job' \in [Bucket -> Job] /\ flush' \in [Worker -> Slot]
  BY DEF GoesOn, Sound, TypeOK
<1>2. LockHeld'
  BY <1>1 DEF LockHeld, Sound, GoesOn
<1>3. JobsSound'
  BY <1>1 DEF JobsSound, JobSound, Sound
<1>4. SlotsSound'
  BY <1>1, SlotsStay DEF SlotsSound
<1>5. QED
  BY <1>1, <1>2, <1>3, <1>4 DEF WorkSound

LEMMA EndsSound ==
  ASSUME Sound, NEW w \in Worker, NEW j \in Job, Ends(w, j), flush[w].pc # "idle",
         j.owner = None, Owns(w) => JobSound(j, flush[w].bucket),
         stored \subseteq stored', clock' = clock
  PROVE  WorkSound'
<1>1. /\ flush'[w] = IdleSlot /\ \A x \in Worker \ {w} : flush'[x] = flush[x]
      /\ flush[w].bucket \in Bucket /\ flush' \in [Worker -> Slot] /\ IdleSlot.pc = "idle"
  BY IdleSlotType DEF Ends, Sound, TypeOK, Slot
<1>2. /\ job' \in [Bucket -> Job]
      /\ \A b \in Bucket : job'[b] = job[b] \/ (Owns(w) /\ b = flush[w].bucket /\ job'[b] = j)
      /\ Owns(w) => job'[flush[w].bucket] = j
  BY <1>1 DEF Ends, BucketOf, Sound, TypeOK
<1>3. LockHeld'
  <2> SUFFICES ASSUME NEW b \in Bucket, NEW x \in Worker, job'[b].owner = x
               PROVE  job'[b].state = "active" /\ flush'[x].pc # "idle" /\ flush'[x].bucket = b
    BY DEF LockHeld
  <2>1. job'[b] = job[b]
    BY <1>2, ConstantsHold DEF Constants
  <2>2. job[b].state = "active" /\ flush[x].pc # "idle" /\ flush[x].bucket = b
    BY <2>1 DEF Sound, LockHeld
  <2>3. x # w
    BY <1>2, <2>1, <2>2, ConstantsHold DEF Constants, Owns, BucketOf
  <2>4. QED
    BY <1>1, <2>1, <2>2, <2>3
<1>4. JobsSound'
  BY <1>2 DEF JobsSound, JobSound, Sound
<1>5. SlotsSound'
  <2>1. SlotSound(IdleSlot, stored')
    BY IdleSlotType
  <2>2. QED
    BY <1>1, <2>1, SlotsStay DEF SlotsSound
<1>6. QED
  BY <1>1, <1>2, <1>3, <1>4, <1>5 DEF WorkSound

(* What becomes of a job whose worker has ended.                            *)
LEMMA OwnedJob ==
  ASSUME Sound, NEW w \in Worker, Owns(w)
  PROVE  /\ flush[w].bucket \in Bucket /\ job[flush[w].bucket] \in Job
         /\ job[flush[w].bucket].state = "active" /\ flush[w].bucket < clock
         /\ job[flush[w].bucket].attempts < MaxAttempts
<1>1. flush[w].bucket \in Bucket /\ job[flush[w].bucket] \in Job /\ clock \in Nat
  BY EventRanges, ConstantsHold DEF Sound, TypeOK, Time, Constants
<1>2. job[flush[w].bucket].state = "active"
  BY <1>1 DEF Sound, LockHeld, Owns, BucketOf
<1>3. flush[w].bucket \in Nat
  BY <1>1, ConstantsHold DEF Bucket, Constants
<1>4. QED
  BY <1>1, <1>2, <1>3 DEF Sound, JobsSound, JobSound

LEMMA RetriedFacts ==
  ASSUME Sound, NEW b \in Bucket, job[b].attempts < MaxAttempts, b < clock
  PROVE  Retried(job[b]) \in Job /\ Retried(job[b]).owner = None /\ JobSound(Retried(job[b]), b)
<1>1. /\ job[b] \in Job /\ job[b].attempts \in Nat /\ MaxAttempts \in Nat
      /\ b \in Nat /\ clock \in Nat
  BY ConstantsHold DEF Sound, TypeOK, Job, Bucket, Time, Constants
<1>2. job[b].attempts + 1 \in 0..MaxAttempts
  BY <1>1
<1>3. Retried(job[b]) \in Job /\ Retried(job[b]).owner = None
  BY <1>1, <1>2 DEF Retried, Job, JobState
<1>4. /\ Retried(job[b]).attempts = job[b].attempts + 1
      /\ Retried(job[b]).state = IF job[b].attempts + 1 < MaxAttempts THEN "delayed" ELSE "failed"
  BY <1>1 DEF Retried, Job
<1>5. QED
  BY <1>1, <1>3, <1>4 DEF JobSound

LEMMA UnlockedFacts ==
  ASSUME Sound, NEW b \in Bucket
  PROVE  /\ [job[b] EXCEPT !.owner = None] \in Job /\ [job[b] EXCEPT !.owner = None].owner = None
         /\ JobSound([job[b] EXCEPT !.owner = None], b)
<1>1. job[b] \in Job
  BY DEF Sound, TypeOK
<1>2. /\ [job[b] EXCEPT !.owner = None] \in Job /\ [job[b] EXCEPT !.owner = None].owner = None
      /\ [job[b] EXCEPT !.owner = None].state = job[b].state
      /\ [job[b] EXCEPT !.owner = None].attempts = job[b].attempts
  BY <1>1 DEF Job
<1>3. QED
  BY <1>2 DEF Sound, JobsSound, JobSound

LEMMA CompleteSound ==
  ASSUME Sound, NEW w \in Worker, Complete(w), flush[w].pc # "idle",
         stored \subseteq stored', clock' = clock
  PROVE  WorkSound'
<1>1. Ends(w, NoJob)
  BY DEF Complete, Idle, Ends
<1>2. Owns(w) => JobSound(NoJob, flush[w].bucket)
  BY NoJobType DEF JobSound
<1>3. QED
  BY <1>1, <1>2, NoJobType, EndsSound

LEMMA FailAttemptSound ==
  ASSUME Sound, NEW w \in Worker, NEW left, FailAttempt(w, left), flush[w].pc # "idle",
         stored \subseteq stored', clock' = clock
  PROVE  WorkSound'
<1>1. CASE Owns(w)
  <2>1. Ends(w, Retried(job[flush[w].bucket]))
    BY <1>1, OwnedJob DEF FailAttempt, Idle, Ends, BucketOf, Sound, TypeOK
  <2>2. QED
    BY <1>1, <2>1, OwnedJob, RetriedFacts, EndsSound
<1>2. CASE ~Owns(w)
  <2>1. Ends(w, NoJob)
    BY <1>2 DEF FailAttempt, Idle, Ends
  <2>2. QED
    BY <1>2, <2>1, NoJobType, EndsSound
<1>3. QED
  BY <1>1, <1>2

LEMMA TakeBatchWork ==
  ASSUME Sound, NEW w \in Worker, TakeBatch(w)
  PROVE  WorkSound'
<1>1. flush[w].pc = "take" /\ stored' = stored /\ clock' = clock
  BY DEF TakeBatch, FlushAt
<1>2. CASE Batch = <<>>
  BY <1>1, <1>2, CompleteSound DEF TakeBatch
<1>3. CASE Batch # <<>>
  <2> DEFINE r == [flush[w] EXCEPT !.pc = "insert", !.batch = Batch]
  <2>1. flush' = [flush EXCEPT ![w] = r] /\ job' = job
    BY <1>3 DEF TakeBatch
  <2>2. flush[w] \in Slot /\ Batch \in Seq(Event) /\ Len(Batch) <= FlushMaxBatch
    BY EventRanges, BatchFacts DEF Sound
  <2>3. /\ r \in Slot /\ r.pc = "insert" /\ r.bucket = flush[w].bucket /\ r.batch = Batch
        /\ r.inserted = flush[w].inserted
    BY <2>2 DEF Slot, FlushPc
  <2>4. GoesOn(w, r)
    BY <2>1, <2>3 DEF GoesOn
  <2> HIDE DEF r
  <2>5. flush[w].inserted = 0
    BY <1>1 DEF Sound, SlotsSound, SlotSound
  <2>6. SlotSound(r, stored')
    <3>1. Len(Batch) \in Nat
      BY <2>2, LenProperties
    <3>2. QED
      BY <2>2, <2>3, <2>5, <3>1 DEF SlotSound
  <2>7. QED
    BY <1>1, <2>4, <2>6, GoesOnSound
<1>4. QED
  BY <1>2, <1>3

(* A chunk that is stored completes the batch or counts as inserted.        *)
LEMMA InsertChunkWork ==
  ASSUME Sound, NEW w \in Worker, InsertChunk(w)
  PROVE  WorkSound'
<1> DEFINE n == flush[w].inserted + Len(Chunk(w))
           r == [flush[w] EXCEPT !.inserted = n]
<1>1. /\ flush[w].pc = "insert" /\ stored' = stored \union Range(Chunk(w)) /\ clock' = clock
      /\ flush[w] \in Slot /\ flush[w].inserted \in Nat
  BY EventRanges DEF InsertChunk, FlushAt, Sound
<1>2. /\ flush[w].inserted <= Len(flush[w].batch) /\ Len(flush[w].batch) <= FlushMaxBatch
      /\ \A i \in 1..flush[w].inserted : flush[w].batch[i] \in stored
  BY <1>1 DEF Sound, SlotsSound, SlotSound
<1>3. /\ Len(Chunk(w)) \in Nat /\ n <= Len(flush[w].batch)
      /\ \A i \in flush[w].inserted + 1..n : flush[w].batch[i] \in Range(Chunk(w))
  BY <1>2, ChunkFacts DEF Sound
<1>4. CASE n = Len(flush[w].batch)
  BY <1>1, <1>4, CompleteSound DEF InsertChunk
<1>5. CASE n # Len(flush[w].batch)
  <2>1. flush' = [flush EXCEPT ![w].inserted = n] /\ job' = job
    BY <1>5 DEF InsertChunk
  <2>2. n \in Nat
    BY <1>1, <1>3
  <2> HIDE DEF n
  <2>3. /\ r \in Slot /\ r.pc = "insert" /\ r.bucket = flush[w].bucket
        /\ r.batch = flush[w].batch /\ r.inserted = n
    BY <1>1, <2>2 DEF Slot
  <2>4. flush' = [flush EXCEPT ![w] = r]
    BY <2>1 DEF Sound, TypeOK, Slot
  <2>5. GoesOn(w, r)
    BY <2>1, <2>3, <2>4 DEF GoesOn
  <2> HIDE DEF r
  <2>6. \A i \in 1..n : i \in 1..flush[w].inserted \/ i \in flush[w].inserted + 1..n
    BY <1>1, <2>2
  <2>7. SlotSound(r, stored')
    BY <1>1, <1>2, <1>3, <2>3, <2>6 DEF SlotSound
  <2>8. QED
    BY <1>1, <2>5, <2>7, GoesOnSound
<1>6. QED
  BY <1>4, <1>5

LEMMA RestoreWork ==
  ASSUME Sound, NEW w \in Worker,
         InsertFails(w) \/ Restore(w) \/ ExpireRestored(w) \/ RedisFails(w)
  PROVE  WorkSound'
<1>0. flush[w] \in Slot /\ Len(flush[w].batch) <= FlushMaxBatch
  BY EventRanges DEF Sound, SlotsSound, SlotSound
<1>1. CASE InsertFails(w)
  <2> DEFINE r == [flush[w] EXCEPT !.pc = "restore"]
  <2>1. /\ flush[w].pc = "insert" /\ flush' = [flush EXCEPT ![w] = r] /\ job' = job
        /\ stored \subseteq stored' /\ clock' = clock
    BY <1>1 DEF InsertFails, FlushAt, MayHaveStored
  <2>2. r \in Slot /\ r.pc = "restore" /\ r.bucket = flush[w].bucket /\ r.batch = flush[w].batch
    BY <1>0 DEF Slot, FlushPc
  <2>3. GoesOn(w, r)
    BY <2>1, <2>2 DEF GoesOn
  <2> HIDE DEF r
  <2>4. SlotSound(r, stored')
    BY <1>0, <2>2 DEF SlotSound
  <2>5. QED
    BY <2>1, <2>3, <2>4, GoesOnSound
<1>2. CASE Restore(w)
  <2> DEFINE r == [IdleSlot EXCEPT !.pc = "expire", !.bucket = BucketOf(w)]
  <2>1. /\ flush[w].pc = "restore" /\ flush' = [flush EXCEPT ![w] = r] /\ job' = job
        /\ stored' = stored /\ clock' = clock
    BY <1>2 DEF Restore, FlushAt
  <2>2. /\ r \in Slot /\ r.pc = "expire" /\ r.bucket = flush[w].bucket /\ r.batch = <<>>
        /\ r.inserted = 0
    BY <1>0, EmptySeq, ConstantsHold DEF Slot, FlushPc, IdleSlot, Constants, Bucket, BucketOf
  <2>3. GoesOn(w, r)
    BY <2>1, <2>2 DEF GoesOn
  <2> HIDE DEF r
  <2>4. SlotSound(r, stored')
    BY <2>2, EmptySeq, ConstantsHold DEF SlotSound, Constants
  <2>5. QED
    BY <2>1, <2>3, <2>4, GoesOnSound
<1>3. CASE ExpireRestored(w)
  BY <1>3, FailAttemptSound DEF ExpireRestored, FlushAt
<1>4. CASE RedisFails(w)
  <2>1. flush[w].pc # "idle" /\ stored' = stored /\ clock' = clock
    BY <1>4 DEF RedisFails
  <2>2. PICK left : FailAttempt(w, left)
    BY <1>4 DEF RedisFails
  <2>3. QED
    BY <2>1, <2>2, FailAttemptSound
<1>5. QED
  BY <1>1, <1>2, <1>3, <1>4

LEMMA CrashWork ==
  ASSUME Sound, NEW w \in Worker, Crash(w)
  PROVE  WorkSound'
<1>1. flush[w].pc # "idle" /\ stored \subseteq stored' /\ clock' = clock
  BY DEF Crash, FlushAt, MayHaveStored
<1>2. CASE Owns(w)
  <2>1. Ends(w, [job[flush[w].bucket] EXCEPT !.owner = None])
    BY <1>2, OwnedJob DEF Crash, Idle, Ends, BucketOf, Sound, TypeOK
  <2>2. QED
    BY <1>1, <1>2, <2>1, OwnedJob, UnlockedFacts, EndsSound
<1>3. CASE ~Owns(w)
  <2>1. Ends(w, NoJob)
    BY <1>3 DEF Crash, Idle, Ends
  <2>2. QED
    BY <1>1, <1>3, <2>1, NoJobType, EndsSound
<1>4. QED
  BY <1>2, <1>3

(* A step at one job that no worker holds afterwards.                       *)
LEMMA UnheldSound ==
  ASSUME Sound, NEW b \in Bucket, NEW j \in Job, job' = [job EXCEPT ![b] = j],
         j.owner = None, JobSound(j, b),
         flush' = flush, stored' = stored, clock' = clock
  PROVE  WorkSound'
<1>1. /\ job' \in [Bucket -> Job] /\ job'[b] = j
      /\ \A c \in Bucket \ {b} : job'[c] = job[c]
  BY DEF Sound, TypeOK
<1>2. flush' \in [Worker -> Slot]
  BY DEF Sound, TypeOK
<1>3. LockHeld'
  BY <1>1, ConstantsHold DEF LockHeld, Sound, Constants
<1>4. JobsSound'
  BY <1>1 DEF JobsSound, JobSound, Sound
<1>5. SlotsSound'
  BY SlotsStay DEF SlotsSound
<1>6. QED
  BY <1>1, <1>2, <1>3, <1>4, <1>5 DEF WorkSound

LEMMA QueueWork ==
  ASSUME Sound,
         \/ \E w \in Worker : LoseLock(w)
         \/ \E b \in Bucket : RecoverStalled(b)
  PROVE  WorkSound'
<1>1. ASSUME NEW w \in Worker, LoseLock(w)
      PROVE  WorkSound'
  <2> DEFINE b == flush[w].bucket
  <2>1. Owns(w) /\ UNCHANGED <<flush, stored, clock>> /\ b \in Bucket
    BY <1>1, OwnedJob DEF LoseLock
  <2>2. job' = [job EXCEPT ![b] = [job[b] EXCEPT !.owner = None]]
    BY <1>1, <2>1 DEF LoseLock, BucketOf, Sound, TypeOK
  <2> HIDE DEF b
  <2>3. QED
    BY <2>1, <2>2, UnlockedFacts, UnheldSound
<1>2. ASSUME NEW b \in Bucket, RecoverStalled(b)
      PROVE  WorkSound'
  <2>1. /\ job[b].state = "active" /\ job[b].owner = None /\ UNCHANGED <<flush, stored, clock>>
        /\ job' = [job EXCEPT ![b] = Recovered(job[b])] /\ job[b] \in Job
    BY <1>2 DEF RecoverStalled, Sound, TypeOK
  <2>2. job[b].attempts < MaxAttempts /\ ~(b >= clock)
    BY <2>1 DEF Sound, JobsSound, JobSound
  <2>3. job[b].stalls < MaxStalls => job[b].stalls + 1 \in 0..MaxStalls
    BY <2>1, ConstantsHold DEF Job, Constants
  <2>4. job[b].stalls < MaxStalls
          => [job[b] EXCEPT !.state = "delayed", !.stalls = @ + 1] \in Job
    BY <2>1, <2>3 DEF Job, JobState
  <2>5. [job[b] EXCEPT !.state = "failed"] \in Job
    BY <2>1 DEF Job, JobState
  <2>6. Recovered(job[b]) \in Job
    BY <2>4, <2>5 DEF Recovered
  <2>7. Recovered(job[b]).owner = None /\ Recovered(job[b]).attempts = job[b].attempts
    BY <2>1 DEF Recovered, Job
  <2>8. JobSound(Recovered(job[b]), b)
    BY <2>2, <2>7 DEF JobSound
  <2>9. QED
    BY <2>1, <2>6, <2>7, <2>8, UnheldSound
<1>3. QED
  BY <1>1, <1>2

LEMMA TakeJobWork ==
  ASSUME Sound, NEW w \in Worker, NEW b \in Bucket, TakeJob(w, b)
  PROVE  WorkSound'
<1> DEFINE r == [IdleSlot EXCEPT !.pc = "take", !.bucket = b]
<1>1. /\ flush[w].pc = "idle" /\ job[b].state = "delayed" /\ clock > b
      /\ job' = [job EXCEPT ![b].state = "active", ![b].owner = w]
      /\ flush' = [flush EXCEPT ![w] = r]
      /\ UNCHANGED <<stored, clock>>
  BY DEF TakeJob, FlushAt
<1>2. /\ r \in Slot /\ r.pc = "take" /\ r.bucket = b /\ SlotSound(r, stored')
  <2>1. r \in Slot /\ r.pc = "take" /\ r.bucket = b
    BY IdleSlotType DEF Slot, FlushPc
  <2>2. r.batch = <<>> /\ r.inserted = 0
    BY DEF IdleSlot
  <2>3. Len(<<>>) <= FlushMaxBatch
    BY EmptySeq, ConstantsHold DEF Constants
  <2> HIDE DEF r
  <2>4. QED
    BY <2>1, <2>2, <2>3 DEF SlotSound
<1>3. /\ flush'[w] = r /\ flush' \in [Worker -> Slot]
      /\ \A x \in Worker \ {w} : flush'[x] = flush[x]
  BY <1>1, <1>2 DEF Sound, TypeOK
<1> HIDE DEF r
<1>4. job[b] \in Job /\ job[b].attempts < MaxAttempts
  BY <1>1 DEF Sound, TypeOK, JobsSound, JobSound
<1>5. /\ job' \in [Bucket -> Job] /\ \A c \in Bucket \ {b} : job'[c] = job[c]
      /\ job'[b].state = "active" /\ job'[b].owner = w /\ job'[b].attempts = job[b].attempts
  <2>1. [job[b] EXCEPT !.state = "active", !.owner = w] \in Job
    BY <1>4 DEF Job, JobState
  <2>2. QED
    BY <1>1, <1>4, <2>1 DEF Sound, TypeOK, Job
<1>6. LockHeld'
  <2> SUFFICES ASSUME NEW c \in Bucket, NEW x \in Worker, job'[c].owner = x
               PROVE  job'[c].state = "active" /\ flush'[x].pc # "idle" /\ flush'[x].bucket = c
    BY DEF LockHeld
  <2>1. CASE c = b
    BY <1>2, <1>3, <1>5, <2>1
  <2>2. CASE c # b
    BY <1>1, <1>3, <1>5, <2>2 DEF Sound, LockHeld
  <2>3. QED
    BY <2>1, <2>2
<1>7. JobsSound'
  <2>1. ~(b >= clock)
    BY <1>1, ConstantsHold DEF Sound, TypeOK, Time, Bucket, Constants
  <2>2. QED
    BY <1>1, <1>4, <1>5, <2>1 DEF Sound, JobsSound, JobSound
<1>8. SlotsSound'
  BY <1>1, <1>2, <1>3, SlotsStay DEF SlotsSound
<1>9. QED
  BY <1>3, <1>5, <1>6, <1>7, <1>8 DEF WorkSound

(* A call of track() touches no slot, and at most asks for the job of the   *)
(* present bucket.                                                          *)
LEMMA AskSound ==
  ASSUME Sound, clock < MaxClock, job' \in {job, WithFlushJob},
         flush' = flush, stored \subseteq stored', clock' = clock
  PROVE  WorkSound'
<1>0. clock \in Bucket
  BY ConstantsHold DEF Sound, TypeOK, Time, Bucket, Constants
<1> DEFINE j == [NoJob EXCEPT !.state = "delayed"]
<1>1. job' = job \/ job' = [job EXCEPT ![clock] = j]
  BY DEF WithFlushJob
<1>2. j \in Job /\ j.owner = None /\ j.state = "delayed" /\ j.attempts = 0
  BY DelayedType
<1> HIDE DEF j
<1>3. job' \in [Bucket -> Job] /\ \A b \in Bucket : job'[b] = job[b] \/ job'[b] = j
  BY <1>0, <1>1, <1>2 DEF Sound, TypeOK
<1>4. flush' \in [Worker -> Slot]
  BY DEF Sound, TypeOK
<1>5. LockHeld'
  <2> SUFFICES ASSUME NEW b \in Bucket, NEW x \in Worker, job'[b].owner = x
               PROVE  job'[b].state = "active" /\ flush'[x].pc # "idle" /\ flush'[x].bucket = b
    BY DEF LockHeld
  <2>1. job'[b] = job[b]
    BY <1>2, <1>3, ConstantsHold DEF Constants
  <2>2. QED
    BY <2>1 DEF Sound, LockHeld
<1>6. JobsSound'
  <2> SUFFICES ASSUME NEW b \in Bucket PROVE JobSound(job[b], b)'
    BY DEF JobsSound
  <2>1. JobSound(job[b], b)
    BY DEF Sound, JobsSound
  <2>2. CASE job'[b] = job[b]
    BY <2>1, <2>2 DEF JobSound
  <2>3. CASE job'[b] = j
    BY <1>2, <2>3, ConstantsHold DEF JobSound, Constants
  <2>4. QED
    BY <1>3, <2>2, <2>3
<1>7. SlotsSound'
  BY SlotsStay DEF SlotsSound
<1>8. QED
  BY <1>3, <1>4, <1>5, <1>6, <1>7 DEF WorkSound

TrackAction(e) == Track(e) \/ TrackStep(e) \/ TrackFails(e) \/ TrackEnds(e)

LEMMA TrackShape ==
  ASSUME Sound, NEW e \in Event, TrackAction(e)
  PROVE  /\ clock < MaxClock /\ clock' = clock /\ flush' = flush /\ stored \subseteq stored'
         /\ job' \in {job, WithFlushJob}
         /\ tracker'[e] # "idle" /\ \A f \in Event \ {e} : tracker'[f] = tracker[f]
         /\ \E pc \in TrackPc : tracker' = [tracker EXCEPT ![e] = pc]
<1> USE DEF TrackAction, TrackStep, TrackAt, TrackTo
<1>1. /\ clock' = clock /\ flush' = flush /\ stored \subseteq stored'
      /\ job' \in {job, WithFlushJob}
  BY DEF Track, Expire, Length, Trim, AddFlushJob, Fallback, TrackFails, TrackEnds
<1>2. clock < MaxClock
  <2>1. Arrives(e) => clock < MaxClock
    BY DEF Arrives
  <2>2. CASE tracker[e] \notin {"idle", "done"}
    <3>1. e \in UnderWay
      BY <2>2 DEF UnderWay
    <3>2. clock # MaxClock
      BY <3>1 DEF Sound, CallsEnd
    <3>3. QED
      BY <3>2, ConstantsHold DEF Sound, TypeOK, Time, Constants
  <2>3. Arrives(e) \/ tracker[e] \notin {"idle", "done"}
    BY DEF Track, Expire, Length, Trim, AddFlushJob, Fallback, TrackFails, TrackEnds
  <2>4. QED
    BY <2>1, <2>2, <2>3
<1>3. \E pc \in TrackPc \ {"idle"} : tracker' = [tracker EXCEPT ![e] = pc]
  BY DEF Track, Expire, Length, Trim, AddFlushJob, Fallback, TrackFails, TrackEnds, TrackPc
<1>4. tracker'[e] # "idle" /\ \A f \in Event \ {e} : tracker'[f] = tracker[f]
  BY <1>3 DEF Sound, TypeOK
<1>5. QED
  BY <1>1, <1>2, <1>3, <1>4

FlushAction(w) ==
  FlushStep(w) \/ InsertFails(w) \/ RedisFails(w) \/ Crash(w) \/ LoseLock(w)
    \/ \E b \in Bucket : TakeJob(w, b)

LEMMA FlushShape ==
  ASSUME Sound, NEW w \in Worker, FlushAction(w)
  PROVE  WorkSound' /\ clock' = clock /\ tracker' = tracker /\ stored \subseteq stored'
<1> USE DEF FlushAction, FlushStep
<1>1. WorkSound'
  BY TakeBatchWork, InsertChunkWork, RestoreWork, CrashWork, QueueWork, TakeJobWork
<1>2. clock' = clock /\ tracker' = tracker
  BY DEF TakeBatch, InsertChunk, InsertFails, Restore, ExpireRestored, RedisFails, Crash, LoseLock,
     TakeJob
<1>3. stored \subseteq stored'
  BY DEF TakeBatch, InsertChunk, InsertFails, Restore, ExpireRestored, RedisFails, Crash, LoseLock,
     TakeJob, MayHaveStored
<1>4. QED
  BY <1>1, <1>2, <1>3

----------------------------------------------------------------------------
(* Types, and the calls in the last bucket. *)

LEMMA InitSound == Init => Sound
<1> SUFFICES ASSUME Init PROVE Sound
  OBVIOUS
<1>1. \A b \in Bucket : job[b] = NoJob
  BY DEF Init
<1>2. \A w \in Worker : flush[w] = IdleSlot
  BY DEF Init
<1>3. Len(<<>>) = 0 /\ <<>> \in Seq(Event)
  BY EmptySeq
<1>4. TypeOK
  <2>1. \A w \in Worker : Len(flush[w].batch) <= FlushMaxBatch
    BY <1>2, <1>3, IdleSlotType, ConstantsHold DEF Constants
  <2>2. flush \in [Worker -> Slot] /\ job \in [Bucket -> Job]
    BY NoJobType, IdleSlotType DEF Init
  <2>3. clock \in Time /\ faultsLeft \in 0..MaxFaults /\ tracker \in [Event -> TrackPc]
    BY ConstantsHold DEF Init, Time, Constants, TrackPc
  <2>4. QED
    BY <1>3, <2>1, <2>2, <2>3 DEF Init, TypeOK
<1>5. LockHeld
  BY <1>1, NoJobType, ConstantsHold DEF LockHeld, Constants
<1>6. JobsSound
  BY <1>1, NoJobType DEF JobsSound, JobSound
<1>7. SlotsSound
  BY <1>2, IdleSlotType DEF SlotsSound
<1>8. CallsEnd
  BY ConstantsHold DEF CallsEnd, Init, Constants
<1>9. QED
  BY <1>4, <1>5, <1>6, <1>7, <1>8 DEF Sound

(* What the events' sets and the list become, whatever the step.            *)
DataOK ==
  /\ buffer \in Seq(Event) /\ deadline \in Time \union {Never}
  /\ stored \subseteq Event /\ lost \subseteq Event /\ stranded \subseteq Event
  /\ faultsLeft \in 0..MaxFaults

LEMMA TrackData ==
  ASSUME Sound, NEW e \in Event, TrackAction(e)
  PROVE  DataOK'
<1> USE DEF DataOK
<1>0. TypeOK
  BY DEF Sound
<1>1. /\ buffer \in Seq(Event) /\ deadline \in Time \union {Never} /\ stored \subseteq Event
      /\ lost \subseteq Event /\ stranded \subseteq Event
  BY <1>0 DEF TypeOK
<1>2. faultsLeft' \in 0..MaxFaults
  <2>1. Fault \/ NoFault
    BY DEF TrackAction, TrackStep, Track, Expire, Length, Trim, AddFlushJob, Fallback, TrackFails,
       TrackEnds
  <2>2. QED
    BY <1>0, <2>1, FaultType
<1>3. CASE Track(e)
  <2>1. Append(buffer, e) \in Seq(Event)
    BY <1>1, RangeOfAppend
  <2>2. buffer' \in Seq(Event) /\ deadline' \in Time \union {Never}
    BY <1>0, <1>3, <2>1, BufferType DEF Track
  <2>3. QED
    BY <1>1, <1>2, <1>3, <2>2 DEF Track
<1>4. CASE Expire(e)
  <2>1. deadline' \in Time \union {Never}
    BY <1>0, <1>4, TouchType DEF Expire
  <2>2. QED
    BY <1>1, <1>2, <1>4, <2>1 DEF Expire
<1>5. CASE Length(e)
  BY <1>1, <1>2, <1>5 DEF Length
<1>6. CASE Trim(e)
  <2>1. Newest(buffer, FlushMaxBatch) \in Seq(Event)
    BY <1>1, NewestFacts, ConstantsHold DEF Constants
  <2>2. buffer' \in Seq(Event) /\ deadline' \in Time \union {Never}
    BY <1>0, <1>6, <2>1, BufferType DEF Trim
  <2>3. lost' \subseteq lost \union Range(buffer)
    BY <1>6 DEF Trim, Unsaved
  <2>4. lost' \subseteq Event
    BY <1>0, <1>1, <2>3, EventRanges
  <2>5. QED
    BY <1>1, <1>2, <1>6, <2>2, <2>4 DEF Trim
<1>7. CASE AddFlushJob(e)
  BY <1>1, <1>2, <1>7 DEF AddFlushJob
<1>8. CASE Fallback(e)
  BY <1>1, <1>2, <1>8 DEF Fallback
<1>9. CASE TrackFails(e)
  BY <1>1, <1>2, <1>9 DEF TrackFails
<1>10. CASE TrackEnds(e)
  <2>1. lost' \subseteq Event /\ stranded' \subseteq Event
    BY <1>1, <1>10 DEF TrackEnds, Unsaved
  <2>2. QED
    BY <1>1, <1>2, <1>10, <2>1 DEF TrackEnds
<1>11. QED
  BY <1>3, <1>4, <1>5, <1>6, <1>7, <1>8, <1>9, <1>10 DEF TrackAction, TrackStep

LEMMA FlushData ==
  ASSUME Sound, NEW w \in Worker, FlushAction(w)
  PROVE  DataOK'
<1> USE DEF DataOK
<1>0. TypeOK
  BY DEF Sound
<1>1. /\ buffer \in Seq(Event) /\ deadline \in Time \union {Never} /\ stored \subseteq Event
      /\ lost \subseteq Event /\ stranded \subseteq Event
  BY <1>0 DEF TypeOK
<1>2. faultsLeft' \in 0..MaxFaults
  <2>1. Fault \/ NoFault
    BY DEF FlushAction, FlushStep, TakeBatch, InsertChunk, InsertFails, Restore, ExpireRestored,
       RedisFails, Crash, LoseLock, TakeJob
  <2>2. QED
    BY <1>0, <2>1, FaultType
<1>3. /\ Range(buffer) \subseteq Event /\ Range(flush[w].batch) \subseteq Event
      /\ flush[w].batch \in Seq(Event)
      /\ flush[w].pc = "insert" => Range(Chunk(w)) \subseteq Event
  <2>1. Range(buffer) \subseteq Event /\ Range(flush[w].batch) \subseteq Event
        /\ flush[w].batch \in Seq(Event)
    BY <1>0, EventRanges
  <2>2. flush[w].pc = "insert" => flush[w].inserted <= Len(flush[w].batch)
    BY DEF Sound, SlotsSound, SlotSound
  <2>3. flush[w].pc = "insert" => Range(Chunk(w)) \subseteq Range(flush[w].batch)
    BY <1>0, <2>2, ChunkFacts
  <2>4. QED
    BY <2>1, <2>3
<1>4. /\ Batch \in Seq(Event) /\ Rest \in Seq(Event) /\ Range(Rest) \subseteq Event
  BY <1>0, <1>3, BatchFacts
<1>5. CASE TakeBatch(w)
  <2>1. buffer' \in Seq(Event) /\ deadline' \in Time \union {Never}
    BY <1>0, <1>4, <1>5, BufferType DEF TakeBatch
  <2>2. stranded' \subseteq Event
    BY <1>1, <1>4, <1>5 DEF TakeBatch
  <2>3. QED
    BY <1>1, <1>2, <1>5, <2>1, <2>2 DEF TakeBatch
<1>6. CASE InsertChunk(w)
  <2>1. stored' \subseteq Event
    BY <1>1, <1>3, <1>6 DEF InsertChunk, FlushAt
  <2>2. QED
    BY <1>1, <1>2, <1>6, <2>1 DEF InsertChunk
<1>7. CASE InsertFails(w)
  <2>1. stored' \subseteq Event
    BY <1>1, <1>3, <1>7 DEF InsertFails, FlushAt, MayHaveStored
  <2>2. QED
    BY <1>1, <1>2, <1>7, <2>1 DEF InsertFails
<1>8. CASE Restore(w)
  <2>1. flush[w].batch \o buffer \in Seq(Event)
    BY <1>1, <1>3, RangeOfConcat
  <2>2. buffer' \in Seq(Event) /\ deadline' \in Time \union {Never}
    BY <1>0, <1>8, <2>1, BufferType DEF Restore
  <2>3. Range(buffer') \subseteq Event
    BY <2>2, RangeElements
  <2>4. QED
    BY <1>1, <1>2, <1>8, <2>2, <2>3 DEF Restore
<1>9. CASE ExpireRestored(w)
  <2>1. deadline' \in Time \union {Never}
    BY <1>0, <1>9, TouchType DEF ExpireRestored
  <2>2. stranded' \subseteq Event
    BY <1>1, <1>3, <1>9 DEF ExpireRestored, FailAttempt
  <2>3. QED
    BY <1>1, <1>2, <1>9, <2>1, <2>2 DEF ExpireRestored
<1>10. CASE RedisFails(w)
  <2>1. PICK rest \in {buffer, Rest} :
          /\ SetBuffer(rest)
          /\ lost' = lost \union Unsaved((Range(flush[w].batch) \union Range(buffer)) \ Range(rest))
          /\ FailAttempt(w, Range(rest))
    BY <1>10 DEF RedisFails
  <2>2. rest \in Seq(Event) /\ Range(rest) \subseteq Event
    BY <1>1, <1>3, <1>4, <2>1
  <2>3. buffer' \in Seq(Event) /\ deadline' \in Time \union {Never}
    BY <1>0, <2>1, <2>2, BufferType
  <2>4. lost' \subseteq Event
    BY <1>1, <1>3, <2>1 DEF Unsaved
  <2>5. stranded' \subseteq Event
    BY <1>1, <2>1, <2>2 DEF FailAttempt
  <2>6. QED
    BY <1>1, <1>2, <1>10, <2>3, <2>4, <2>5 DEF RedisFails
<1>11. CASE Crash(w)
  <2>1. stored' \subseteq Event
    BY <1>1, <1>3, <1>11 DEF Crash, FlushAt, MayHaveStored
  <2>2. lost' \subseteq Event
    BY <1>1, <1>3, <1>11 DEF Crash
  <2>3. QED
    BY <1>1, <1>2, <1>11, <2>1, <2>2 DEF Crash
<1>12. CASE LoseLock(w) \/ \E b \in Bucket : TakeJob(w, b)
  BY <1>1, <1>2, <1>12 DEF LoseLock, TakeJob
<1>13. QED
  BY <1>5, <1>6, <1>7, <1>8, <1>9, <1>10, <1>11, <1>12 DEF FlushAction, FlushStep

QuietAction == (\E b \in Bucket : RecoverStalled(b)) \/ ExpireBuffer \/ Tick

LEMMA QuietShape ==
  ASSUME Sound, QuietAction
  PROVE  /\ WorkSound' /\ DataOK' /\ CallsEnd' /\ clock' \in Time
         /\ UNCHANGED <<flush, tracker, stored>>
<1>0. TypeOK /\ CallsEnd
  BY DEF Sound
<1>1. /\ buffer \in Seq(Event) /\ deadline \in Time \union {Never} /\ stored \subseteq Event
      /\ lost \subseteq Event /\ stranded \subseteq Event /\ Range(buffer) \subseteq Event
      /\ faultsLeft \in 0..MaxFaults /\ clock \in Time
  BY <1>0, EventRanges DEF TypeOK
<1>2. ASSUME NEW b \in Bucket, RecoverStalled(b)
      PROVE  /\ WorkSound' /\ DataOK' /\ CallsEnd' /\ clock' \in Time
             /\ UNCHANGED <<flush, tracker, stored>>
  <2>1. /\ UNCHANGED <<clock, buffer, deadline, stored, tracker, flush, lost, faultsLeft>>
        /\ stranded' = stranded \union Range(buffer)
    BY <1>2 DEF RecoverStalled, NoFault
  <2>2. DataOK'
    BY <1>1, <2>1 DEF DataOK
  <2>3. CallsEnd'
    BY <1>0, <2>1 DEF CallsEnd, UnderWay
  <2>4. QED
    BY <1>1, <1>2, <2>1, <2>2, <2>3, QueueWork
<1>3. ASSUME UNCHANGED <<job, flush, stored>>, clock' = clock \/ clock' = clock + 1
      PROVE  WorkSound'
  <2>1. LockHeld' /\ SlotsSound'
    BY <1>3 DEF Sound, LockHeld, SlotsSound
  <2>2. JobsSound'
    <3>1. \A b \in Bucket : b \in Nat /\ clock \in Nat
      BY <1>1, ConstantsHold DEF Bucket, Time, Constants
    <3>2. QED
      BY <1>3, <3>1 DEF Sound, JobsSound, JobSound
  <2>3. job' \in [Bucket -> Job] /\ flush' \in [Worker -> Slot]
    BY <1>0, <1>3 DEF TypeOK
  <2>4. QED
    BY <2>1, <2>2, <2>3 DEF WorkSound
<1>4. CASE ExpireBuffer
  <2>1. /\ UNCHANGED <<clock, stored, tracker, job, flush, stranded, faultsLeft>>
        /\ lost' = lost \union Unsaved(Range(buffer)) /\ SetBuffer(<<>>)
    BY <1>4 DEF ExpireBuffer, NoFault
  <2>2. buffer' \in Seq(Event) /\ deadline' \in Time \union {Never}
    BY <1>0, <2>1, EmptySeq, BufferType
  <2>3. DataOK'
    BY <1>1, <2>1, <2>2 DEF DataOK, Unsaved
  <2>4. CallsEnd'
    BY <1>0, <2>1 DEF CallsEnd, UnderWay
  <2>5. QED
    BY <1>1, <1>3, <2>1, <2>3, <2>4
<1>5. CASE Tick
  <2>1. /\ UNCHANGED <<buffer, deadline, stored, tracker, job, flush, lost, stranded, faultsLeft>>
        /\ clock < MaxClock /\ clock' = clock + 1
        /\ clock + 1 = MaxClock => UnderWay = {}
    BY <1>5 DEF Tick, NoFault
  <2>2. DataOK'
    BY <1>1, <2>1 DEF DataOK
  <2>3. CallsEnd'
    BY <2>1 DEF CallsEnd, UnderWay
  <2>4. clock' \in Time
    BY <1>1, <2>1, ConstantsHold DEF Time, Constants
  <2>5. QED
    BY <1>3, <2>1, <2>2, <2>3, <2>4
<1>6. QED
  BY <1>2, <1>4, <1>5 DEF QuietAction

LEMMA NextActions ==
  Next => \/ \E e \in Event : TrackAction(e)
          \/ \E w \in Worker : FlushAction(w)
          \/ QuietAction
BY DEF Next, TrackAction, FlushAction, QuietAction, FaultStep

LEMMA SoundStep == Sound /\ [Next]_vars => Sound'
<1> SUFFICES ASSUME Sound, [Next]_vars PROVE Sound'
  OBVIOUS
<1>0. TypeOK /\ CallsEnd /\ clock \in Time /\ tracker \in [Event -> TrackPc]
  BY DEF Sound, TypeOK
<1>1. ASSUME WorkSound', DataOK', CallsEnd', clock' \in Time, tracker' \in [Event -> TrackPc]
      PROVE  Sound'
  <2>1. \A w \in Worker : Len(flush'[w].batch) <= FlushMaxBatch
    BY <1>1 DEF WorkSound, SlotsSound, SlotSound
  <2>2. TypeOK'
    BY <1>1, <2>1 DEF TypeOK, WorkSound, DataOK
  <2>3. QED
    BY <1>1, <2>2 DEF Sound, WorkSound
<1>2. ASSUME NEW e \in Event, TrackAction(e)
      PROVE  Sound'
  <2>1. /\ clock < MaxClock /\ clock' = clock /\ flush' = flush /\ stored \subseteq stored'
        /\ job' \in {job, WithFlushJob}
        /\ \E pc \in TrackPc : tracker' = [tracker EXCEPT ![e] = pc]
    BY <1>2, TrackShape
  <2>2. WorkSound'
    BY <2>1, AskSound
  <2>3. DataOK'
    BY <1>2, TrackData
  <2>4. CallsEnd' /\ clock' \in Time
    BY <1>0, <2>1, ConstantsHold DEF CallsEnd, Time, Constants
  <2>5. tracker' \in [Event -> TrackPc]
    BY <1>0, <2>1
  <2>6. QED
    BY <1>1, <2>2, <2>3, <2>4, <2>5
<1>3. ASSUME NEW w \in Worker, FlushAction(w)
      PROVE  Sound'
  <2>1. WorkSound' /\ clock' = clock /\ tracker' = tracker
    BY <1>3, FlushShape
  <2>2. DataOK'
    BY <1>3, FlushData
  <2>3. CallsEnd'
    BY <1>0, <2>1 DEF CallsEnd, UnderWay
  <2>4. QED
    BY <1>0, <1>1, <2>1, <2>2, <2>3
<1>4. CASE QuietAction
  <2>1. /\ WorkSound' /\ DataOK' /\ CallsEnd' /\ clock' \in Time
        /\ UNCHANGED <<flush, tracker, stored>>
    BY <1>4, QuietShape
  <2>2. QED
    BY <1>0, <1>1, <2>1
<1>5. CASE UNCHANGED vars
  <2>1. UNCHANGED <<clock, buffer, deadline, stored, tracker, job, flush, lost, stranded,
                    faultsLeft>>
    BY <1>5 DEF vars
  <2>2. TypeOK'
    BY <1>0, <2>1 DEF TypeOK
  <2>3. LockHeld' /\ SlotsSound' /\ JobsSound' /\ CallsEnd'
    BY <2>1 DEF Sound, LockHeld, SlotsSound, JobsSound, JobSound, CallsEnd, UnderWay
  <2>4. QED
    BY <2>2, <2>3 DEF Sound
<1>6. QED
  BY <1>2, <1>3, <1>4, <1>5, NextActions

(* The list, the slots, the jobs and the counters keep the types Redis,     *)
(* BullMQ and the code give them: no flush takes more than a batch, and no  *)
(* job runs more attempts than it has.                                      *)
THEOREM TypeCorrect == Spec => []TypeOK
<1>1. Sound => TypeOK
  BY DEF Sound
<1>2. QED
  BY <1>1, InitSound, SoundStep, PTL DEF Spec

----------------------------------------------------------------------------
(* No event vanishes.  A step that takes an event off the list or out of a  *)
(* batch puts it elsewhere: a batch that is complete is stored, chunk by    *)
(* chunk, because its slot counts as inserted only what is.                 *)

Found(e) == e \in Range(buffer) \union stored \union lost \/ InBatch(e)
OutOf(w) == Range(flush[w].batch)

LEMMA BatchesElsewhere ==
  ASSUME NEW w \in Worker, NEW e, \A x \in Worker \ {w} : flush'[x] = flush[x],
         InBatch(e), e \notin OutOf(w) \/ e \in Range(flush'[w].batch)
  PROVE  InBatch(e)'
<1>1. PICK x \in Worker : e \in Range(flush[x].batch)
  BY DEF InBatch
<1>2. e \in Range(flush'[x].batch)
  BY <1>1 DEF OutOf
<1>3. QED
  BY <1>2 DEF InBatch

LEMMA FlushKeeps ==
  ASSUME Sound, NEW w \in Worker, FlushAction(w), NEW e \in Event, Found(e)
  PROVE  Found(e)'
<1>0. /\ TypeOK /\ flush \in [Worker -> Slot] /\ SlotSound(flush[w], stored)
      /\ OutOf(w) = Range(flush[w].batch)
  BY DEF Sound, TypeOK, SlotsSound, OutOf
<1>1. ASSUME \A x \in Worker \ {w} : flush'[x] = flush[x],
             e \in OutOf(w) => Found(e)',
             e \in Range(buffer) => Found(e)',
             stored \subseteq stored', lost \subseteq lost'
      PROVE  Found(e)'
  <2>1. CASE InBatch(e) /\ e \notin OutOf(w)
    BY <1>1, <2>1, BatchesElsewhere DEF Found
  <2>2. QED
    BY <1>1, <2>1 DEF Found
<1>2. flush[w].pc \notin {"insert", "restore"} => OutOf(w) = {}
  BY <1>0, RangeOfEmpty DEF SlotSound
<1>3. \A x \in Worker \ {w} : flush'[x] = flush[x]
  BY <1>0 DEF FlushAction, FlushStep, TakeBatch, InsertChunk, InsertFails, Restore, ExpireRestored,
     RedisFails, Crash, LoseLock, TakeJob, Complete, FailAttempt, Idle
<1>4. stored \subseteq stored' /\ lost \subseteq lost'
  <2>1. lost \subseteq lost'
    BY DEF FlushAction, FlushStep, TakeBatch, InsertChunk, InsertFails, Restore, ExpireRestored,
       RedisFails, Crash, LoseLock, TakeJob
  <2>2. QED
    BY <2>1, FlushShape
<1>5. CASE TakeBatch(w)
  <2>1. flush[w].pc = "take" /\ buffer' = Rest
    BY <1>5 DEF TakeBatch, FlushAt, SetBuffer
  <2>2. ASSUME e \in Range(buffer)
        PROVE  Found(e)'
    <3>1. e \in Range(Batch) \/ e \in Range(Rest)
      BY <1>0, <2>2, BatchFacts
    <3>2. CASE e \in Range(Rest)
      BY <2>1, <3>2 DEF Found
    <3>3. CASE e \in Range(Batch)
      <4>1. Batch # <<>>
        BY <3>3, RangeOfEmpty
      <4>2. flush'[w].batch = Batch
        BY <1>0, <1>5, <4>1 DEF TakeBatch, Slot
      <4>3. InBatch(e)'
        BY <3>3, <4>2 DEF InBatch
      <4>4. QED
        BY <4>3 DEF Found
    <3>4. QED
      BY <3>1, <3>2, <3>3
  <2>3. QED
    BY <1>1, <1>2, <1>3, <1>4, <2>1, <2>2
<1>6. CASE InsertChunk(w)
  <2>1. /\ flush[w].pc = "insert" /\ stored' = stored \union Range(Chunk(w)) /\ buffer' = buffer
    BY <1>6 DEF InsertChunk, FlushAt
  <2>2. ASSUME e \in OutOf(w)
        PROVE  Found(e)'
    <3> DEFINE n == flush[w].inserted + Len(Chunk(w))
    <3>1. CASE n = Len(flush[w].batch)
      <4>1. /\ flush[w].batch \in Seq(Event) /\ flush[w].inserted \in Nat
            /\ Len(flush[w].batch) \in Nat
        BY <1>0, EventRanges, LenProperties
      <4>2. PICK i \in 1..Len(flush[w].batch) : flush[w].batch[i] = e
        BY <2>2, <4>1, RangeElements DEF OutOf
      <4>3. CASE i <= flush[w].inserted
        <5>1. flush[w].batch[i] \in stored
          BY <1>0, <2>1, <4>1, <4>3 DEF SlotSound
        <5>2. QED
          BY <2>1, <4>2, <5>1 DEF Found
      <4>4. CASE ~(i <= flush[w].inserted)
        <5>1. i \in flush[w].inserted + 1..n
          BY <3>1, <4>1, <4>4
        <5>2. flush[w].batch[i] \in Range(Chunk(w))
          BY <1>0, <2>1, <5>1, ChunkFacts DEF SlotSound
        <5>3. QED
          BY <2>1, <4>2, <5>2 DEF Found
      <4>5. QED
        BY <4>3, <4>4
    <3>2. CASE n # Len(flush[w].batch)
      <4>1. flush'[w].batch = flush[w].batch
        BY <1>0, <1>6, <3>2 DEF InsertChunk, Slot
      <4>2. InBatch(e)'
        BY <2>2, <4>1 DEF InBatch, OutOf
      <4>3. QED
        BY <4>2 DEF Found
    <3>3. QED
      BY <3>1, <3>2
  <2>3. e \in Range(buffer) => Found(e)'
    BY <2>1 DEF Found
  <2>4. QED
    BY <1>1, <1>3, <1>4, <2>2, <2>3
<1>7. CASE InsertFails(w)
  <2>1. flush'[w].batch = flush[w].batch /\ buffer' = buffer
    BY <1>0, <1>7 DEF InsertFails, Slot
  <2>2. e \in OutOf(w) => InBatch(e)'
    BY <2>1 DEF InBatch, OutOf
  <2>3. QED
    BY <1>1, <1>3, <1>4, <2>1, <2>2 DEF Found
<1>8. CASE Restore(w)
  <2>1. buffer' = flush[w].batch \o buffer
    BY <1>8 DEF Restore, SetBuffer
  <2>2. flush[w].batch \in Seq(Event) /\ buffer \in Seq(Event)
    BY <1>0, EventRanges DEF TypeOK
  <2>3. Range(buffer') = OutOf(w) \union Range(buffer)
    BY <1>0, <2>1, <2>2, RangeOfConcat
  <2>4. QED
    BY <1>1, <1>3, <1>4, <2>3 DEF Found
<1>9. CASE ExpireRestored(w)
  <2>1. flush[w].pc = "expire" /\ buffer' = buffer
    BY <1>9 DEF ExpireRestored, FlushAt
  <2>2. QED
    BY <1>1, <1>2, <1>3, <1>4, <2>1 DEF Found
<1>10. CASE RedisFails(w)
  <2>1. PICK rest \in {buffer, Rest} :
          /\ SetBuffer(rest)
          /\ lost' = lost \union Unsaved((Range(flush[w].batch) \union Range(buffer)) \ Range(rest))
          /\ FailAttempt(w, Range(rest))
    BY <1>10 DEF RedisFails
  <2>2. buffer' = rest /\ stored' = stored
    BY <1>10, <2>1 DEF RedisFails, SetBuffer
  <2>3. e \in OutOf(w) \union Range(buffer) => e \in Range(buffer') \union stored' \union lost'
    BY <1>0, <2>1, <2>2 DEF Unsaved
  <2>4. QED
    BY <1>1, <1>3, <1>4, <2>3 DEF Found
<1>11. CASE Crash(w)
  <2>1. buffer' = buffer /\ lost' = lost \union (OutOf(w) \ (Range(buffer) \union stored'))
    BY <1>0, <1>11 DEF Crash
  <2>2. QED
    BY <1>1, <1>3, <1>4, <2>1 DEF Found
<1>12. CASE LoseLock(w)
  <2>1. flush' = flush /\ buffer' = buffer
    BY <1>12 DEF LoseLock
  <2>2. InBatch(e)' <=> InBatch(e)
    BY <2>1 DEF InBatch
  <2>3. QED
    BY <1>4, <2>1, <2>2 DEF Found
<1>13. ASSUME NEW b \in Bucket, TakeJob(w, b)
       PROVE  Found(e)'
  <2>1. flush[w].pc = "idle" /\ buffer' = buffer
    BY <1>13 DEF TakeJob, FlushAt
  <2>2. QED
    BY <1>1, <1>2, <1>3, <1>4, <2>1 DEF Found
<1>14. QED
  BY <1>5, <1>6, <1>7, <1>8, <1>9, <1>10, <1>11, <1>12, <1>13 DEF FlushAction, FlushStep

LEMMA TrackKeeps ==
  ASSUME Sound, NEW f \in Event, TrackAction(f), NEW e \in Event, Found(e)
  PROVE  Found(e)'
<1> USE DEF TrackAction, TrackStep
<1>0. buffer \in Seq(Event) /\ FlushMaxBatch \in Nat
  BY ConstantsHold DEF Sound, TypeOK, Constants
<1>1. flush' = flush /\ stored \subseteq stored'
  BY TrackShape
<1>2. InBatch(e)' <=> InBatch(e)
  BY <1>1 DEF InBatch
<1>3. lost \subseteq lost'
  BY DEF Track, Expire, Length, Trim, AddFlushJob, Fallback, TrackFails, TrackEnds
<1>4. e \in Range(buffer) => e \in Range(buffer') \union stored' \union lost'
  <2>1. CASE Track(f)
    <3>1. buffer' = Append(buffer, f)
      BY <2>1 DEF Track, SetBuffer
    <3>2. QED
      BY <1>0, <3>1, RangeOfAppend
  <2>2. CASE Trim(f)
    <3>1. /\ buffer' = Newest(buffer, FlushMaxBatch) /\ stored' = stored
          /\ lost' = lost \union Unsaved(Range(buffer) \ Range(buffer'))
      BY <2>2 DEF Trim, SetBuffer
    <3>2. QED
      BY <3>1 DEF Unsaved
  <2>3. CASE ~Track(f) /\ ~Trim(f)
    <3>1. buffer' = buffer
      BY <2>3 DEF Expire, Length, AddFlushJob, Fallback, TrackFails, TrackEnds
    <3>2. QED
      BY <3>1
  <2>4. QED
    BY <2>1, <2>2, <2>3
<1>5. QED
  BY <1>1, <1>2, <1>3, <1>4 DEF Found

(* A call that begins puts its event on the list; one that ends without has *)
(* stored it or given it up.                                                *)
OnItsWay == {"expire", "length", "trim", "add", "done"}

LEMMA TrackFinds ==
  ASSUME Sound, NEW e \in Event, TrackAction(e), tracker'[e] \in OnItsWay,
         tracker[e] \notin OnItsWay
  PROVE  Found(e)'
<1> USE DEF TrackAction, TrackStep, TrackAt, TrackTo, OnItsWay
<1>0. /\ buffer \in Seq(Event) /\ FlushMaxBatch \in Nat /\ tracker \in [Event -> TrackPc]
  BY ConstantsHold DEF Sound, TypeOK, Constants
<1>1. Track(e) \/ Fallback(e) \/ TrackEnds(e)
  BY <1>0 DEF Expire, Length, Trim, AddFlushJob, TrackFails
<1>2. CASE Track(e)
  <2>1. buffer' = Append(buffer, e)
    BY <1>2 DEF Track, SetBuffer
  <2>2. e \in Range(buffer')
    BY <1>0, <2>1, RangeOfAppend
  <2>3. QED
    BY <2>2 DEF Found
<1>3. CASE Fallback(e)
  BY <1>3 DEF Fallback, Found
<1>4. CASE TrackEnds(e)
  <2>1. /\ UNCHANGED <<buffer, stored, flush>>
        /\ lost' = IF e \in Range(buffer) \/ InBatch(e) THEN lost ELSE lost \union Unsaved({e})
    BY <1>4 DEF TrackEnds
  <2>2. InBatch(e)' <=> InBatch(e)
    BY <2>1 DEF InBatch
  <2>3. QED
    BY <2>1, <2>2 DEF Found, Unsaved
<1>5. QED
  BY <1>1, <1>2, <1>3, <1>4

LEMMA VanishStep == Sound /\ NothingVanishes /\ [Next]_vars => NothingVanishes'
<1> SUFFICES ASSUME Sound, NothingVanishes, [Next]_vars, NEW e \in Event,
                    tracker'[e] \in OnItsWay
             PROVE  Found(e)'
  BY DEF NothingVanishes, OnItsWay, Found
<1>0. tracker[e] \in OnItsWay => Found(e)
  BY DEF NothingVanishes, OnItsWay, Found
<1>1. ASSUME NEW f \in Event, TrackAction(f)
      PROVE  Found(e)'
  <2>1. CASE tracker[e] \in OnItsWay
    BY <1>0, <1>1, <2>1, TrackKeeps
  <2>2. CASE tracker[e] \notin OnItsWay
    <3>1. f = e
      BY <1>1, <2>2, TrackShape
    <3>2. QED
      BY <1>1, <2>2, <3>1, TrackFinds
  <2>3. QED
    BY <2>1, <2>2
<1>2. ASSUME NEW w \in Worker, FlushAction(w)
      PROVE  Found(e)'
  BY <1>0, <1>2, FlushShape, FlushKeeps
<1>3. CASE QuietAction
  <2>1. UNCHANGED <<flush, tracker, stored>>
    BY <1>3, QuietShape
  <2>2. lost \subseteq lost' /\ (e \in Range(buffer) => e \in Range(buffer') \union stored' \union lost')
    BY <1>3, <2>1 DEF QuietAction, RecoverStalled, ExpireBuffer, Tick, Unsaved
  <2>3. InBatch(e)' <=> InBatch(e)
    BY <2>1 DEF InBatch
  <2>4. QED
    BY <1>0, <2>1, <2>2, <2>3 DEF Found
<1>4. CASE UNCHANGED vars
  BY <1>0, <1>4 DEF vars, Found, InBatch
<1>5. QED
  BY <1>1, <1>2, <1>3, <1>4, NextActions

(* Every tracked event is on the list, in a batch or stored, or was given   *)
(* up by the trimming, the expiry or a fault: whatever flushes, restores    *)
(* and crashes interleave, whatever the sizes of batch and chunk.           *)
THEOREM NothingEverVanishes == Spec => []NothingVanishes
<1>1. Init => NothingVanishes
  BY DEF Init, NothingVanishes
<1>2. QED
  BY <1>1, InitSound, SoundStep, VanishStep, PTL DEF Spec

----------------------------------------------------------------------------
(* A flush is coming.  Whoever takes a job away that was to flush, or ends  *)
(* one, leaves nothing on the list behind it that is not marked stranded.   *)

BeforeAsking == {"expire", "length", "trim", "add", "fallback"}
Waiting(e) == e \in Range(buffer) /\ e \notin stored /\ e \notin stranded
Served(e) == FlushComing \/ tracker[e] \in BeforeAsking

(* A job that changes hands was held by w, or was known to nobody.          *)
LEMMA ComingKept ==
  ASSUME Sound, FlushComing, NEW w,
         \A x \in Worker : x # w => flush'[x] = flush[x],
         w \in Worker => flush[w].pc # "take",
         \A b \in Bucket : \/ job'[b] = job[b]
                           \/ w \in Worker /\ job[b].owner = w
                           \/ job[b].state = "none"
  PROVE  FlushComing'
<1>1. PICK b \in Bucket :
        \/ job[b].state = "delayed"
        \/ job[b].state = "active" /\ job[b].owner = None
        \/ \E x \in Worker : job[b].owner = x /\ flush[x].pc = "take"
  BY DEF FlushComing, FlushAt
<1>2. /\ \A x \in Worker : job[b].owner = x => job[b].state = "active"
      /\ None \notin Worker
  BY ConstantsHold DEF Sound, LockHeld, Constants
<1>3. CASE job[b].state = "delayed"
  <2>1. job'[b] = job[b]
    BY <1>2, <1>3
  <2>2. QED
    BY <1>3, <2>1 DEF FlushComing
<1>4. CASE job[b].state = "active" /\ job[b].owner = None
  <2>1. job'[b] = job[b]
    BY <1>2, <1>4
  <2>2. QED
    BY <1>4, <2>1 DEF FlushComing
<1>5. ASSUME NEW x \in Worker, job[b].owner = x, flush[x].pc = "take"
      PROVE  FlushComing'
  <2>1. x # w /\ job[b].state = "active"
    BY <1>2, <1>5
  <2>2. job'[b] = job[b] /\ flush'[x] = flush[x]
    BY <1>5, <2>1
  <2>3. job'[b].owner = x /\ flush'[x].pc = "take"
    BY <1>5, <2>2
  <2>4. QED
    BY <2>3 DEF FlushComing, FlushAt
<1>6. QED
  BY <1>1, <1>3, <1>4, <1>5

LEMMA FlushServes ==
  ASSUME Sound, FlushIsComing, NEW w \in Worker, FlushAction(w), NEW e \in Event, Waiting(e)'
  PROVE  Served(e)'
<1> USE DEF FlushAction, FlushStep
<1>0. /\ TypeOK /\ flush \in [Worker -> Slot] /\ job \in [Bucket -> Job]
      /\ tracker' = tracker /\ stored \subseteq stored'
  BY FlushShape DEF Sound, TypeOK
<1>1. ASSUME buffer' = buffer, stranded' = stranded
      PROVE  FlushComing \/ Served(e)'
  BY <1>0, <1>1 DEF FlushIsComing, Waiting, Served, BeforeAsking
<1>2. CASE TakeBatch(w)
  <2>1. buffer' = Rest /\ stranded' = stranded \union Range(Rest)
    BY <1>2 DEF TakeBatch, SetBuffer
  <2>2. QED
    BY <2>1 DEF Waiting
<1>3. CASE InsertChunk(w) \/ InsertFails(w)
  <2>1. /\ flush[w].pc = "insert" /\ buffer' = buffer /\ stranded' = stranded
        /\ \A x \in Worker : x # w => flush'[x] = flush[x]
    BY <1>0, <1>3 DEF InsertChunk, InsertFails, FlushAt, Complete, Idle
  <2>2. job' = job \/ Complete(w)
    BY <1>3 DEF InsertChunk, InsertFails
  <2>3. \A b \in Bucket : job'[b] = job[b] \/ job[b].owner = w
    BY <1>0, <2>2 DEF Complete, Owns, BucketOf
  <2>4. FlushComing => FlushComing'
    BY <2>1, <2>3, ComingKept
  <2>5. QED
    BY <1>1, <2>1, <2>4 DEF Served
<1>4. CASE Restore(w)
  <2>1. stranded' = stranded \union Range(buffer')
    BY <1>4 DEF Restore
  <2>2. QED
    BY <2>1 DEF Waiting
<1>5. CASE ExpireRestored(w)
  <2>1. buffer' = buffer /\ stranded' = stranded \union Range(buffer)
    BY <1>5 DEF ExpireRestored, FailAttempt
  <2>2. QED
    BY <2>1 DEF Waiting
<1>6. CASE RedisFails(w)
  <2>1. stranded' = stranded \union Range(buffer')
    BY <1>6 DEF RedisFails, SetBuffer, FailAttempt
  <2>2. QED
    BY <2>1 DEF Waiting
<1>7. CASE Crash(w) \/ LoseLock(w)
  <2>1. buffer' = buffer /\ stranded' = stranded
    BY <1>7 DEF Crash, LoseLock
  <2>2. CASE Owns(w)
    <3>1. /\ flush[w].bucket \in Bucket /\ job[flush[w].bucket] \in Job
          /\ job[flush[w].bucket].state = "active"
      BY <2>2, OwnedJob
    <3>2. job' = [job EXCEPT ![flush[w].bucket].owner = None]
      BY <1>7, <2>2 DEF Crash, LoseLock, BucketOf
    <3>3. job'[flush[w].bucket].state = "active" /\ job'[flush[w].bucket].owner = None
      BY <1>0, <3>1, <3>2 DEF Job
    <3>4. QED
      BY <3>1, <3>3 DEF Served, FlushComing
  <2>3. CASE ~Owns(w)
    <3>1. job' = job /\ flush' = [flush EXCEPT ![w] = IdleSlot]
      BY <1>7, <2>3 DEF Crash, LoseLock, Idle
    <3>2. FlushComing => FlushComing'
      <4>1. SUFFICES ASSUME NEW b \in Bucket, NEW x \in Worker, job[b].owner = x, FlushAt(x, "take")
                     PROVE  FlushComing'
        BY <3>1 DEF FlushComing
      <4>2. flush[x].bucket = b
        BY <4>1 DEF Sound, LockHeld
      <4>3. x # w
        BY <2>3, <4>1, <4>2 DEF Owns, BucketOf
      <4>4. job'[b].owner = x /\ flush'[x].pc = "take"
        BY <3>1, <4>1, <4>3 DEF FlushAt
      <4>5. QED
        BY <4>4 DEF FlushComing, FlushAt
    <3>3. QED
      BY <1>1, <2>1, <3>2 DEF Served
  <2>4. QED
    BY <2>2, <2>3
<1>8. ASSUME NEW b \in Bucket, TakeJob(w, b)
      PROVE  Served(e)'
  <2>1. /\ job' = [job EXCEPT ![b].state = "active", ![b].owner = w]
        /\ flush' = [flush EXCEPT ![w] = [IdleSlot EXCEPT !.pc = "take", !.bucket = b]]
    BY <1>8 DEF TakeJob
  <2>2. job'[b].owner = w
    BY <1>0, <2>1 DEF Job
  <2>3. flush'[w].pc = "take"
    BY <1>0, <2>1, IdleSlotType DEF Slot
  <2>4. QED
    BY <2>2, <2>3 DEF Served, FlushComing, FlushAt
<1>9. QED
  BY <1>2, <1>3, <1>4, <1>5, <1>6, <1>7, <1>8

LEMMA TrackServes ==
  ASSUME Sound, FlushIsComing, NEW f \in Event, TrackAction(f), NEW e \in Event, Waiting(e)'
  PROVE  Served(e)'
<1> USE DEF TrackAction, TrackStep, TrackAt, TrackTo, BeforeAsking
<1>0. /\ buffer \in Seq(Event) /\ tracker \in [Event -> TrackPc] /\ job \in [Bucket -> Job]
      /\ FlushMaxBatch \in Nat
  BY ConstantsHold DEF Sound, TypeOK, Constants
<1>1. /\ clock < MaxClock /\ clock' = clock /\ flush' = flush /\ stored \subseteq stored'
      /\ job' \in {job, WithFlushJob}
      /\ \A g \in Event \ {f} : tracker'[g] = tracker[g]
  BY TrackShape
<1>2. FlushComing => FlushComing'
  <2>1. \A b \in Bucket : job'[b] = job[b] \/ job[b].state = "none"
    BY <1>0, <1>1 DEF WithFlushJob
  <2>2. QED
    BY <1>1, <2>1, ConstantsHold, ComingKept DEF Constants
<1>3. CASE AddFlushJob(f)
  <2>1. clock \in Bucket
    BY <1>1, ConstantsHold DEF Sound, TypeOK, Time, Bucket, Constants
  <2>2. job[clock].state \in {"none", "delayed"}
    BY <2>1, ConstantsHold DEF Sound, JobsSound, JobSound, TypeOK, Time, Constants
  <2>3. job' = WithFlushJob
    BY <1>3 DEF AddFlushJob
  <2>4. job'[clock].state = "delayed"
    BY <1>0, <2>1, <2>2, <2>3, DelayedType DEF WithFlushJob
  <2>5. QED
    BY <2>1, <2>4 DEF Served, FlushComing
<1>4. CASE ~AddFlushJob(f)
  <2>1. stranded \subseteq stranded'
    BY <1>4 DEF Track, Expire, Length, Trim, Fallback, TrackFails, TrackEnds
  <2>2. e = f \/ e \in Range(buffer)
    <3>1. CASE Track(f)
      <4>1. buffer' = Append(buffer, f)
        BY <3>1 DEF Track, SetBuffer
      <4>2. QED
        BY <1>0, <4>1, RangeOfAppend DEF Waiting
    <3>2. CASE Trim(f)
      <4>1. buffer' = Newest(buffer, FlushMaxBatch)
        BY <3>2 DEF Trim, SetBuffer
      <4>2. QED
        BY <1>0, <4>1, NewestFacts DEF Waiting
    <3>3. CASE ~Track(f) /\ ~Trim(f)
      <4>1. buffer' = buffer
        BY <1>4, <3>3 DEF Expire, Length, Fallback, TrackFails, TrackEnds
      <4>2. QED
        BY <4>1 DEF Waiting
    <3>4. QED
      BY <3>1, <3>2, <3>3
  <2>3. CASE e = f
    <3>1. CASE Fallback(f) \/ TrackEnds(f)
      BY <2>3, <3>1 DEF Fallback, TrackEnds, Waiting
    <3>2. CASE ~(Fallback(f) \/ TrackEnds(f))
      <4>1. tracker'[e] \in BeforeAsking
        BY <1>0, <1>4, <2>3, <3>2 DEF Track, Expire, Length, Trim, TrackFails
      <4>2. QED
        BY <4>1 DEF Served
    <3>3. QED
      BY <3>1, <3>2
  <2>4. CASE e # f
    <3>1. e \in Range(buffer) /\ e \notin stored /\ e \notin stranded
      BY <1>1, <2>1, <2>2, <2>4 DEF Waiting
    <3>2. FlushComing \/ tracker[e] \in BeforeAsking
      BY <3>1 DEF FlushIsComing
    <3>3. QED
      BY <1>1, <1>2, <2>4, <3>2 DEF Served
  <2>5. QED
    BY <2>3, <2>4
<1>5. QED
  BY <1>3, <1>4

LEMMA ComingStep == Sound /\ FlushIsComing /\ [Next]_vars => FlushIsComing'
<1> SUFFICES ASSUME Sound, FlushIsComing, [Next]_vars PROVE FlushIsComing'
  OBVIOUS
<1>0. Sound' /\ Range(buffer') \subseteq Event
  <2>1. Sound'
    BY SoundStep
  <2>2. buffer' \in Seq(Event)
    BY <2>1 DEF Sound, TypeOK
  <2>3. QED
    BY <2>1, <2>2, RangeElements
<1>1. ASSUME \A e \in Event : Waiting(e)' => Served(e)'
      PROVE  FlushIsComing'
  BY <1>0, <1>1 DEF FlushIsComing, Waiting, Served, BeforeAsking
<1>2. ASSUME NEW f \in Event, TrackAction(f)
      PROVE  FlushIsComing'
  BY <1>1, <1>2, TrackServes
<1>3. ASSUME NEW w \in Worker, FlushAction(w)
      PROVE  FlushIsComing'
  BY <1>1, <1>3, FlushServes
<1>4. ASSUME NEW e \in Event, Waiting(e)', QuietAction \/ UNCHANGED vars
      PROVE  Served(e)'
  <2>1. CASE \E b \in Bucket : RecoverStalled(b)
    BY <1>4, <2>1 DEF RecoverStalled, Waiting
  <2>2. CASE ExpireBuffer
    BY <1>4, <2>2, RangeOfEmpty DEF ExpireBuffer, SetBuffer, Waiting
  <2>3. CASE Tick \/ UNCHANGED vars
    <3>1. UNCHANGED <<buffer, stored, stranded, tracker, job, flush>>
      BY <2>3 DEF Tick, vars
    <3>2. FlushComing' <=> FlushComing
      BY <3>1 DEF FlushComing, FlushAt
    <3>3. QED
      BY <1>4, <3>1, <3>2 DEF FlushIsComing, Waiting, Served, BeforeAsking
  <2>4. QED
    BY <1>4, <2>1, <2>2, <2>3 DEF QuietAction
<1>5. QED
  BY <1>1, <1>2, <1>3, <1>4, NextActions

(* An event on the list has a flush coming that has yet to take its batch,  *)
(* unless its call is still to ask for one, more than a batch was waiting,  *)
(* or a fault is the reason: the one job a bucket, and the job that is not  *)
(* added again while its id is known, never leave an event behind.          *)
THEOREM AFlushIsComing == Spec => []FlushIsComing
<1>1. Init => FlushIsComing
  BY RangeOfEmpty DEF Init, FlushIsComing
<1>2. QED
  BY <1>1, InitSound, SoundStep, ComingStep, PTL DEF Spec

----------------------------------------------------------------------------
(* ReadingStats.  The numbers in their order, and induction over them.     *)

Before == OpToRel(<, Nat)

LEMMA BeforePairs == \A m, n \in Nat : <<m, n>> \in Before <=> m < n
BY Zenon DEF OpToRel, Before

LEMMA LeastOf ==
  ASSUME NEW T, T \subseteq Nat, T # {}
  PROVE  \E x \in T : \A y \in T : x <= y
<1>1. IsWellFoundedOn(Before, Nat)
  BY NatLessThanWellFounded, Zenon DEF Before
<1>2. PICK x \in T : \A y \in T : ~ (<<y, x>> \in Before)
  BY <1>1, WFMin
<1>3. ASSUME NEW y \in T PROVE x <= y
  <2>1. x \in Nat /\ y \in Nat /\ ~(<<y, x>> \in Before)
    BY <1>2
  <2>2. ~(y < x)
    BY <2>1, BeforePairs
  <2> QED BY <2>1, <2>2
<1> QED BY <1>3

(* Induction over the numbers, for a set of them. *)
LEMMA AllNumbers ==
  ASSUME NEW G, 0 \in G, \A n \in Nat : n \in G => n + 1 \in G
  PROVE  Nat \subseteq G
<1> SUFFICES ASSUME Nat \ G # {} PROVE FALSE
  OBVIOUS
<1>1. PICK m \in Nat \ G : \A y \in Nat \ G : m <= y
  BY LeastOf
<1>2. m # 0 /\ m - 1 \in Nat
  BY <1>1
<1>3. m - 1 \in G
  BY <1>1, <1>2
<1> QED BY <1>1, <1>2, <1>3

LEMMA OneLess ==
  ASSUME NEW T, IsFiniteSet(T), NEW x \in T
  PROVE  /\ IsFiniteSet(T \ {x}) /\ Cardinality(T) \in Nat /\ Cardinality(T \ {x}) \in Nat
         /\ Cardinality(T) = Cardinality(T \ {x}) + 1
<1>1. Cardinality(T) \in Nat /\ IsFiniteSet(T \ {x}) /\ Cardinality(T \ {x}) \in Nat
  BY FS_CardinalityType, FS_RemoveElement
<1>2. Cardinality(T \ {x}) = Cardinality(T) - 1
  BY FS_RemoveElement
<1> QED BY <1>1, <1>2

(* Induction over the subsets of a finite set, for a set of them. *)
LEMMA AllSubsets ==
  ASSUME NEW S, IsFiniteSet(S), NEW G, {} \in G,
         \A T \in SUBSET S : T # {} /\ (\A x \in T : T \ {x} \in G) => T \in G
  PROVE  \A T \in SUBSET S : T \in G
<1> DEFINE Good == {n \in Nat : \A T \in SUBSET S : Cardinality(T) = n => T \in G}
<1>1. 0 \in Good
  BY FS_EmptySet, FS_Subset
<1>2. ASSUME NEW n \in Nat, n \in Good PROVE n + 1 \in Good
  <2>1. ASSUME NEW T \in SUBSET S, Cardinality(T) = n + 1 PROVE T \in G
    <3>1. IsFiniteSet(T)
      BY FS_Subset
    <3>2. T # {}
      <4>1. Cardinality({}) = 0
        BY FS_EmptySet
      <4> QED BY <2>1, <4>1
    <3>3. ASSUME NEW x \in T PROVE T \ {x} \in G
      <4>1. Cardinality(T \ {x}) = n
        <5>1. Cardinality(T) = Cardinality(T \ {x}) + 1 /\ Cardinality(T \ {x}) \in Nat
          BY <3>1, OneLess
        <5> QED BY <2>1, <5>1
      <4> QED BY <1>2, <4>1
    <3> QED BY <3>2, <3>3
  <2> QED BY <2>1
<1>3. Nat \subseteq Good
  <2> HIDE DEF Good
  <2> QED BY <1>1, <1>2, AllNumbers
<1>4. ASSUME NEW T \in SUBSET S PROVE T \in G
  <2>1. Cardinality(T) \in Nat
    BY FS_Subset, FS_CardinalityType
  <2> QED BY <1>3, <2>1
<1> QED BY <1>4

(* A fold over a finite set is a function of its subsets. *)
FoldsTo(g, S, base, pick, body) ==
  \A T \in SUBSET S :
    g[T] = IF T = {} THEN base ELSE body[<<pick[T], g[T \ {pick[T]}]>>]

LEMMA FoldIsDefined ==
  ASSUME NEW S, IsFiniteSet(S), NEW V, NEW base \in V, NEW body \in [S \X V -> V],
         NEW pick, \A T \in SUBSET S : T # {} => pick[T] \in T
  PROVE  \E g \in [SUBSET S -> V] : FoldsTo(g, S, base, pick, body)
<1> DEFINE Step(g, T) == IF T = {} THEN base ELSE body[<<pick[T], g[T \ {pick[T]}]>>]
           UpTo(g, n) == \A T \in SUBSET S : Cardinality(T) <= n => g[T] = Step(g, T)
           Good == {n \in Nat : \E g \in [SUBSET S -> V] : UpTo(g, n)}
<1>1. \A T \in SUBSET S : IsFiniteSet(T) /\ Cardinality(T) \in Nat
  BY FS_Subset, FS_CardinalityType
<1>2. 0 \in Good
  <2>1. [T \in SUBSET S |-> base] \in [SUBSET S -> V]
    OBVIOUS
  <2>2. \A T \in SUBSET S : Cardinality(T) <= 0 => T = {}
    BY <1>1, FS_EmptySet
  <2>3. UpTo([T \in SUBSET S |-> base], 0)
    BY <2>2
  <2> HIDE DEF UpTo
  <2> QED BY <2>1, <2>3
<1>3. ASSUME NEW n \in Nat, n \in Good PROVE n + 1 \in Good
  <2>1. PICK g \in [SUBSET S -> V] : UpTo(g, n)
    BY <1>3
  <2> DEFINE h == [T \in SUBSET S |-> Step(g, T)]
  <2>2. ASSUME NEW T \in SUBSET S, T # {}
        PROVE  pick[T] \in S /\ T \ {pick[T]} \in SUBSET S
    BY <2>2
  <2>3. ASSUME NEW T \in SUBSET S PROVE Step(g, T) \in V
    <3>1. CASE T = {}
      BY <3>1
    <3>2. CASE T # {}
      <4>1. g[T \ {pick[T]}] \in V
        BY <2>2, <3>2
      <4> QED BY <2>2, <3>2, <4>1
    <3> QED BY <3>1, <3>2
  <2>4. h \in [SUBSET S -> V]
    <3> HIDE DEF Step
    <3> QED BY <2>3
  <2>5. ASSUME NEW T \in SUBSET S, Cardinality(T) <= n + 1 PROVE h[T] = Step(h, T)
    <3>1. CASE T = {}
      BY <3>1
    <3>2. CASE T # {}
      <4> DEFINE U == T \ {pick[T]}
      <4>1. U \in SUBSET S /\ pick[T] \in T
        BY <3>2
      <4>2. Cardinality(U) <= n
        BY <1>1, <2>5, <4>1, FS_RemoveElement
      <4>3. g[U] = Step(g, U)
        BY <2>1, <4>1, <4>2
      <4>4. h[U] = g[U]
        BY <4>1, <4>3
      <4>5. h[T] = body[<<pick[T], g[U]>>]
        BY <3>2
      <4> QED BY <3>2, <4>4, <4>5
    <3> QED BY <3>1, <3>2
  <2>6. UpTo(h, n + 1)
    <3> HIDE DEF h, Step
    <3> QED BY <2>5
  <2> HIDE DEF h, UpTo
  <2> QED BY <2>4, <2>6
<1>4. Cardinality(S) \in Good
  <2> HIDE DEF Good
  <2> QED BY <1>1, <1>2, <1>3, AllNumbers
<1>5. PICK g \in [SUBSET S -> V] : UpTo(g, Cardinality(S))
  BY <1>4
<1>6. \A T \in SUBSET S : Cardinality(T) <= Cardinality(S)
  BY FS_Subset
<1> QED BY <1>5, <1>6 DEF FoldsTo
----------------------------------------------------------------------------
(* Sums over a finite set. *)

First(T) == CHOOSE x \in T : TRUE
Numeric(f, S) == IsFiniteSet(S) /\ \A x \in S : f[x] \in Nat
Adds(g, f, S) == g = [T \in SUBSET S |-> IF T = {} THEN 0 ELSE f[First(T)] + g[T \ {First(T)}]]
SumOf(f, S) == CHOOSE g : Adds(g, f, S)

LEMMA SumIs ==
  ASSUME NEW f, NEW S, Numeric(f, S)
  PROVE  SumOver(f, S) = SumOf(f, S)[S] /\ Adds(SumOf(f, S), f, S)
<1>1. SumOver(f, S) = SumOf(f, S)[S]
  BY DEF SumOver, MapThenSumSet, MapThenFoldSet, SumOf, Adds, First
<1>2. \E g : Adds(g, f, S)
  <2> DEFINE pick == [T \in SUBSET S |-> First(T)]
             body == [p \in S \X Nat |-> f[p[1]] + p[2]]
  <2>1. \A T \in SUBSET S : T # {} => First(T) \in T
    BY DEF First
  <2>2. body \in [S \X Nat -> Nat]
    BY DEF Numeric
  <2>3. \A T \in SUBSET S : T # {} => pick[T] \in T
    BY <2>1
  <2>4. PICK g \in [SUBSET S -> Nat] : FoldsTo(g, S, 0, pick, body)
    <3> HIDE DEF pick, body
    <3> QED BY <2>2, <2>3, FoldIsDefined DEF Numeric
  <2>5. ASSUME NEW T \in SUBSET S
        PROVE  g[T] = IF T = {} THEN 0 ELSE f[First(T)] + g[T \ {First(T)}]
    <3>1. g[T] = IF T = {} THEN 0 ELSE body[<<pick[T], g[T \ {pick[T]}]>>]
      BY <2>4 DEF FoldsTo
    <3>2. CASE T = {}
      BY <3>1, <3>2
    <3>3. CASE T # {}
      <4>1. First(T) \in S /\ T \ {First(T)} \in SUBSET S
        BY <2>1, <3>3
      <4>2. g[T \ {First(T)}] \in Nat
        BY <2>4, <4>1
      <4>3. body[<<First(T), g[T \ {First(T)}]>>] = f[First(T)] + g[T \ {First(T)}]
        BY <4>1, <4>2
      <4> QED BY <3>1, <3>3, <4>3
    <3> QED BY <3>2, <3>3
  <2>6. Adds(g, f, S)
    BY <2>4, <2>5 DEF Adds
  <2> QED BY <2>6
<1> QED BY <1>1, <1>2 DEF SumOf

\* what the sums over the parts of a set are
LEMMA SumsOfParts ==
  ASSUME NEW f, NEW S, Numeric(f, S)
  PROVE  \A T \in SUBSET S : SumOver(f, T) = SumOf(f, S)[T] /\ SumOver(f, T) \in Nat
<1> DEFINE Same(T) == \A R \in SUBSET S : T \subseteq R =>
                        SumOf(f, R)[T] = SumOf(f, S)[T] /\ SumOf(f, R)[T] \in Nat
           G == {T \in SUBSET S : Same(T)}
<1>1. \A R \in SUBSET S : Numeric(f, R)
  BY FS_Subset DEF Numeric
<1>2. ASSUME NEW R \in SUBSET S, NEW T \in SUBSET R
      PROVE  SumOf(f, R)[T] = IF T = {} THEN 0 ELSE f[First(T)] + SumOf(f, R)[T \ {First(T)}]
  <2>1. Adds(SumOf(f, R), f, R)
    BY <1>1, SumIs
  <2> QED BY <2>1 DEF Adds
<1>3. {} \in G
  <2>1. ASSUME NEW R \in SUBSET S PROVE SumOf(f, R)[{}] = 0
    <3>1. {} \in SUBSET R
      OBVIOUS
    <3> QED BY <1>2, <3>1
  <2>2. {} \in SUBSET S /\ S \in SUBSET S
    OBVIOUS
  <2>3. Same({})
    BY <2>1, <2>2
  <2> QED BY <2>2, <2>3
<1>4. ASSUME NEW T \in SUBSET S, T # {}, \A x \in T : T \ {x} \in G PROVE T \in G
  <2>1. First(T) \in T /\ f[First(T)] \in Nat
    BY <1>4 DEF First, Numeric
  <2>2. Same(T \ {First(T)})
    BY <1>4, <2>1
  <2>3. ASSUME NEW R \in SUBSET S, T \subseteq R
        PROVE  SumOf(f, R)[T] = SumOf(f, S)[T] /\ SumOf(f, R)[T] \in Nat
    <3>1. /\ SumOf(f, R)[T] = f[First(T)] + SumOf(f, R)[T \ {First(T)}]
          /\ SumOf(f, S)[T] = f[First(T)] + SumOf(f, S)[T \ {First(T)}]
      BY <1>2, <1>4, <2>3
    <3>2. T \ {First(T)} \subseteq R
      BY <2>3
    <3>3. SumOf(f, R)[T \ {First(T)}] = SumOf(f, S)[T \ {First(T)}] /\ SumOf(f, R)[T \ {First(T)}] \in Nat
      BY <2>2, <3>2
    <3> QED BY <2>1, <3>1, <3>3
  <2> QED BY <2>3
<1>5. \A T \in SUBSET S : T \in G
  <2> HIDE DEF G
  <2>1. \A T \in SUBSET S : T # {} /\ (\A x \in T : T \ {x} \in G) => T \in G
    BY <1>4
  <2> QED BY <1>3, <2>1, AllSubsets DEF Numeric
<1>6. ASSUME NEW T \in SUBSET S PROVE SumOver(f, T) = SumOf(f, S)[T] /\ SumOver(f, T) \in Nat
  <2>1. Same(T)
    BY <1>5
  <2>2. SumOver(f, T) = SumOf(f, T)[T]
    BY <1>1, SumIs
  <2> QED BY <2>1, <2>2
<1> QED BY <1>6

\* the element a sum is taken over first does not matter
LEMMA SumTakesOut ==
  ASSUME NEW f, NEW S, Numeric(f, S)
  PROVE  /\ SumOver(f, {}) = 0 /\ SumOver(f, S) \in Nat
         /\ \A x \in S : f[x] \in Nat /\ SumOver(f, S \ {x}) \in Nat
                         /\ SumOver(f, S) = f[x] + SumOver(f, S \ {x})
<1> DEFINE Out(T) == \A x \in T : SumOver(f, T) = f[x] + SumOver(f, T \ {x})
           G == {T \in SUBSET S : Out(T)}
<1>1. \A T \in SUBSET S : SumOver(f, T) = SumOf(f, S)[T] /\ SumOver(f, T) \in Nat
  BY SumsOfParts
<1>2. ASSUME NEW T \in SUBSET S
      PROVE  SumOf(f, S)[T] = IF T = {} THEN 0 ELSE f[First(T)] + SumOf(f, S)[T \ {First(T)}]
  <2>1. Adds(SumOf(f, S), f, S)
    BY SumIs
  <2> QED BY <2>1 DEF Adds
<1>3. ASSUME NEW T \in SUBSET S, T # {}
      PROVE  First(T) \in T /\ SumOver(f, T) = f[First(T)] + SumOver(f, T \ {First(T)})
  <2>1. T \ {First(T)} \in SUBSET S
    OBVIOUS
  <2> QED BY <1>1, <1>2, <1>3, <2>1 DEF First
<1>4. ASSUME NEW T \in SUBSET S, T # {}, \A x \in T : T \ {x} \in G PROVE T \in G
  <2> DEFINE c == First(T)
  <2>1. c \in T /\ SumOver(f, T) = f[c] + SumOver(f, T \ {c})
    BY <1>3, <1>4
  <2> HIDE DEF c
  <2>2. ASSUME NEW x \in T PROVE SumOver(f, T) = f[x] + SumOver(f, T \ {x})
    <3>1. CASE x = c
      BY <2>1, <3>1
    <3>2. CASE x # c
      <4>1. Out(T \ {c}) /\ Out(T \ {x})
        BY <1>4, <2>1
      <4>2. x \in T \ {c} /\ c \in T \ {x} /\ (T \ {c}) \ {x} = (T \ {x}) \ {c}
        BY <2>1, <3>2
      <4>3. /\ SumOver(f, T \ {c}) = f[x] + SumOver(f, (T \ {c}) \ {x})
            /\ SumOver(f, T \ {x}) = f[c] + SumOver(f, (T \ {c}) \ {x})
        BY <4>1, <4>2
      <4>4. (T \ {c}) \ {x} \in SUBSET S
        OBVIOUS
      <4>5. SumOver(f, (T \ {c}) \ {x}) \in Nat /\ f[x] \in Nat /\ f[c] \in Nat
        BY <1>1, <2>1, <4>4 DEF Numeric
      <4> QED BY <2>1, <4>3, <4>5
    <3> QED BY <3>1, <3>2
  <2> QED BY <2>2
<1>5. S \in G
  <2>1. {} \in G
    OBVIOUS
  <2> HIDE DEF G
  <2>2. \A T \in SUBSET S : T # {} /\ (\A x \in T : T \ {x} \in G) => T \in G
    BY <1>4
  <2>3. \A T \in SUBSET S : T \in G
    BY <2>1, <2>2, AllSubsets DEF Numeric
  <2> QED BY <2>3
<1>6. SumOver(f, {}) = 0
  <2>1. {} \in SUBSET S
    OBVIOUS
  <2> QED BY <1>1, <1>2, <2>1
<1>7. \A x \in S : S \ {x} \in SUBSET S
  OBVIOUS
<1> QED BY <1>1, <1>5, <1>6, <1>7 DEF Numeric

\* a sum over more is no less, and it is at least as many as count in it
LEMMA SumGrows ==
  ASSUME NEW f, NEW S, Numeric(f, S)
  PROVE  /\ \A T \in SUBSET S : SumOver(f, T) <= SumOver(f, S)
         /\ Cardinality({x \in S : f[x] > 0}) <= SumOver(f, S)
<1> DEFINE Positive(T) == {x \in T : f[x] > 0}
           Bounds(T) == /\ \A R \in SUBSET T : SumOver(f, R) <= SumOver(f, T)
                        /\ Cardinality(Positive(T)) <= SumOver(f, T)
           G == {T \in SUBSET S : Bounds(T)}
<1>1. \A T \in SUBSET S : Numeric(f, T)
  BY FS_Subset DEF Numeric
<1>2. \A T \in SUBSET S : SumOver(f, T) \in Nat
  BY SumsOfParts
<1>3. {} \in G
  <2>1. SumOver(f, {}) = 0
    BY SumTakesOut
  <2>2. Positive({}) = {} /\ \A R \in SUBSET {} : R = {}
    OBVIOUS
  <2>3. Cardinality(Positive({})) = 0
    BY <2>2, FS_EmptySet
  <2> QED BY <2>1, <2>2, <2>3
<1>4. ASSUME NEW T \in SUBSET S, T # {}, \A x \in T : T \ {x} \in G PROVE T \in G
  <2>1. ASSUME NEW R \in SUBSET T PROVE SumOver(f, R) <= SumOver(f, T)
    <3>1. CASE R = T
      BY <1>2, <3>1
    <3>2. CASE R # T
      <4>1. PICK x \in T : x \notin R
        BY <3>2
      <4>2. Bounds(T \ {x}) /\ R \in SUBSET (T \ {x})
        BY <1>4, <4>1
      <4>3. SumOver(f, R) <= SumOver(f, T \ {x})
        BY <4>2
      <4>4. f[x] \in Nat /\ SumOver(f, T \ {x}) \in Nat /\ SumOver(f, T) = f[x] + SumOver(f, T \ {x})
        BY <1>1, SumTakesOut
      <4>5. R \in SUBSET S
        OBVIOUS
      <4> QED BY <1>2, <4>3, <4>4, <4>5
    <3> QED BY <3>1, <3>2
  <2>2. Cardinality(Positive(T)) <= SumOver(f, T)
    <3>1. PICK x \in T : TRUE
      BY <1>4
    <3>2. Cardinality(Positive(T \ {x})) <= SumOver(f, T \ {x})
      BY <1>4, <3>1
    <3>3. f[x] \in Nat /\ SumOver(f, T \ {x}) \in Nat /\ SumOver(f, T) = f[x] + SumOver(f, T \ {x})
      BY <1>1, SumTakesOut
    <3>4. /\ Positive(T) \in SUBSET S /\ Positive(T \ {x}) = Positive(T) \ {x}
          /\ x \in Positive(T) <=> f[x] > 0
      BY <3>1
    <3> HIDE DEF Positive
    <3>5. IsFiniteSet(Positive(T))
      BY <3>4, FS_Subset DEF Numeric
    <3>6. CASE x \in Positive(T)
      <4>1. /\ Cardinality(Positive(T)) = Cardinality(Positive(T) \ {x}) + 1
            /\ Cardinality(Positive(T) \ {x}) \in Nat
        BY <3>5, <3>6, OneLess
      <4>2. f[x] >= 1
        BY <3>3, <3>4, <3>6
      <4>3. Cardinality(Positive(T) \ {x}) <= SumOver(f, T \ {x})
        BY <3>2, <3>4
      <4> QED BY <3>3, <4>1, <4>2, <4>3
    <3>7. CASE x \notin Positive(T)
      <4>1. Positive(T \ {x}) = Positive(T) /\ Cardinality(Positive(T)) \in Nat
        BY <3>4, <3>5, <3>7, FS_CardinalityType
      <4> QED BY <3>2, <3>3, <4>1
    <3> QED BY <3>6, <3>7
  <2> QED BY <2>1, <2>2
<1>5. S \in G
  <2> HIDE DEF G
  <2>2. \A T \in SUBSET S : T # {} /\ (\A x \in T : T \ {x} \in G) => T \in G
    BY <1>4
  <2>3. \A T \in SUBSET S : T \in G
    BY <1>3, <2>2, AllSubsets DEF Numeric
  <2> QED BY <2>3
<1> QED BY <1>5

LEMMA SumsOfTheSame ==
  ASSUME NEW f, NEW h, NEW S, Numeric(f, S), \A x \in S : h[x] = f[x]
  PROVE  SumOver(h, S) = SumOver(f, S)
<1> DEFINE G == {T \in SUBSET S : SumOver(h, T) = SumOver(f, T)}
<1>1. \A T \in SUBSET S : Numeric(f, T) /\ Numeric(h, T)
  BY FS_Subset DEF Numeric
<1>2. {} \in G
  BY <1>1, SumTakesOut
<1>3. ASSUME NEW T \in SUBSET S, T # {}, \A x \in T : T \ {x} \in G PROVE T \in G
  <2>1. PICK x \in T : TRUE
    BY <1>3
  <2>2. SumOver(f, T) = f[x] + SumOver(f, T \ {x}) /\ SumOver(h, T) = h[x] + SumOver(h, T \ {x})
    BY <1>1, SumTakesOut
  <2>3. SumOver(h, T \ {x}) = SumOver(f, T \ {x})
    BY <1>3
  <2> QED BY <2>2, <2>3
<1> HIDE DEF G
<1>4. \A T \in SUBSET S : T # {} /\ (\A x \in T : T \ {x} \in G) => T \in G
  BY <1>3
<1>5. S \in G
  BY <1>2, <1>4, AllSubsets DEF Numeric
<1> QED BY <1>5 DEF G

\* one more counted
LEMMA SumWithOneMore ==
  ASSUME NEW S, IsFiniteSet(S), NEW f \in [S -> Nat], NEW a \in S
  PROVE  Total([f EXCEPT ![a] = @ + 1]) = Total(f) + 1 /\ Total(f) \in Nat
<1>1. PICK h : h = [f EXCEPT ![a] = @ + 1]
  OBVIOUS
<1>2. h \in [S -> Nat] /\ h[a] = f[a] + 1 /\ f[a] \in Nat /\ \A x \in S \ {a} : h[x] = f[x]
  BY <1>1
<1>0. Total(h) = SumOver(h, S) /\ Total(f) = SumOver(f, S)
  BY <1>2 DEF Total
<1>3. Numeric(f, S) /\ Numeric(h, S) /\ Numeric(f, S \ {a})
  BY <1>2, FS_Subset DEF Numeric
<1>4. SumOver(h, S \ {a}) = SumOver(f, S \ {a})
  BY <1>2, <1>3, SumsOfTheSame
<1>5. /\ SumOver(h, S) = h[a] + SumOver(h, S \ {a})
      /\ SumOver(f, S) = f[a] + SumOver(f, S \ {a})
      /\ SumOver(f, S) \in Nat /\ SumOver(f, S \ {a}) \in Nat
  <2>1. SumOver(h, S) = h[a] + SumOver(h, S \ {a})
    <3>1. Numeric(h, S)
      BY <1>3
    <3>2. \A x \in S : h[x] \in Nat /\ SumOver(h, S \ {x}) \in Nat
                         /\ SumOver(h, S) = h[x] + SumOver(h, S \ {x})
      BY <3>1, SumTakesOut
    <3> QED BY <3>2
  <2>2. SumOver(f, S) = f[a] + SumOver(f, S \ {a})
    BY <1>3, SumTakesOut
  <2>3. SumOver(f, S) \in Nat /\ SumOver(f, S \ {a}) \in Nat
    BY <1>3, SumTakesOut
  <2> QED BY <2>1, <2>2, <2>3
<1>6. SumOver(h, S) = SumOver(f, S) + 1
  BY <1>2, <1>4, <1>5
<1> QED BY <1>0, <1>1, <1>5, <1>6


LEMMA SumOfNothing ==
  ASSUME NEW f, NEW S, Numeric(f, S), \A x \in S : f[x] = 0
  PROVE  SumOver(f, S) = 0
<1> DEFINE G == {T \in SUBSET S : SumOver(f, T) = 0}
<1>1. \A T \in SUBSET S : Numeric(f, T)
  BY FS_Subset DEF Numeric
<1>2. {} \in G
  BY <1>1, SumTakesOut
<1>3. ASSUME NEW T \in SUBSET S, T # {}, \A x \in T : T \ {x} \in G PROVE T \in G
  <2>1. PICK x \in T : TRUE
    BY <1>3
  <2>2. SumOver(f, T) = f[x] + SumOver(f, T \ {x})
    BY <1>1, SumTakesOut
  <2>3. SumOver(f, T \ {x}) = 0
    BY <1>3
  <2> QED BY <2>2, <2>3
<1> HIDE DEF G
<1>4. \A T \in SUBSET S : T # {} /\ (\A x \in T : T \ {x} \in G) => T \in G
  BY <1>3
<1>5. S \in G
  BY <1>2, <1>4, AllSubsets DEF Numeric
<1> QED BY <1>5 DEF G
----------------------------------------------------------------------------
(* The days in order. *)

Dates(S) == IsFiniteSet(S) /\ S \subseteq Nat

LEMMA HasGreatest ==
  ASSUME NEW S, IsFiniteSet(S), S \subseteq Nat, S # {}
  PROVE  Max(S) \in S /\ \A y \in S : y <= Max(S)
<1> DEFINE Greatest(T) == T = {} \/ \E m \in T : \A y \in T : y <= m
           G == {T \in SUBSET S : Greatest(T)}
<1>1. ASSUME NEW T \in SUBSET S, T # {}, \A x \in T : T \ {x} \in G PROVE T \in G
  <2>1. PICK x \in T : TRUE
    BY <1>1
  <2>2. Greatest(T \ {x}) /\ x \in Nat
    BY <1>1
  <2>3. CASE T \ {x} = {}
    <3>1. \A y \in T : y = x
      BY <2>3
    <3> QED BY <2>2, <3>1
  <2>4. CASE T \ {x} # {}
    <3>1. PICK m \in T \ {x} : \A y \in T \ {x} : y <= m
      BY <2>2, <2>4
    <3>2. \A y \in T : y \in Nat
      OBVIOUS
    <3>3. CASE x <= m
      <4>1. \A y \in T : y <= m
        BY <3>1, <3>3
      <4> QED BY <4>1
    <3>4. CASE ~(x <= m)
      <4>1. \A y \in T : y <= x
        BY <2>2, <3>1, <3>2, <3>4
      <4> QED BY <4>1
    <3> QED BY <3>3, <3>4
  <2> QED BY <2>3, <2>4
<1>2. {} \in G
  OBVIOUS
<1>3. Greatest(S)
  <2>1. S \in G
    <3> HIDE DEF G
    <3> QED BY <1>1, <1>2, AllSubsets
  <2> QED BY <2>1
<1>4. \E x \in S : \A y \in S : x >= y
  BY <1>3
<1>5. Max(S) \in S /\ \A y \in S : Max(S) >= y
  BY <1>4 DEF Max
<1>6. \A y \in S : y \in Nat /\ Max(S) \in Nat
  BY <1>5
<1> QED BY <1>5, <1>6

Rising(q, S) ==
  /\ q \in [1..Cardinality(S) -> S]
  /\ \A i, j \in 1..Cardinality(S) : i < j => q[i] < q[j]

Falling(q, S) ==
  /\ q \in [1..Cardinality(S) -> S]
  /\ \A i, j \in 1..Cardinality(S) : i < j => q[i] > q[j]

LEMMA RisesInOrder ==
  ASSUME NEW S, IsFiniteSet(S), S \subseteq Nat
  PROVE  \E q : Rising(q, S)
<1> DEFINE G == {T \in SUBSET S : \E q : Rising(q, T)}
<1>1. {} \in G
  <2>1. Cardinality({}) = 0
    BY FS_EmptySet
  <2>2. [i \in 1..0 |-> 0] \in [1..0 -> {}] /\ 1..0 = {}
    OBVIOUS
  <2>3. Rising([i \in 1..0 |-> 0], {})
    BY <2>1, <2>2 DEF Rising
  <2> QED BY <2>3
<1>2. ASSUME NEW T \in SUBSET S, T # {}, \A x \in T : T \ {x} \in G PROVE T \in G
  <2>1. PICK m \in T : \A y \in T : y <= m
    <3>1. IsFiniteSet(T) /\ T \subseteq Nat
      BY FS_Subset
    <3> QED BY <1>2, <3>1, HasGreatest
  <2>2. PICK p : Rising(p, T \ {m})
    BY <1>2
  <2>3. PICK n \in Nat : n = Cardinality(T \ {m}) /\ Cardinality(T) = n + 1
    BY FS_Subset, OneLess
  <2>4. p \in [1..n -> T \ {m}] /\ \A i, j \in 1..n : i < j => p[i] < p[j]
    BY <2>2, <2>3 DEF Rising
  <2>5. PICK q : q = [i \in 1..n + 1 |-> IF i = n + 1 THEN m ELSE p[i]]
    OBVIOUS
  <2>6. q[n + 1] = m /\ \A i \in 1..n : q[i] = p[i] /\ p[i] \in T \ {m}
    BY <2>4, <2>5
  <2>7. q \in [1..n + 1 -> T]
    BY <2>4, <2>5
  <2>8. ASSUME NEW i \in 1..n + 1, NEW j \in 1..n + 1, i < j PROVE q[i] < q[j]
    <3>1. CASE j = n + 1
      <4>1. i \in 1..n
        BY <2>8, <3>1
      <4>2. q[i] \in T /\ q[i] # m /\ q[i] \in Nat /\ m \in Nat
        BY <2>6, <4>1
      <4>3. q[i] <= m /\ q[j] = m
        BY <2>1, <2>6, <3>1, <4>2
      <4> QED BY <4>2, <4>3
    <3>2. CASE j # n + 1
      <4>1. i \in 1..n /\ j \in 1..n
        BY <2>8, <3>2
      <4> QED BY <2>4, <2>6, <2>8, <4>1
    <3> QED BY <3>1, <3>2
  <2>9. Rising(q, T)
    BY <2>3, <2>7, <2>8 DEF Rising
  <2> QED BY <2>9
<1> HIDE DEF G
<1>3. S \in G
  BY <1>1, <1>2, AllSubsets
<1> QED BY <1>3 DEF G

\* every day is there
LEMMA NoneLeftOut ==
  ASSUME NEW S, Dates(S), NEW q, Rising(q, S) \/ Falling(q, S)
  PROVE  \A x \in S : \E i \in 1..Cardinality(S) : q[i] = x
<1> IsFiniteSet(S) /\ S \subseteq Nat
  BY DEF Dates
<1>1. PICK n \in Nat : n = Cardinality(S)
  BY FS_CardinalityType
<1>2. q \in [1..n -> S]
  BY <1>1 DEF Rising, Falling
<1>3. \A i, j \in 1..n : q[i] = q[j] => i = j
  <2>1. \A i, j \in 1..n : i < j => q[i] # q[j]
    <3>1. \A i \in 1..n : q[i] \in Nat
      BY <1>2
    <3> QED BY <1>1, <3>1 DEF Rising, Falling
  <2> QED BY <2>1
<1>4. q \in Injection(1..n, S)
  BY <1>2, <1>3 DEF Injection, IsInjective
<1>5. Cardinality(1..n) = n
  BY FS_Interval
<1>6. q \in Surjection(1..n, S)
  BY <1>1, <1>4, <1>5, FS_Injection
<1> QED BY <1>1, <1>6 DEF Surjection

LEMMA AscendingRises ==
  ASSUME NEW S, Dates(S)
  PROVE  Rising(Ascending(S), S)
<1> IsFiniteSet(S) /\ S \subseteq Nat
  BY DEF Dates
<1>1. PICK q : Rising(q, S)
  BY RisesInOrder
<1>2. q \in [1..Cardinality(S) -> S] /\ \A i, j \in DOMAIN q : i < j => q[i] < q[j]
  BY <1>1 DEF Rising
<1>3. PICK p : p = Ascending(S)
  OBVIOUS
<1>4. p \in [1..Cardinality(S) -> S] /\ \A i, j \in DOMAIN p : i < j => p[i] < p[j]
  BY <1>2, <1>3 DEF Ascending
<1> QED BY <1>3, <1>4 DEF Rising

LEMMA DescendingFalls ==
  ASSUME NEW S, Dates(S)
  PROVE  Falling(Descending(S), S)
<1> IsFiniteSet(S) /\ S \subseteq Nat
  BY DEF Dates
<1>1. PICK p : Rising(p, S)
  BY RisesInOrder
<1>2. PICK n \in Nat : n = Cardinality(S)
  BY FS_CardinalityType
<1>3. PICK q : q = [i \in 1..n |-> p[n + 1 - i]]
  OBVIOUS
<1>4. p \in [1..n -> S] /\ \A i, j \in 1..n : i < j => p[i] < p[j]
  BY <1>1, <1>2 DEF Rising
<1>5. \A i \in 1..n : n + 1 - i \in 1..n /\ q[i] = p[n + 1 - i] /\ q[i] \in Nat
  <2>1. ASSUME NEW i \in 1..n PROVE n + 1 - i \in 1..n /\ q[i] = p[n + 1 - i] /\ q[i] \in Nat
    <3>1. n + 1 - i \in 1..n /\ q[i] = p[n + 1 - i]
      BY <1>3
    <3>2. p[n + 1 - i] \in S
      BY <1>4, <3>1
    <3> QED BY <3>1, <3>2
  <2> QED BY <2>1
<1>6. q \in [1..n -> S] /\ \A i, j \in DOMAIN q : i < j => q[i] > q[j]
  <2>1. q \in [1..n -> S] /\ DOMAIN q = 1..n
    BY <1>3, <1>4, <1>5
  <2>2. ASSUME NEW i \in 1..n, NEW j \in 1..n, i < j PROVE q[i] > q[j]
    <3>1. n + 1 - j < n + 1 - i
      BY <2>2
    <3>2. p[n + 1 - j] < p[n + 1 - i]
      BY <1>4, <1>5, <3>1
    <3> QED BY <1>5, <3>2
  <2> QED BY <2>1, <2>2
<1>7. PICK r : r = Descending(S)
  OBVIOUS
<1>8. r \in [1..n -> S] /\ \A i, j \in DOMAIN r : i < j => r[i] > r[j]
  BY <1>2, <1>6, <1>7 DEF Descending
<1> QED BY <1>2, <1>7, <1>8 DEF Falling

----------------------------------------------------------------------------
(* Runs of days. *)

LEMMA RunToStep ==
  ASSUME NEW S, IsFiniteSet(S), S \subseteq Nat, NEW d \in Int
  PROVE  /\ RunTo(S, d) \in Nat
         /\ d \notin S => RunTo(S, d) = 0
         /\ d \in S => RunTo(S, d) = RunTo(S, d - 1) + 1
<1> DEFINE Run(x) == {e \in S : e <= x /\ e..x \subseteq S}
<1>1. \A x \in Int : Run(x) \in SUBSET S /\ IsFiniteSet(Run(x)) /\ Cardinality(Run(x)) \in Nat
  <2>1. \A x \in Int : Run(x) \in SUBSET S
    OBVIOUS
  <2> HIDE DEF Run
  <2> QED BY <2>1, FS_Subset, FS_CardinalityType
<1>2. \A x \in Int : RunTo(S, x) = Cardinality(Run(x))
  BY DEF RunTo
<1>3. d - 1 \in Int
  OBVIOUS
<1>4. ASSUME d \notin S PROVE Run(d) = {}
  <2>1. ASSUME NEW e \in Run(d) PROVE FALSE
    <3>1. e \in Int /\ e <= d /\ e..d \subseteq S
      OBVIOUS
    <3>2. d \in e..d
      BY <3>1
    <3> QED BY <1>4, <3>1, <3>2
  <2> QED BY <2>1
<1>5. ASSUME d \in S PROVE d \in Run(d) /\ Run(d - 1) = Run(d) \ {d}
  <2>1. d \in Run(d)
    BY <1>5
  <2>2. ASSUME NEW e \in Run(d - 1) PROVE e \in Run(d) \ {d}
    <3>1. e \in S /\ e \in Int /\ e <= d - 1 /\ e..d - 1 \subseteq S
      OBVIOUS
    <3>2. e..d = (e..d - 1) \union {d}
      BY <3>1
    <3> QED BY <1>5, <3>1, <3>2
  <2>3. ASSUME NEW e \in Run(d) \ {d} PROVE e \in Run(d - 1)
    <3>1. e \in S /\ e \in Int /\ e <= d /\ e # d /\ e..d \subseteq S
      OBVIOUS
    <3>2. e <= d - 1 /\ e..d - 1 \subseteq e..d
      BY <3>1
    <3> QED BY <3>1, <3>2
  <2> HIDE DEF Run
  <2> QED BY <2>1, <2>2, <2>3
<1> HIDE DEF Run
<1>6. d \notin S => RunTo(S, d) = 0
  BY <1>2, <1>4, FS_EmptySet
<1>7. ASSUME d \in S PROVE RunTo(S, d) = RunTo(S, d - 1) + 1
  <2>1. Cardinality(Run(d)) = Cardinality(Run(d) \ {d}) + 1
    BY <1>1, <1>5, <1>7, OneLess
  <2> QED BY <1>2, <1>3, <1>5, <1>7, <2>1
<1> QED BY <1>1, <1>2, <1>6, <1>7

LEMMA RunsTo ==
  ASSUME NEW S, Dates(S)
  PROVE  \A d \in Int :
           /\ RunTo(S, d) \in Nat
           /\ d \notin S => RunTo(S, d) = 0
           /\ d \in S => RunTo(S, d) = RunTo(S, d - 1) + 1
BY RunToStep DEF Dates

Going(e, m) == [expected |-> e, days |-> m, going |-> TRUE]
Halted(e, m) == [expected |-> e, days |-> m, going |-> FALSE]

LEMMA CountBackIs ==
  ASSUME NEW e \in Int, NEW m \in Nat, NEW d \in Int
  PROVE  /\ d = e => CountBack(Going(e, m), d) = Going(e - 1, m + 1)
         /\ d # e => CountBack(Going(e, m), d) = Halted(e, m)
         /\ CountBack(Halted(e, m), d) = Halted(e, m)
BY DEF CountBack, Going, Halted

LEMMA MaxOfFirst ==
  ASSUME NEW k \in Nat \ {0}
  PROVE  Max(1..k) = k /\ (1..k) \ {k} = 1..k - 1
<1>1. IsFiniteSet(1..k) /\ 1..k \subseteq Nat /\ k \in 1..k
  BY FS_Interval
<1>2. Max(1..k) \in 1..k /\ \A y \in 1..k : y <= Max(1..k)
  BY <1>1, HasGreatest
<1>3. Max(1..k) = k
  BY <1>1, <1>2
<1> QED BY <1>3

LEMMA MaxOfPart ==
  ASSUME NEW n \in Nat, NEW T \in SUBSET (1..n), T # {}
  PROVE  Max(T) \in T
<1>1. IsFiniteSet(1..n)
  BY FS_Interval
<1>2. IsFiniteSet(T)
  BY <1>1, FS_Subset
<1>3. T \subseteq Nat
  OBVIOUS
<1> QED BY <1>2, <1>3, HasGreatest

\* a fold from the last position down, which is one pass from the first
Passes(g, n, V, base, body) ==
  /\ g[{}] = base
  /\ \A T \in SUBSET (1..n) : T # {} =>
       /\ Max(T) \in 1..n /\ g[T \ {Max(T)}] \in V
       /\ g[T] = body[<<Max(T), g[T \ {Max(T)}]>>]

LEMMA PassIsDefined ==
  ASSUME NEW n \in Nat, NEW V, NEW base \in V, NEW body \in [(1..n) \X V -> V]
  PROVE  \E g \in [SUBSET (1..n) -> V] : Passes(g, n, V, base, body)
<1> DEFINE pick == [T \in SUBSET (1..n) |-> Max(T)]
<1>1. \A T \in SUBSET (1..n) : T # {} => pick[T] = Max(T) /\ Max(T) \in T
  BY MaxOfPart
<1>2. IsFiniteSet(1..n)
  BY FS_Interval
<1> HIDE DEF pick
<1>3. PICK g \in [SUBSET (1..n) -> V] : FoldsTo(g, 1..n, base, pick, body)
  <2>1. \A T \in SUBSET (1..n) : T # {} => pick[T] \in T
    BY <1>1
  <2> QED BY <1>2, <2>1, FoldIsDefined
<1>4. {} \in SUBSET (1..n)
  OBVIOUS
<1>5. g[{}] = base
  BY <1>3, <1>4 DEF FoldsTo
<1>6. ASSUME NEW T \in SUBSET (1..n), T # {}
      PROVE  /\ Max(T) \in 1..n /\ g[T \ {Max(T)}] \in V
             /\ g[T] = body[<<Max(T), g[T \ {Max(T)}]>>]
  <2>1. pick[T] = Max(T) /\ Max(T) \in 1..n /\ T \ {Max(T)} \in SUBSET (1..n)
    BY <1>1, <1>6
  <2>2. g[T] = body[<<pick[T], g[T \ {pick[T]}]>>]
    BY <1>3, <1>6 DEF FoldsTo
  <2> QED BY <2>1, <2>2
<1> QED BY <1>3, <1>5, <1>6 DEF Passes

\* the pass over the days, one after the other
LEMMA LongestRunUnfolds ==
  ASSUME NEW S, Dates(S), NEW n \in Nat, NEW q \in [1..n -> S], q = Ascending(S)
  PROVE  \E F : /\ F[0] = [previous |-> 0, run |-> 0, longest |-> 0]
                /\ \A k \in 1..n : F[k] = CountRun(F[k - 1], q[k])
                /\ LongestRun(S) = F[n].longest
<1> IsFiniteSet(S) /\ S \subseteq Nat
  BY DEF Dates
<1> DEFINE Acc == [previous : Nat, run : Nat, longest : Nat]
           base == [previous |-> 0, run |-> 0, longest |-> 0]
           Folds(g) == g = [T \in SUBSET (DOMAIN q) |->
                              IF T = {} THEN base ELSE CountRun(g[T \ {Max(T)}], q[Max(T)])]
<1>1. DOMAIN q = 1..n /\ IsFiniteSet(1..n)
  BY FS_Interval
<1>2. LongestRun(S) = (CHOOSE g : Folds(g))[DOMAIN q].longest
  BY DEF LongestRun, FoldLeft, MapThenFoldSet
<1>3. \A a \in Acc, d \in Nat : CountRun(a, d) \in Acc
  BY DEF CountRun
<1>4. \E g : Folds(g)
  <2> DEFINE body == [p \in (1..n) \X Acc |-> CountRun(p[2], q[p[1]])]
  <2>1. base \in Acc
    OBVIOUS
  <2> HIDE DEF Acc, base
  <2>2. \A i \in 1..n : q[i] \in Nat
    OBVIOUS
  <2>3. body \in [(1..n) \X Acc -> Acc]
    BY <1>3, <2>2
  <2>4. PICK g \in [SUBSET (1..n) -> Acc] : Passes(g, n, Acc, base, body)
    <3> HIDE DEF body
    <3> QED BY <2>1, <2>3, PassIsDefined
  <2>5. ASSUME NEW T \in SUBSET (1..n)
        PROVE  g[T] = IF T = {} THEN base ELSE CountRun(g[T \ {Max(T)}], q[Max(T)])
    BY <2>4 DEF Passes
  <2>6. Folds(g)
    BY <1>1, <2>4, <2>5
  <2> QED BY <2>6
<1>5. PICK g : Folds(g) /\ LongestRun(S) = g[1..n].longest
  <2> HIDE DEF Folds
  <2> QED BY <1>1, <1>2, <1>4
<1>6. PICK F : F = [k \in 0..n |-> g[1..k]]
  OBVIOUS
<1>7. F[0] = base
  BY <1>1, <1>5, <1>6
<1>8. ASSUME NEW k \in 1..n PROVE F[k] = CountRun(F[k - 1], q[k])
  <2>1. Max(1..k) = k /\ (1..k) \ {k} = 1..k - 1 /\ 1..k # {}
    <3>1. k \in Nat \ {0} /\ k \in 1..k
      OBVIOUS
    <3> QED BY <3>1, MaxOfFirst
  <2>2. 1..k \in SUBSET (DOMAIN q)
    BY <1>1
  <2>3. g[1..k] = CountRun(g[(1..k) \ {Max(1..k)}], q[Max(1..k)])
    <3> HIDE DEF base
    <3> QED BY <1>5, <2>1, <2>2
  <2>4. F[k] = g[1..k] /\ F[k - 1] = g[1..k - 1]
    BY <1>6
  <2> QED BY <2>1, <2>3, <2>4
<1>9. F[n] = g[1..n]
  BY <1>6
<1> QED BY <1>5, <1>7, <1>8, <1>9

LEMMA RunBackUnfolds ==
  ASSUME NEW S, Dates(S), NEW n \in Nat, NEW q \in [1..n -> S], q = Descending(S), NEW latest \in Int
  PROVE  \E F : /\ F[0] = Going(latest, 0)
                /\ \A k \in 1..n : F[k] = CountBack(F[k - 1], q[k])
                /\ RunBackFrom(latest, S) = F[n].days
<1> IsFiniteSet(S) /\ S \subseteq Nat
  BY DEF Dates
<1> DEFINE Acc == [expected : Int, days : Nat, going : BOOLEAN]
           base == Going(latest, 0)
           Folds(g) == g = [T \in SUBSET (DOMAIN q) |->
                              IF T = {} THEN base ELSE CountBack(g[T \ {Max(T)}], q[Max(T)])]
<1>1. DOMAIN q = 1..n /\ IsFiniteSet(1..n)
  BY FS_Interval
<1>2. RunBackFrom(latest, S) = (CHOOSE g : Folds(g))[DOMAIN q].days
  BY DEF RunBackFrom, FoldLeft, MapThenFoldSet, Going
<1>3. \A a \in Acc, d \in Nat : CountBack(a, d) \in Acc
  BY DEF CountBack
<1>4. \E g : Folds(g)
  <2> DEFINE body == [p \in (1..n) \X Acc |-> CountBack(p[2], q[p[1]])]
  <2>1. base \in Acc
    BY DEF Going
  <2> HIDE DEF Acc, base
  <2>2. \A i \in 1..n : q[i] \in Nat
    OBVIOUS
  <2>3. body \in [(1..n) \X Acc -> Acc]
    BY <1>3, <2>2
  <2>4. PICK g \in [SUBSET (1..n) -> Acc] : Passes(g, n, Acc, base, body)
    <3> HIDE DEF body
    <3> QED BY <2>1, <2>3, PassIsDefined
  <2>5. ASSUME NEW T \in SUBSET (1..n)
        PROVE  g[T] = IF T = {} THEN base ELSE CountBack(g[T \ {Max(T)}], q[Max(T)])
    BY <2>4 DEF Passes
  <2>6. Folds(g)
    BY <1>1, <2>4, <2>5
  <2> QED BY <2>6
<1>5. PICK g : Folds(g) /\ RunBackFrom(latest, S) = g[1..n].days
  <2> HIDE DEF Folds
  <2> QED BY <1>1, <1>2, <1>4
<1>6. PICK F : F = [k \in 0..n |-> g[1..k]]
  OBVIOUS
<1>7. F[0] = base
  BY <1>1, <1>5, <1>6
<1>8. ASSUME NEW k \in 1..n PROVE F[k] = CountBack(F[k - 1], q[k])
  <2>1. Max(1..k) = k /\ (1..k) \ {k} = 1..k - 1 /\ 1..k # {}
    <3>1. k \in Nat \ {0} /\ k \in 1..k
      OBVIOUS
    <3> QED BY <3>1, MaxOfFirst
  <2>2. 1..k \in SUBSET (DOMAIN q)
    BY <1>1
  <2>3. g[1..k] = CountBack(g[(1..k) \ {Max(1..k)}], q[Max(1..k)])
    <3> HIDE DEF base
    <3> QED BY <1>5, <2>1, <2>2
  <2>4. F[k] = g[1..k] /\ F[k - 1] = g[1..k - 1]
    BY <1>6
  <2> QED BY <2>1, <2>3, <2>4
<1>9. F[n] = g[1..n]
  BY <1>6
<1> QED BY <1>5, <1>7, <1>8, <1>9

\* the longest run is one of the runs, and none is longer
LEMMA LongestRunIs ==
  ASSUME NEW S, Dates(S)
  PROVE  /\ LongestRun(S) \in Nat
         /\ \A d \in S : RunTo(S, d) <= LongestRun(S)
         /\ LongestRun(S) > 0 => \E d \in S : RunTo(S, d) = LongestRun(S)
<1> IsFiniteSet(S) /\ S \subseteq Nat
  BY DEF Dates
<1>1. PICK n \in Nat : n = Cardinality(S)
  BY FS_CardinalityType
<1>2. PICK q : q = Ascending(S)
  OBVIOUS
<1>3. Rising(q, S) /\ \A x \in S : \E i \in 1..n : q[i] = x
  <2>1. Rising(q, S)
    BY <1>2, AscendingRises
  <2> QED BY <1>1, <2>1, NoneLeftOut
<1>4. q \in [1..n -> S] /\ \A i, j \in 1..n : i < j => q[i] < q[j]
  BY <1>1, <1>3 DEF Rising
<1>5. \A i \in 1..n : q[i] \in S /\ q[i] \in Nat
  BY <1>4
<1>6. PICK F : /\ F[0] = [previous |-> 0, run |-> 0, longest |-> 0]
               /\ \A k \in 1..n : F[k] = CountRun(F[k - 1], q[k])
               /\ LongestRun(S) = F[n].longest
  BY <1>2, <1>4, LongestRunUnfolds
<1> DEFINE Counted(k) ==
      /\ F[k].longest \in Nat
      /\ k = 0 => F[k].run = 0
      /\ k > 0 => F[k].previous = q[k] /\ F[k].run = RunTo(S, q[k])
      /\ \A i \in 1..k : RunTo(S, q[i]) <= F[k].longest
      /\ F[k].longest > 0 => \E i \in 1..k : RunTo(S, q[i]) = F[k].longest
    G == {k \in Nat : k <= n => Counted(k)}
<1>7. 0 \in G
  BY <1>6
<1>8. ASSUME NEW k \in Nat, k \in G PROVE k + 1 \in G
  <2> SUFFICES ASSUME k + 1 <= n PROVE Counted(k + 1)
    OBVIOUS
  <2>1. Counted(k) /\ k + 1 \in 1..n
    BY <1>8
  <2>2. PICK d : d = q[k + 1] /\ d \in S /\ d \in Nat
    BY <1>5, <2>1
  <2>3. PICK a : a = F[k] /\ F[k + 1] = CountRun(a, d)
    BY <1>6, <2>1, <2>2
  <2>4. PICK run : run = IF a.previous + 1 = d /\ a.run > 0 THEN a.run + 1 ELSE 1
    OBVIOUS
  <2>5. F[k + 1] = [previous |-> d, run |-> run, longest |-> IF run > a.longest THEN run ELSE a.longest]
    BY <2>3, <2>4 DEF CountRun
  <2>6. /\ RunTo(S, d) \in Nat /\ RunTo(S, d - 1) \in Nat
        /\ RunTo(S, d) = RunTo(S, d - 1) + 1
        /\ d - 1 \notin S => RunTo(S, d - 1) = 0
    BY <2>2, RunsTo
  <2>7. run = RunTo(S, d)
    <3>1. CASE k > 0 /\ q[k] + 1 = d
      <4>1. k \in 1..n /\ q[k] \in S /\ q[k] \in Nat
        BY <1>5, <2>1, <3>1
      <4>2. a.previous = q[k] /\ a.run = RunTo(S, q[k]) /\ q[k] = d - 1
        BY <2>1, <2>3, <3>1, <4>1
      <4>3. RunTo(S, q[k]) = RunTo(S, q[k] - 1) + 1 /\ RunTo(S, q[k] - 1) \in Nat
        BY <4>1, RunsTo
      <4>4. a.run > 0 /\ a.previous + 1 = d
        BY <3>1, <4>2, <4>3
      <4> QED BY <2>4, <2>6, <4>2, <4>4
    <3>2. CASE ~(k > 0 /\ q[k] + 1 = d)
      <4>1. run = 1
        <5>1. CASE k = 0
          <6>1. a.run = 0
            BY <2>1, <2>3, <5>1
          <6> QED BY <2>4, <6>1
        <5>2. CASE k > 0
          <6>1. a.previous = q[k]
            BY <2>1, <2>3, <5>2
          <6> QED BY <2>4, <3>2, <5>2, <6>1
        <5> QED BY <5>1, <5>2
      <4>2. d - 1 \notin S
        <5> SUFFICES ASSUME d - 1 \in S PROVE FALSE
          OBVIOUS
        <5>1. PICK j \in 1..n : q[j] = d - 1
          BY <1>3
        <5>2. ~(k + 1 < j) /\ j # k + 1
          BY <1>4, <1>5, <2>1, <2>2, <5>1
        <5>3. k > 0 /\ j <= k
          BY <2>1, <5>2
        <5>4. k \in 1..n /\ q[k] < d /\ q[k] \in Nat
          BY <1>4, <1>5, <2>1, <2>2, <5>3
        <5>5. j < k => q[j] < q[k]
          BY <1>4, <5>4
        <5> QED BY <2>2, <3>2, <5>1, <5>3, <5>4, <5>5
      <4> QED BY <2>6, <4>1, <4>2
    <3> QED BY <3>1, <3>2
  <2>8. PICK l \in Nat : l = F[k].longest
    BY <2>1
  <2>9. /\ F[k + 1].previous = d /\ F[k + 1].run = run
        /\ F[k + 1].longest = IF run > l THEN run ELSE l
    BY <2>3, <2>5, <2>8
  <2>10. run \in Nat /\ run > 0
    BY <2>6, <2>7
  <2>11. \A i \in 1..k + 1 : RunTo(S, q[i]) <= F[k + 1].longest
    <3>1. ASSUME NEW i \in 1..k + 1 PROVE RunTo(S, q[i]) <= F[k + 1].longest
      <4>1. CASE i = k + 1
        BY <2>2, <2>7, <2>9, <2>10, <4>1
      <4>2. CASE i # k + 1
        <5>1. i \in 1..k /\ i \in 1..n
          BY <2>1, <4>2
        <5>2. RunTo(S, q[i]) <= l
          BY <2>1, <2>8, <5>1
        <5>3. RunTo(S, q[i]) \in Nat
          BY <1>5, <5>1, RunsTo
        <5> QED BY <2>9, <2>10, <5>2, <5>3
      <4> QED BY <4>1, <4>2
    <3> QED BY <3>1
  <2>12. \E i \in 1..k + 1 : RunTo(S, q[i]) = F[k + 1].longest
    <3>1. CASE run > l
      <4>1. k + 1 \in 1..k + 1
        OBVIOUS
      <4> QED BY <2>2, <2>7, <2>9, <3>1, <4>1
    <3>2. CASE ~(run > l)
      <4>1. l > 0 /\ F[k + 1].longest = l
        BY <2>9, <2>10, <3>2
      <4>2. PICK i \in 1..k : RunTo(S, q[i]) = l
        BY <2>1, <2>8, <4>1
      <4>3. i \in 1..k + 1
        OBVIOUS
      <4> QED BY <4>1, <4>2, <4>3
    <3> QED BY <3>1, <3>2
  <2> QED BY <2>2, <2>7, <2>9, <2>10, <2>11, <2>12
<1>9. Counted(n)
  <2>1. n \in G
    <3> HIDE DEF G
    <3> QED BY <1>7, <1>8, AllNumbers
  <2> QED BY <2>1
<1>10. ASSUME NEW d \in S PROVE RunTo(S, d) <= LongestRun(S)
  <2>1. PICK i \in 1..n : q[i] = d
    BY <1>3
  <2> QED BY <1>6, <1>9, <2>1
<1>11. ASSUME LongestRun(S) > 0 PROVE \E d \in S : RunTo(S, d) = LongestRun(S)
  <2>1. PICK i \in 1..n : RunTo(S, q[i]) = LongestRun(S)
    BY <1>6, <1>9, <1>11
  <2> QED BY <1>5, <2>1
<1> QED BY <1>6, <1>9, <1>10, <1>11

\* the run back from the last day is the run up to it
LEMMA RunBackIs ==
  ASSUME NEW S, Dates(S), S # {}
  PROVE  RunBackFrom(Max(S), S) = RunTo(S, Max(S))
<1> IsFiniteSet(S) /\ S \subseteq Nat
  BY DEF Dates
<1>1. PICK n \in Nat : n = Cardinality(S)
  BY FS_CardinalityType
<1>2. PICK q : q = Descending(S)
  OBVIOUS
<1>3. Falling(q, S) /\ \A x \in S : \E i \in 1..n : q[i] = x
  <2>1. Falling(q, S)
    BY <1>2, DescendingFalls
  <2> QED BY <1>1, <2>1, NoneLeftOut
<1>4. q \in [1..n -> S] /\ \A i, j \in 1..n : i < j => q[i] > q[j]
  BY <1>1, <1>3 DEF Falling
<1>5. \A i \in 1..n : q[i] \in S /\ q[i] \in Nat
  BY <1>4
<1>6. PICK latest \in Nat : latest = Max(S) /\ latest \in S /\ \A y \in S : y <= latest
  BY HasGreatest
<1>7. PICK F : /\ F[0] = Going(latest, 0)
               /\ \A k \in 1..n : F[k] = CountBack(F[k - 1], q[k])
               /\ RunBackFrom(latest, S) = F[n].days
  <2>1. latest \in Int /\ Dates(S) /\ q \in [1..n -> S] /\ n \in Nat /\ q = Descending(S)
    BY <1>2, <1>4
  <2> QED BY ONLY <2>1, RunBackUnfolds
<1> DEFINE OnTheWay(k) ==
      \/ /\ F[k] = Going(latest - k, k)
         /\ \A i \in 1..k : q[i] = latest - i + 1
         /\ RunTo(S, latest) = k + RunTo(S, latest - k)
      \/ \E e \in Int : F[k] = Halted(e, RunTo(S, latest))
    G == {k \in Nat : k <= n => OnTheWay(k)}
<1>8. 0 \in G
  <2>1. latest - 0 = latest /\ RunTo(S, latest) \in Nat
    BY RunsTo
  <2>2. F[0] = Going(latest - 0, 0)
    BY <1>7, <2>1
  <2> QED BY <2>1, <2>2
<1>9. ASSUME NEW k \in Nat, k \in G PROVE k + 1 \in G
  <2> SUFFICES ASSUME k + 1 <= n PROVE OnTheWay(k + 1)
    OBVIOUS
  <2>1. OnTheWay(k) /\ k + 1 \in 1..n
    BY <1>9
  <2>2. PICK d : d = q[k + 1] /\ d \in S /\ d \in Nat
    BY <1>5, <2>1
  <2>3. F[k + 1] = CountBack(F[k], d)
    BY <1>7, <2>1, <2>2
  <2>4. CASE \E e \in Int : F[k] = Halted(e, RunTo(S, latest))
    <3>1. PICK e \in Int : F[k] = Halted(e, RunTo(S, latest))
      BY <2>4
    <3>2. F[k + 1] = Halted(e, RunTo(S, latest))
      <4>1. RunTo(S, latest) \in Nat
        BY RunsTo
      <4> QED BY <2>2, <2>3, <3>1, <4>1, CountBackIs
    <3> QED BY <3>2
  <2>5. CASE /\ F[k] = Going(latest - k, k)
             /\ \A i \in 1..k : q[i] = latest - i + 1
             /\ RunTo(S, latest) = k + RunTo(S, latest - k)
    <3>1. /\ RunTo(S, latest - k) \in Nat
          /\ latest - k \notin S => RunTo(S, latest - k) = 0
          /\ latest - k \in S => RunTo(S, latest - k) = RunTo(S, latest - k - 1) + 1
      <4>1. latest - k \in Int
        OBVIOUS
      <4> QED BY <4>1, RunsTo
    <3>2. CASE d = latest - k
      <4>1. F[k + 1] = Going(latest - (k + 1), k + 1)
        <5>1. F[k + 1] = Going(d - 1, k + 1)
          BY <2>2, <2>3, <2>5, <3>2, CountBackIs
        <5>2. d - 1 = latest - (k + 1)
          BY <3>2
        <5> QED BY <5>1, <5>2
      <4>2. \A i \in 1..k + 1 : q[i] = latest - i + 1
        <5>1. \A i \in 1..k + 1 : i \in 1..k \/ i = k + 1
          OBVIOUS
        <5>2. q[k + 1] = latest - (k + 1) + 1
          BY <2>2, <3>2
        <5> QED BY <2>5, <5>1, <5>2
      <4>3. latest - (k + 1) = latest - k - 1 /\ RunTo(S, latest - k - 1) \in Nat
        BY RunsTo
      <4>4. RunTo(S, latest) = (k + 1) + RunTo(S, latest - (k + 1))
        BY <2>2, <2>5, <3>1, <3>2, <4>3
      <4> QED BY <4>1, <4>2, <4>4
    <3>3. CASE d # latest - k
      <4>1. F[k + 1] = Halted(latest - k, k)
        <5>1. latest - k \in Int
          OBVIOUS
        <5> QED BY <2>2, <2>3, <2>5, <3>3, <5>1, CountBackIs
      <4>2. latest - k \notin S
        <5> SUFFICES ASSUME latest - k \in S PROVE FALSE
          OBVIOUS
        <5>1. PICK j \in 1..n : q[j] = latest - k
          BY <1>3
        <5>2. ~(j <= k)
          BY <2>5, <5>1
        <5>3. j # k + 1
          BY <2>2, <3>3, <5>1
        <5>4. q[k + 1] > latest - k
          BY <1>4, <1>5, <2>1, <5>1, <5>2, <5>3
        <5>5. CASE k = 0
          BY <1>6, <2>2, <5>4, <5>5
        <5>6. CASE k > 0
          <6>1. q[k] = latest - k + 1 /\ q[k] > q[k + 1]
            BY <1>4, <2>1, <2>5, <5>6
          <6> QED BY <2>2, <5>4, <6>1
        <5> QED BY <5>5, <5>6
      <4>3. RunTo(S, latest) = k
        BY <2>5, <3>1, <4>2
      <4> QED BY <4>1, <4>3
    <3> QED BY <3>2, <3>3
  <2> QED BY <2>1, <2>4, <2>5
<1>10. OnTheWay(n)
  <2>1. n \in G
    <3> HIDE DEF G
    <3> QED BY <1>8, <1>9, AllNumbers
  <2> QED BY <2>1
<1>11. F[n].days = RunTo(S, latest)
  <2>1. CASE \E e \in Int : F[n] = Halted(e, RunTo(S, latest))
    BY <2>1 DEF Going, Halted
  <2>2. CASE /\ F[n] = Going(latest - n, n)
             /\ \A i \in 1..n : q[i] = latest - i + 1
             /\ RunTo(S, latest) = n + RunTo(S, latest - n)
    <3>1. latest - n \notin S
      <4> SUFFICES ASSUME latest - n \in S PROVE FALSE
        OBVIOUS
      <4>1. PICK j \in 1..n : q[j] = latest - n
        BY <1>3
      <4> QED BY <2>2, <4>1
    <3>2. RunTo(S, latest - n) = 0
      <4>1. latest - n \in Int
        OBVIOUS
      <4> QED BY <3>1, <4>1, RunsTo
    <3>3. RunTo(S, latest) = n
      BY <2>2, <3>2
    <3> QED BY <2>2, <3>3 DEF Going, Halted
  <2> QED BY <1>10, <2>1, <2>2
<1> QED BY <1>6, <1>7, <1>11

----------------------------------------------------------------------------
(* What one answer says. *)

LEMMA CurrentStreakIs ==
  ASSUME NEW S, Dates(S), NEW today \in Int
  PROVE  /\ CurrentStreak(S, today) =
              IF \E d \in S : d > today THEN 0
              ELSE IF today \in S THEN RunTo(S, today) ELSE RunTo(S, today - 1)
         /\ CurrentStreak(S, today) <= LongestRun(S)
<1>1. \A d \in S : d \in Nat
  BY DEF Dates
<1>2. /\ LongestRun(S) \in Nat
      /\ \A d \in S : RunTo(S, d) <= LongestRun(S)
  BY LongestRunIs
<1>3. today - 1 \in Int /\ (today \notin S => RunTo(S, today) = 0) /\ (today - 1 \notin S => RunTo(S, today - 1) = 0)
  BY RunsTo
<1>4. CASE S = {}
  BY <1>2, <1>3, <1>4 DEF CurrentStreak
<1>5. CASE S # {}
  <2>1. PICK m \in Nat : m = Max(S) /\ m \in S /\ \A d \in S : d <= m
    BY <1>5, HasGreatest DEF Dates
  <2>2. RunBackFrom(m, S) = RunTo(S, m)
    BY <1>5, <2>1, RunBackIs
  <2>3. CurrentStreak(S, today) = IF m \in {today, today - 1} THEN RunTo(S, m) ELSE 0
    BY <1>5, <2>1, <2>2 DEF CurrentStreak
  <2>4. RunTo(S, m) <= LongestRun(S)
    BY <1>2, <2>1
  <2>5. CASE m > today
    BY <1>2, <2>1, <2>3, <2>5
  <2>6. CASE m = today
    BY <1>1, <2>1, <2>3, <2>4, <2>6
  <2>7. CASE m = today - 1
    BY <1>1, <2>1, <2>3, <2>4, <2>7
  <2>8. CASE m < today - 1
    BY <1>1, <1>2, <1>3, <2>1, <2>3, <2>8
  <2> QED BY <2>1, <2>5, <2>6, <2>7, <2>8
<1> QED BY <1>4, <1>5

\* the days of a period are among the days found
InPeriod(f, from, to) == {d \in DOMAIN f : from <= d /\ d <= to /\ f[d] > 0}

LEMMA PeriodIs ==
  ASSUME NEW f, Numeric(f, DOMAIN f), NEW from, NEW to
  PROVE  /\ PeriodFromMap(f, from, to).versesRead = SumOver(f, InPeriod(f, from, to))
         /\ PeriodFromMap(f, from, to).activeDays = Cardinality(InPeriod(f, from, to))
         /\ InPeriod(f, from, to) \in SUBSET (DOMAIN f)
BY DEF PeriodFromMap, InPeriod

LEMMA PeriodsGrow ==
  ASSUME NEW f, Numeric(f, DOMAIN f), DOMAIN f \subseteq Nat,
         NEW to \in Int, NEW early \in Int, NEW late \in Int, early <= late
  PROVE  /\ PeriodFromMap(f, late, to).versesRead <= PeriodFromMap(f, early, to).versesRead
         /\ PeriodFromMap(f, early, to).versesRead <= SumOver(f, DOMAIN f)
         /\ PeriodFromMap(f, early, to).activeDays <= Cardinality(DOMAIN f)
         /\ PeriodFromMap(f, early, to).versesRead \in Nat
         /\ PeriodFromMap(f, early, to).activeDays \in Nat
<1>1. PICK A : A = InPeriod(f, early, to)
  OBVIOUS
<1>2. PICK B : B = InPeriod(f, late, to)
  OBVIOUS
<1>3. A \in SUBSET (DOMAIN f) /\ B \in SUBSET A
  BY <1>1, <1>2 DEF InPeriod
<1>4. Numeric(f, A) /\ Cardinality(A) <= Cardinality(DOMAIN f) /\ Cardinality(A) \in Nat
  BY <1>3, FS_Subset, FS_CardinalityType DEF Numeric
<1>5. SumOver(f, B) <= SumOver(f, A) /\ SumOver(f, A) <= SumOver(f, DOMAIN f) /\ SumOver(f, A) \in Nat
  <2>1. SumOver(f, B) <= SumOver(f, A)
    BY <1>3, <1>4, SumGrows
  <2>2. SumOver(f, A) <= SumOver(f, DOMAIN f)
    BY <1>3, SumGrows
  <2>3. SumOver(f, A) \in Nat
    BY <1>4, SumTakesOut
  <2> QED BY <2>1, <2>2, <2>3
<1>6. /\ PeriodFromMap(f, late, to).versesRead = SumOver(f, B)
      /\ PeriodFromMap(f, early, to).versesRead = SumOver(f, A)
      /\ PeriodFromMap(f, early, to).activeDays = Cardinality(A)
  BY <1>1, <1>2, PeriodIs
<1> QED BY <1>4, <1>5, <1>6

----------------------------------------------------------------------------
(* The strengthening.  As many opens are counted by the ayahs as by the    *)
(* days, and no more are counted during a request than there are; so that  *)
(* what a request has read is no more than what there is by now, and the   *)
(* totals it has read are behind by no more than was counted meanwhile.    *)

Asked ==
  [pc : {"idle", "reading", "answered"}, today : Day, todo : SUBSET Statement, unique : Nat, total : Nat,
   activeDays : Nat, period : UNION {[D -> Nat] : D \in SUBSET Day}, streak : SUBSET Day]

Told == SumOver(ask.period, DOMAIN ask.period)

CountsAgree ==
  /\ SumReadCounts = Total(versesOn) /\ SumReadCounts <= MaxOpens
  /\ ask.pc = "reading" => during <= SumReadCounts

ReadSoFar ==
  ask.pc = "reading" =>
    /\ Told <= SumReadCounts /\ ask.unique <= SumReadCounts
    /\ Cardinality(DOMAIN ask.period) <= Cardinality(ActiveDays)
    /\ \/ "total" \in ask.todo \/ SumReadCounts <= ask.total + during
       \/ Told = 0 /\ ask.unique = 0 /\ "period" \notin ask.todo /\ "unique" \notin ask.todo
    /\ \/ "activeDays" \in ask.todo \/ Cardinality(ActiveDays) <= ask.activeDays + during
       \/ DOMAIN ask.period = {} /\ "period" \notin ask.todo

ToldFits ==
  ask.pc = "answered" =>
    /\ Told <= ask.total + during /\ ask.unique <= ask.total + during
    /\ Cardinality(DOMAIN ask.period) <= ask.activeDays + during

StatsInv == StatsTypeOK /\ ask \in Asked /\ CountsAgree /\ ReadSoFar /\ ToldFits

LEMMA StatsNumbers ==
  ASSUME StatsTypeOK
  PROVE  /\ Dates(Day) /\ IsFiniteSet(Ayah)
         /\ Numeric(opensOf, Ayah) /\ Numeric(versesOn, Day)
         /\ SumReadCounts = SumOver(opensOf, Ayah) /\ Total(versesOn) = SumOver(versesOn, Day)
         /\ SumReadCounts \in Nat
         /\ ActiveDays \in SUBSET Day /\ IsFiniteSet(ActiveDays) /\ Cardinality(ActiveDays) \in Nat
         /\ Today \in Day
<1>1. Dates(Day)
  <2>1. LastDay + MaxAhead \in Int /\ 0 \in Int
    BY StatsAssumption
  <2>2. IsFiniteSet(0..(LastDay + MaxAhead))
    BY <2>1, FS_Interval
  <2> QED BY <2>1, <2>2 DEF Day, Dates
<1>2. IsFiniteSet(Ayah) /\ opensOf \in [Ayah -> Nat] /\ versesOn \in [Day -> Nat]
  BY StatsAssumption DEF StatsTypeOK
<1>3. Numeric(opensOf, Ayah) /\ Numeric(versesOn, Day)
  BY <1>1, <1>2 DEF Numeric, Dates
<1>4. SumReadCounts = SumOver(opensOf, Ayah) /\ Total(versesOn) = SumOver(versesOn, Day)
  BY <1>2 DEF SumReadCounts, Total
<1>5. SumReadCounts \in Nat
  BY <1>3, <1>4, SumTakesOut
<1>6. ActiveDays \in SUBSET Day
  BY DEF ActiveDays
<1>7. IsFiniteSet(ActiveDays) /\ Cardinality(ActiveDays) \in Nat
  BY <1>1, <1>6, FS_Subset, FS_CardinalityType DEF Dates
<1>8. Today \in Day
  BY StatsAssumption DEF StatsTypeOK, Today, Day
<1> QED BY <1>1, <1>2, <1>3, <1>4, <1>5, <1>6, <1>7, <1>8

LEMMA AskedNumbers ==
  ASSUME StatsTypeOK, ask \in Asked
  PROVE  /\ Numeric(ask.period, DOMAIN ask.period) /\ DOMAIN ask.period \in SUBSET Day
         /\ Told \in Nat /\ Cardinality(DOMAIN ask.period) \in Nat
         /\ ask.today \in Nat /\ ask.total \in Nat /\ ask.unique \in Nat /\ ask.activeDays \in Nat /\ during \in Nat
         /\ Dates(ask.streak)
<1>1. Dates(Day)
  BY StatsNumbers
<1>2. PICK D \in SUBSET Day : ask.period \in [D -> Nat]
  BY DEF Asked
<1>3. DOMAIN ask.period \in SUBSET Day /\ Numeric(ask.period, DOMAIN ask.period)
  BY <1>1, <1>2, FS_Subset DEF Numeric, Dates
<1>4. Told \in Nat
  BY <1>3, SumTakesOut DEF Told
<1>5. Cardinality(DOMAIN ask.period) \in Nat
  BY <1>3, FS_CardinalityType DEF Numeric
<1>6. ask.today \in Day /\ ask.total \in Nat /\ ask.unique \in Nat /\ ask.activeDays \in Nat /\ ask.streak \in SUBSET Day
  BY DEF Asked
<1>7. Dates(ask.streak)
  BY <1>1, <1>6, FS_Subset DEF Dates
<1>8. during \in Nat
  BY StatsAssumption DEF StatsTypeOK
<1>9. ask.today \in Nat
  BY <1>1, <1>6 DEF Dates
<1> QED BY <1>3, <1>4, <1>5, <1>6, <1>7, <1>8, <1>9

LEMMA StatsTruth ==
  ASSUME StatsInv
  PROVE  StatisticsAreTrue
<1> SUFFICES ASSUME ask.pc = "answered" PROVE StreaksAreRuns /\ FiguresFit
  BY DEF StatisticsAreTrue
<1>1. StatsTypeOK /\ ask \in Asked /\ ToldFits
  BY DEF StatsInv
<1>2. /\ Numeric(ask.period, DOMAIN ask.period) /\ DOMAIN ask.period \in SUBSET Day
      /\ Told \in Nat /\ Cardinality(DOMAIN ask.period) \in Nat
      /\ ask.today \in Nat /\ ask.total \in Nat /\ ask.unique \in Nat /\ ask.activeDays \in Nat /\ during \in Nat
      /\ Dates(ask.streak)
  BY <1>1, AskedNumbers
<1>3. /\ Answer.longest = LongestRun(ask.streak) /\ Answer.current = CurrentStreak(ask.streak, ask.today)
      /\ Answer.unique = ask.unique /\ Answer.total = ask.total /\ Answer.activeDays = ask.activeDays
      /\ Answer.repeated = IF ask.total > ask.unique THEN ask.total - ask.unique ELSE 0
      /\ Answer.today = PeriodFromMap(ask.period, ask.today, ask.today)
      /\ Answer.short = PeriodFromMap(ask.period, ask.today - (ShortPeriod - 1), ask.today)
      /\ Answer.long = PeriodFromMap(ask.period, ask.today - (LongPeriod - 1), ask.today)
  BY DEF Answer
<1>4. StreaksAreRuns
  <2>1. /\ \A d \in ask.streak : RunTo(ask.streak, d) <= LongestRun(ask.streak)
        /\ LongestRun(ask.streak) > 0 => \E d \in ask.streak : RunTo(ask.streak, d) = LongestRun(ask.streak)
    BY <1>2, LongestRunIs
  <2>2. CurrentStreak(ask.streak, ask.today) =
          IF \E d \in ask.streak : d > ask.today THEN 0
          ELSE IF ask.today \in ask.streak THEN RunTo(ask.streak, ask.today)
          ELSE RunTo(ask.streak, ask.today - 1)
    <3>1. ask.today \in Int
      BY <1>2
    <3> QED BY <1>2, <3>1, CurrentStreakIs
  <2> QED BY <1>3, <2>1, <2>2 DEF StreaksAreRuns
<1>5. FiguresFit
  <2>1. PICK t \in Nat, s \in Int, l \in Int :
          t = ask.today /\ s = ask.today - (ShortPeriod - 1) /\ l = ask.today - (LongPeriod - 1)
          /\ l <= s /\ s <= t
    BY <1>2, StatsAssumption
  <2>2. DOMAIN ask.period \subseteq Nat
    BY <1>1, <1>2, StatsNumbers DEF Dates
  <2>3. /\ PeriodFromMap(ask.period, t, t).versesRead <= PeriodFromMap(ask.period, s, t).versesRead
        /\ PeriodFromMap(ask.period, s, t).versesRead \in Nat
    BY <1>2, <2>1, <2>2, PeriodsGrow
  <2>4. /\ PeriodFromMap(ask.period, s, t).versesRead <= PeriodFromMap(ask.period, l, t).versesRead
        /\ PeriodFromMap(ask.period, l, t).versesRead <= Told
        /\ PeriodFromMap(ask.period, l, t).activeDays <= Cardinality(DOMAIN ask.period)
        /\ PeriodFromMap(ask.period, l, t).versesRead \in Nat
        /\ PeriodFromMap(ask.period, l, t).activeDays \in Nat
    BY <1>2, <2>1, <2>2, PeriodsGrow DEF Told
  <2>5. CurrentStreak(ask.streak, ask.today) <= LongestRun(ask.streak)
    <3>1. ask.today \in Int
      BY <1>2
    <3> QED BY <1>2, <3>1, CurrentStreakIs
  <2>6. /\ Told <= ask.total + during /\ ask.unique <= ask.total + during
        /\ Cardinality(DOMAIN ask.period) <= ask.activeDays + during
    BY <1>1 DEF ToldFits
  <2>7. Answer.today.versesRead <= Answer.short.versesRead /\ Answer.short.versesRead <= Answer.long.versesRead
    BY <1>3, <2>1, <2>3, <2>4
  <2>8. Answer.long.versesRead <= Answer.total + during /\ Answer.long.activeDays <= Answer.activeDays + during
    BY <1>2, <1>3, <2>1, <2>4, <2>6
  <2>9. Answer.unique <= Answer.total + during /\ Answer.repeated <= Answer.total /\ Answer.current <= Answer.longest
    BY <1>2, <1>3, <2>5, <2>6
  <2> QED BY <2>7, <2>8, <2>9 DEF FiguresFit
<1> QED BY <1>4, <1>5

----------------------------------------------------------------------------
(* What a step does to the figures. *)

LEMMA RowsInRange ==
  ASSUME StatsTypeOK, NEW from \in Int, NEW to \in Int
  PROVE  /\ FindDaysInRange(from, to) \in UNION {[D -> Nat] : D \in SUBSET Day}
         /\ SumOver(FindDaysInRange(from, to), DOMAIN FindDaysInRange(from, to)) <= SumOver(versesOn, Day)
         /\ Cardinality(DOMAIN FindDaysInRange(from, to)) <= Cardinality(ActiveDays)
<1>1. PICK h : h = FindDaysInRange(from, to)
  OBVIOUS
<1>2. PICK D : D = {x \in ActiveDays : from <= x /\ x <= to}
  OBVIOUS
<1>3. h = [d \in D |-> versesOn[d]]
  BY <1>1, <1>2 DEF FindDaysInRange
<1>4. /\ Numeric(versesOn, Day) /\ ActiveDays \in SUBSET Day /\ IsFiniteSet(ActiveDays)
      /\ \A d \in Day : versesOn[d] \in Nat
  BY StatsNumbers DEF Numeric
<1>5. D \in SUBSET ActiveDays /\ D \in SUBSET Day
  BY <1>2, <1>4
<1>6. DOMAIN h = D /\ h \in [D -> Nat] /\ \A d \in D : h[d] = versesOn[d]
  BY <1>3, <1>4, <1>5
<1>7. Numeric(versesOn, D)
  BY <1>4, <1>5, FS_Subset DEF Numeric
<1>8. SumOver(h, D) = SumOver(versesOn, D)
  BY <1>6, <1>7, SumsOfTheSame
<1>9. SumOver(versesOn, D) <= SumOver(versesOn, Day)
  BY <1>4, <1>5, SumGrows
<1>10. Cardinality(D) <= Cardinality(ActiveDays)
  BY <1>4, <1>5, FS_Subset
<1>11. h \in UNION {[E -> Nat] : E \in SUBSET Day}
  BY <1>5, <1>6
<1> QED BY <1>1, <1>6, <1>8, <1>9, <1>10, <1>11

LEMMA CountsStart == StatsInit => StatsInv
<1> SUFFICES ASSUME StatsInit PROVE StatsInv
  OBVIOUS
<1>1. /\ date = 0 /\ ahead \in 0..MaxAhead /\ during = 0 /\ ask = NoAsk
      /\ opensOf = [a \in Ayah |-> 0] /\ versesOn = [d \in Day |-> 0]
  BY DEF StatsInit
<1>2. 0 \in Day /\ LastDay \in Nat /\ MaxAhead \in Nat /\ MaxOpens \in Nat
  BY StatsAssumption DEF Day
<1>3. ask \in Asked
  <2>1. Unread \in UNION {[D -> Nat] : D \in SUBSET Day}
    <3>1. Unread \in [{} -> Nat] /\ {} \in SUBSET Day
      BY DEF Unread
    <3> QED BY <3>1
  <2> QED BY <1>1, <1>2, <2>1 DEF Asked, NoAsk
<1>4. StatsTypeOK
  BY <1>1, <1>2 DEF StatsTypeOK, NoAsk, Unread
<1>5. CountsAgree
  <2>1. /\ Numeric(opensOf, Ayah) /\ Numeric(versesOn, Day)
        /\ SumReadCounts = SumOver(opensOf, Ayah) /\ Total(versesOn) = SumOver(versesOn, Day)
    BY <1>4, StatsNumbers
  <2>2. SumOver(opensOf, Ayah) = 0
    BY <1>1, <2>1, SumOfNothing
  <2>3. SumOver(versesOn, Day) = 0
    BY <1>1, <2>1, SumOfNothing
  <2> QED BY <1>1, <1>2, <2>1, <2>2, <2>3 DEF CountsAgree, NoAsk
<1>6. ReadSoFar /\ ToldFits
  BY <1>1 DEF ReadSoFar, ToldFits, NoAsk
<1> QED BY <1>3, <1>4, <1>5, <1>6 DEF StatsInv

LEMMA AskKeeps ==
  ASSUME StatsInv, NEW figures, AskFor(figures), figures \in {Statement, {"streak"}, {"unique", "total"}}
  PROVE  StatsInv'
<1>1. /\ StatsTypeOK /\ ask \in Asked /\ CountsAgree
      /\ UNCHANGED <<date, ahead, opensOf, versesOn>> /\ during' = 0
      /\ ask' = [NoAsk EXCEPT !.pc = "reading", !.today = Today, !.todo = figures]
  BY DEF StatsInv, AskFor
<1>2. ask' = [pc |-> "reading", today |-> Today, todo |-> figures, unique |-> 0, total |-> 0,
              activeDays |-> 0, period |-> Unread, streak |-> {}]
  BY <1>1 DEF NoAsk
<1>3. Today \in Day /\ SumReadCounts \in Nat /\ ActiveDays \in SUBSET Day /\ Cardinality(ActiveDays) \in Nat
  BY <1>1, StatsNumbers
<1>4. figures \in SUBSET Statement
  BY DEF Statement
<1>5. Unread \in UNION {[D -> Nat] : D \in SUBSET Day} /\ DOMAIN Unread = {}
  <2>1. Unread \in [{} -> Nat] /\ {} \in SUBSET Day
    BY DEF Unread
  <2> QED BY <2>1
<1>6. (ask \in Asked)'
  BY <1>2, <1>3, <1>4, <1>5 DEF Asked
<1>7. StatsTypeOK'
  <2>1. /\ ask'.pc = "reading" /\ ask'.today \in Day /\ ask'.todo \in SUBSET Statement
        /\ ask'.unique \in Nat /\ ask'.total \in Nat /\ ask'.activeDays \in Nat
        /\ DOMAIN ask'.period = {} /\ ask'.streak = {}
    BY <1>2, <1>3, <1>4, <1>5
  <2> QED BY <1>1, <2>1, StatsAssumption DEF StatsTypeOK
<1>8. SumReadCounts' = SumReadCounts /\ Total(versesOn') = Total(versesOn) /\ ActiveDays' = ActiveDays
  BY <1>1 DEF SumReadCounts, ActiveDays
<1>9. CountsAgree'
  BY <1>1, <1>3, <1>8 DEF CountsAgree
<1>10. ask'.period = Unread /\ ask'.pc = "reading" /\ ask'.unique = 0 /\ ask'.total = 0 /\ ask'.activeDays = 0
       /\ ask'.todo = figures
  BY <1>2
<1>11. Told' = 0
  <2>1. Numeric(Unread, {})
    BY FS_EmptySet DEF Numeric
  <2>2. SumOver(Unread, {}) = 0
    BY <2>1, SumTakesOut
  <2> QED BY <1>5, <1>10, <2>2 DEF Told
<1>12. Cardinality(DOMAIN ask'.period) = 0 /\ DOMAIN ask'.period = {}
  BY <1>5, <1>10, FS_EmptySet
<1>13. ReadSoFar'
  BY <1>1, <1>3, <1>8, <1>10, <1>11, <1>12 DEF ReadSoFar, Statement
<1>14. ToldFits'
  BY <1>10 DEF ToldFits
<1> QED BY <1>6, <1>7, <1>9, <1>13, <1>14 DEF StatsInv

\* a statement reads what it reads, and leaves the rest of the request
Reads(s, b) ==
  /\ b = [pc |-> b.pc, today |-> b.today, todo |-> b.todo, unique |-> b.unique, total |-> b.total,
          activeDays |-> b.activeDays, period |-> b.period, streak |-> b.streak]
  /\ b.pc = (IF ask.todo \ {s} = {} THEN "answered" ELSE "reading")
  /\ b.today = ask.today /\ b.todo = ask.todo \ {s}
  /\ b.unique = (IF s = "unique" THEN CountUniqueAyahs ELSE ask.unique)
  /\ b.total = (IF s = "total" THEN SumReadCounts ELSE ask.total)
  /\ b.activeDays = (IF s = "activeDays" THEN Cardinality(ActiveDays) ELSE ask.activeDays)
  /\ b.period = (IF s = "period" THEN FindDaysInRange(ask.today - (LongPeriod - 1), ask.today) ELSE ask.period)
  /\ b.streak = (IF s = "streak" THEN FindActiveDayDates(ask.today - (Lookback - 1)) ELSE ask.streak)

LEMMA ReadShape ==
  ASSUME ask \in Asked, NEW s \in Statement, ReadFigure(s)
  PROVE  /\ ask.pc = "reading" /\ s \in ask.todo /\ Reads(s, ask')
         /\ UNCHANGED <<date, ahead, opensOf, versesOn, during>>
<1> DEFINE from == ask.today - (LongPeriod - 1)
           read == [ask EXCEPT
             !.unique = IF s = "unique" THEN CountUniqueAyahs ELSE @,
             !.total = IF s = "total" THEN SumReadCounts ELSE @,
             !.activeDays = IF s = "activeDays" THEN Cardinality(ActiveDays) ELSE @,
             !.period = IF s = "period" THEN FindDaysInRange(from, ask.today) ELSE @,
             !.streak = IF s = "streak" THEN FindActiveDayDates(ask.today - (Lookback - 1)) ELSE @]
<1>1. /\ ask.pc = "reading" /\ s \in ask.todo
      /\ ask' = [read EXCEPT !.todo = ask.todo \ {s},
                             !.pc = IF ask.todo \ {s} = {} THEN "answered" ELSE "reading"]
      /\ UNCHANGED <<date, ahead, opensOf, versesOn, during>>
  BY DEF ReadFigure
<1>2. ask = [pc |-> ask.pc, today |-> ask.today, todo |-> ask.todo, unique |-> ask.unique, total |-> ask.total,
             activeDays |-> ask.activeDays, period |-> ask.period, streak |-> ask.streak]
  BY DEF Asked
<1> QED BY <1>1, <1>2 DEF Reads
\* an element that counts adds one or more to the sum
LEMMA CountedIsLess ==
  ASSUME NEW f, NEW S, Numeric(f, S)
  PROVE  Cardinality({x \in S : f[x] > 0}) <= SumOver(f, S)
<1> DEFINE Above(T) == {x \in T : f[x] > 0}
           G == {T \in SUBSET S : Cardinality(Above(T)) <= SumOver(f, T)}
<1>1. \A T \in SUBSET S : Numeric(f, T) /\ IsFiniteSet(Above(T)) /\ Cardinality(Above(T)) \in Nat
  <2>1. \A T \in SUBSET S : IsFiniteSet(T) /\ Above(T) \in SUBSET T
    BY FS_Subset DEF Numeric
  <2> HIDE DEF Above
  <2> QED BY <2>1, FS_Subset, FS_CardinalityType DEF Numeric
<1>2. {} \in G
  <2>1. Above({}) = {} /\ SumOver(f, {}) = 0
    BY <1>1, SumTakesOut
  <2> HIDE DEF Above
  <2> QED BY <2>1, FS_EmptySet
<1>3. ASSUME NEW T \in SUBSET S, T # {}, \A x \in T : T \ {x} \in G PROVE T \in G
  <2>1. PICK x \in T : TRUE
    BY <1>3
  <2>2. f[x] \in Nat /\ SumOver(f, T) = f[x] + SumOver(f, T \ {x}) /\ SumOver(f, T \ {x}) \in Nat
    <3>1. Numeric(f, T)
      BY <1>1
    <3> QED BY <3>1, SumTakesOut
  <2>3. Cardinality(Above(T \ {x})) <= SumOver(f, T \ {x}) /\ Cardinality(Above(T \ {x})) \in Nat
    <3>1. T \ {x} \in G /\ T \ {x} \in SUBSET S
      BY <1>3
    <3> HIDE DEF Above
    <3> QED BY <1>1, <3>1
  <2>4. CASE f[x] > 0
    <3>1. x \in Above(T) /\ Above(T \ {x}) = Above(T) \ {x}
      BY <2>4
    <3>2. Cardinality(Above(T)) = Cardinality(Above(T) \ {x}) + 1
      <4> HIDE DEF Above
      <4> QED BY <1>1, <3>1, OneLess
    <3> HIDE DEF Above
    <3> QED BY <2>2, <2>3, <2>4, <3>1, <3>2
  <2>5. CASE f[x] = 0
    <3>1. Above(T \ {x}) = Above(T)
      BY <2>5
    <3> HIDE DEF Above
    <3> QED BY <2>2, <2>3, <2>5, <3>1
  <2> QED BY <2>2, <2>4, <2>5
<1> HIDE DEF G
<1>4. \A T \in SUBSET S : T # {} /\ (\A x \in T : T \ {x} \in G) => T \in G
  BY <1>3
<1>5. S \in G
  <2>1. IsFiniteSet(S)
    BY DEF Numeric
  <2> QED BY <1>2, <1>4, <2>1, AllSubsets
<1> QED BY <1>5 DEF G

LEMMA ReadKeeps ==
  ASSUME StatsInv, NEW s \in Statement, ReadFigure(s)
  PROVE  StatsInv'
<1>1. /\ StatsTypeOK /\ ask \in Asked /\ CountsAgree /\ ReadSoFar
      /\ UNCHANGED <<date, ahead, opensOf, versesOn, during>>
      /\ ask.pc = "reading" /\ s \in ask.todo /\ Reads(s, ask')
  BY ReadShape DEF StatsInv
<1>2. PICK verses \in Nat : verses = SumReadCounts
  BY <1>1, StatsNumbers
<1>3. PICK days \in Nat : days = Cardinality(ActiveDays)
  BY <1>1, StatsNumbers
<1>4. during \in Nat /\ ask.unique \in Nat /\ ask.total \in Nat /\ ask.activeDays \in Nat /\ Told \in Nat
      /\ Cardinality(DOMAIN ask.period) \in Nat /\ ask.today \in Nat
      /\ ask.todo \in SUBSET Statement /\ ask.streak \in SUBSET Day
      /\ ask.period \in UNION {[D -> Nat] : D \in SUBSET Day} /\ ask.today \in Day
  BY <1>1, AskedNumbers DEF Asked
<1>5. CountUniqueAyahs \in Nat /\ CountUniqueAyahs <= verses
  <2>1. Numeric(opensOf, Ayah) /\ SumReadCounts = SumOver(opensOf, Ayah)
    BY <1>1, StatsNumbers
  <2>2. CountUniqueAyahs <= verses
    BY <1>2, <2>1, CountedIsLess DEF CountUniqueAyahs
  <2>3. {a \in Ayah : opensOf[a] > 0} \in SUBSET Ayah
    OBVIOUS
  <2>4. CountUniqueAyahs \in Nat
    BY <2>1, <2>3, FS_Subset, FS_CardinalityType DEF CountUniqueAyahs, Numeric
  <2> QED BY <2>2, <2>4
<1>6. PICK found : found = FindDaysInRange(ask.today - (LongPeriod - 1), ask.today)
  OBVIOUS
<1>7. /\ found \in UNION {[D -> Nat] : D \in SUBSET Day}
      /\ SumOver(found, DOMAIN found) <= verses
      /\ Cardinality(DOMAIN found) <= days
  <2>1. ask.today - (LongPeriod - 1) \in Int /\ ask.today \in Int
    BY <1>4, StatsAssumption
  <2>2. SumReadCounts = SumOver(versesOn, Day)
    BY <1>1, StatsNumbers DEF CountsAgree
  <2> QED BY <1>1, <1>2, <1>3, <1>6, <2>1, <2>2, RowsInRange
<1>8. FindActiveDayDates(ask.today - (Lookback - 1)) \in SUBSET Day
  BY DEF FindActiveDayDates, ActiveDays
<1>9. PICK b : b = ask'
  OBVIOUS
<1>10. /\ b.pc = (IF ask.todo \ {s} = {} THEN "answered" ELSE "reading")
       /\ b.today = ask.today /\ b.todo = ask.todo \ {s}
       /\ b.unique = (IF s = "unique" THEN CountUniqueAyahs ELSE ask.unique)
       /\ b.total = (IF s = "total" THEN verses ELSE ask.total)
       /\ b.activeDays = (IF s = "activeDays" THEN days ELSE ask.activeDays)
       /\ b.period = (IF s = "period" THEN found ELSE ask.period)
       /\ b.streak = (IF s = "streak" THEN FindActiveDayDates(ask.today - (Lookback - 1)) ELSE ask.streak)
  BY <1>1, <1>2, <1>3, <1>6, <1>9 DEF Reads
<1>11. b \in Asked
  <2>1. /\ b.pc \in {"idle", "reading", "answered"} /\ b.today \in Day /\ b.todo \in SUBSET Statement
        /\ b.unique \in Nat /\ b.total \in Nat /\ b.activeDays \in Nat
        /\ b.period \in UNION {[D -> Nat] : D \in SUBSET Day} /\ b.streak \in SUBSET Day
    BY <1>4, <1>5, <1>7, <1>8, <1>10
  <2>2. b = [pc |-> b.pc, today |-> b.today, todo |-> b.todo, unique |-> b.unique, total |-> b.total,
             activeDays |-> b.activeDays, period |-> b.period, streak |-> b.streak]
    BY <1>1, <1>9 DEF Reads
  <2> QED BY <2>1, <2>2 DEF Asked
<1>12. StatsTypeOK'
  <2>1. DOMAIN b.period \in SUBSET Day
    BY <1>11 DEF Asked
  <2> QED BY <1>1, <1>9, <1>11, <2>1 DEF StatsTypeOK, Asked
<1>13. SumReadCounts' = verses /\ Total(versesOn') = Total(versesOn) /\ ActiveDays' = ActiveDays
  BY <1>1, <1>2 DEF SumReadCounts, ActiveDays
<1>14. CountsAgree'
  BY <1>1, <1>2, <1>13 DEF CountsAgree
<1>15. Told' = IF s = "period" THEN SumOver(found, DOMAIN found) ELSE Told
  BY <1>9, <1>10 DEF Told
<1>16. PICK told \in Int : told = Told'
  <2>1. SumOver(found, DOMAIN found) \in Nat
    <3>1. Numeric(found, DOMAIN found)
      <4>1. Dates(Day)
        BY <1>1, StatsNumbers
      <4>2. PICK D \in SUBSET Day : found \in [D -> Nat]
        BY <1>7
      <4> QED BY <4>1, <4>2, FS_Subset DEF Numeric, Dates
    <3> QED BY <3>1, SumTakesOut
  <2> QED BY <1>4, <1>15, <2>1
<1>17. PICK on \in Nat : on = Cardinality(DOMAIN b.period)
  <2>1. Dates(Day)
    BY <1>1, StatsNumbers
  <2>2. DOMAIN b.period \in SUBSET Day
    BY <1>11 DEF Asked
  <2> QED BY <2>1, <2>2, FS_Subset, FS_CardinalityType DEF Dates
<1>18. told <= verses /\ b.unique <= verses /\ on <= days
  BY <1>1, <1>2, <1>3, <1>5, <1>7, <1>10, <1>15, <1>16, <1>17 DEF ReadSoFar
<1>19. \/ "total" \in b.todo \/ verses <= b.total + during
       \/ told = 0 /\ b.unique = 0 /\ "period" \notin b.todo /\ "unique" \notin b.todo
  BY <1>1, <1>2, <1>4, <1>10, <1>15, <1>16 DEF ReadSoFar
<1>20. \/ "activeDays" \in b.todo \/ days <= b.activeDays + during
       \/ DOMAIN b.period = {} /\ "period" \notin b.todo
  BY <1>1, <1>3, <1>4, <1>10 DEF ReadSoFar
<1>21. ReadSoFar'
  BY <1>1, <1>9, <1>13, <1>3, <1>16, <1>17, <1>18, <1>19, <1>20 DEF ReadSoFar
<1>22. ToldFits'
  <2> SUFFICES ASSUME b.pc = "answered"
               PROVE  told <= b.total + during /\ b.unique <= b.total + during /\ on <= b.activeDays + during
    BY <1>1, <1>9, <1>16, <1>17 DEF ToldFits
  <2>1. b.todo = {}
    BY <1>10
  <2>2. b.total \in Nat /\ b.unique \in Nat /\ b.activeDays \in Nat
    BY <1>11 DEF Asked
  <2>3. DOMAIN b.period = {} => on = 0
    BY <1>17, FS_EmptySet
  <2> QED BY <1>4, <1>18, <1>19, <1>20, <2>1, <2>2, <2>3
<1> QED BY <1>9, <1>11, <1>12, <1>14, <1>21, <1>22 DEF StatsInv

LEMMA OpenKeeps ==
  ASSUME StatsInv, NEW a \in Ayah, NEW d \in Day, OpenIsCounted(a, d)
  PROVE  StatsInv'
<1>1. /\ StatsTypeOK /\ ask \in Asked /\ CountsAgree /\ ReadSoFar /\ ToldFits
      /\ SumReadCounts < MaxOpens
      /\ opensOf' = [opensOf EXCEPT ![a] = @ + 1] /\ versesOn' = [versesOn EXCEPT ![d] = @ + 1]
      /\ during' = IF ask.pc = "reading" THEN during + 1 ELSE during
      /\ UNCHANGED <<date, ahead, ask>>
  BY DEF StatsInv, OpenIsCounted
<1>2. PICK verses \in Nat : verses = SumReadCounts
  BY <1>1, StatsNumbers
<1>3. PICK days \in Nat : days = Cardinality(ActiveDays)
  BY <1>1, StatsNumbers
<1>4. /\ opensOf \in [Ayah -> Nat] /\ versesOn \in [Day -> Nat]
      /\ IsFiniteSet(Ayah) /\ IsFiniteSet(Day) /\ MaxOpens \in Nat /\ during \in Nat
      /\ ActiveDays \in SUBSET Day /\ IsFiniteSet(ActiveDays)
  BY <1>1, StatsNumbers, AskedNumbers, StatsAssumption DEF StatsTypeOK, Dates
<1>5. opensOf' \in [Ayah -> Nat] /\ versesOn' \in [Day -> Nat]
  BY <1>1, <1>4
<1>6. SumReadCounts' = verses + 1
  <2>1. Total([opensOf EXCEPT ![a] = @ + 1]) = Total(opensOf) + 1
    BY <1>4, SumWithOneMore
  <2> QED BY <1>1, <1>2, <2>1 DEF SumReadCounts
<1>7. Total(versesOn') = verses + 1
  <2>1. Total([versesOn EXCEPT ![d] = @ + 1]) = Total(versesOn) + 1
    BY <1>4, SumWithOneMore
  <2> QED BY <1>1, <1>2, <2>1 DEF CountsAgree
<1>8. PICK onMore \in Nat : onMore = Cardinality(ActiveDays') /\ days <= onMore /\ onMore <= days + 1
  <2>1. \A x \in Day : versesOn[x] \in Nat /\ versesOn'[x] = IF x = d THEN versesOn[x] + 1 ELSE versesOn[x]
    BY <1>1, <1>4
  <2>2. ActiveDays' = ActiveDays \union {d}
    BY <2>1 DEF ActiveDays
  <2>3. Cardinality(ActiveDays \union {d}) = IF d \in ActiveDays THEN days ELSE days + 1
    BY <1>3, <1>4, FS_AddElement
  <2> QED BY <1>3, <2>2, <2>3
<1>9. during' \in 0..MaxOpens /\ (ask.pc = "reading" => during' = during + 1 /\ during' <= verses + 1)
  BY <1>1, <1>2, <1>4 DEF CountsAgree, StatsTypeOK
<1>10. StatsTypeOK' /\ (ask \in Asked)'
  BY <1>1, <1>5, <1>9 DEF StatsTypeOK, Asked, Day
<1>11. CountsAgree'
  BY <1>1, <1>2, <1>4, <1>6, <1>7, <1>9 DEF CountsAgree
<1>12. Told' = Told
  BY <1>1 DEF Told
<1>13. /\ Told \in Nat /\ Cardinality(DOMAIN ask.period) \in Nat
       /\ ask.total \in Nat /\ ask.unique \in Nat /\ ask.activeDays \in Nat
  BY <1>1, AskedNumbers
<1>14. ReadSoFar'
  <2> SUFFICES ASSUME ask.pc = "reading"
               PROVE  /\ Told <= verses + 1 /\ ask.unique <= verses + 1
                      /\ Cardinality(DOMAIN ask.period) <= onMore
                      /\ \/ "total" \in ask.todo \/ verses + 1 <= ask.total + (during + 1)
                         \/ Told = 0 /\ ask.unique = 0 /\ "period" \notin ask.todo /\ "unique" \notin ask.todo
                      /\ \/ "activeDays" \in ask.todo \/ onMore <= ask.activeDays + (during + 1)
                         \/ DOMAIN ask.period = {} /\ "period" \notin ask.todo
    BY <1>1, <1>6, <1>8, <1>9, <1>12 DEF ReadSoFar
  <2>1. /\ Told <= verses /\ ask.unique <= verses /\ Cardinality(DOMAIN ask.period) <= days
        /\ \/ "total" \in ask.todo \/ verses <= ask.total + during
           \/ Told = 0 /\ ask.unique = 0 /\ "period" \notin ask.todo /\ "unique" \notin ask.todo
        /\ \/ "activeDays" \in ask.todo \/ days <= ask.activeDays + during
           \/ DOMAIN ask.period = {} /\ "period" \notin ask.todo
    BY <1>1, <1>2, <1>3 DEF ReadSoFar
  <2> QED BY <1>4, <1>8, <1>13, <2>1
<1>15. ToldFits'
  BY <1>1, <1>12 DEF ToldFits
<1> QED BY <1>10, <1>11, <1>14, <1>15 DEF StatsInv

\* the dates alone
LEMMA DateKeeps ==
  ASSUME StatsInv, UNCHANGED <<opensOf, versesOn, ask, during>>,
         date' \in 0..LastDay, ahead' \in 0..MaxAhead
  PROVE  StatsInv'
<1>1. SumReadCounts' = SumReadCounts /\ ActiveDays' = ActiveDays /\ Told' = Told /\ Total(versesOn') = Total(versesOn)
  BY DEF SumReadCounts, ActiveDays, Told
<1>2. StatsTypeOK' /\ (ask \in Asked)'
  BY DEF StatsInv, StatsTypeOK, Asked
<1>3. CountsAgree' /\ ReadSoFar' /\ ToldFits'
  BY <1>1 DEF StatsInv, CountsAgree, ReadSoFar, ToldFits
<1> QED BY <1>2, <1>3 DEF StatsInv

LEMMA StatsStep == StatsInv /\ [StatsNext]_statVars => StatsInv'
<1> SUFFICES ASSUME StatsInv, [StatsNext]_statVars PROVE StatsInv'
  OBVIOUS
<1>1. StatsTypeOK
  BY DEF StatsInv
<1>2. CASE GetStatistics \/ GetStreak \/ GetReadingProgress
  BY <1>2, AskKeeps DEF GetStatistics, GetStreak, GetReadingProgress
<1>3. CASE \E s \in Statement : ReadFigure(s)
  BY <1>3, ReadKeeps
<1>4. CASE \E a \in Ayah, d \in Day : OpenIsCounted(a, d)
  BY <1>4, OpenKeeps
<1>5. CASE \E n \in 0..MaxAhead : ChangeTimezone(n)
  BY <1>1, <1>5, DateKeeps DEF ChangeTimezone, StatsTypeOK
<1>6. CASE Midnight
  <2>1. date' = date + 1 /\ date < LastDay /\ date \in 0..LastDay /\ LastDay \in Nat
    BY <1>1, <1>6, StatsAssumption DEF Midnight, StatsTypeOK
  <2>2. date' \in 0..LastDay
    BY <2>1
  <2> QED BY <1>1, <1>6, <2>2, DateKeeps DEF Midnight, StatsTypeOK
<1>7. CASE UNCHANGED statVars
  BY <1>1, <1>7, DateKeeps DEF statVars, StatsTypeOK
<1> QED BY <1>2, <1>3, <1>4, <1>5, <1>6, <1>7 DEF StatsNext

(* The figures are numbers and the days are days, in every state. *)
THEOREM StatsTypeCorrect == StatsSpec => []StatsTypeOK
<1>1. StatsInv => StatsTypeOK
  BY DEF StatsInv
<1> QED BY <1>1, CountsStart, StatsStep, PTL DEF StatsSpec

(* What is told of a user's reading is true of the days and the counts it  *)
(* was read from, whatever was counted between the statements, whichever   *)
(* of them came first, and wherever he has travelled meanwhile.            *)
THEOREM StatisticsHold == StatsSpec => []StatisticsAreTrue
<1> QED BY CountsStart, StatsStep, StatsTruth, PTL DEF StatsSpec

----------------------------------------------------------------------------
(* Every part keeps to its types, whichever of them a behaviour is of. *)
THEOREM PartsTypeCorrect == MCSpec => []PartsTypeOK
<1>1. MCInit => GoalsInit /\ Init /\ StatsInit
  BY DEF MCInit
<1>2. [MCNext]_allVars => [GoalsNext]_goalVars /\ [Next]_vars /\ [StatsNext]_statVars
  BY DEF MCNext, allVars
<1>3. MCSpec => GoalsSpec /\ Spec /\ StatsSpec
  BY <1>1, <1>2, PTL DEF MCSpec, GoalsSpec, Spec, StatsSpec
<1>4. GoalsTypeOK /\ TypeOK /\ StatsTypeOK => PartsTypeOK
  BY DEF PartsTypeOK
<1>5. MCSpec => []GoalsTypeOK /\ []TypeOK /\ []StatsTypeOK
  BY <1>3, GoalsTypeCorrect, TypeCorrect, StatsTypeCorrect
<1> QED BY <1>4, <1>5, PTL
=================================================================================
