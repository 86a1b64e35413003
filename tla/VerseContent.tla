---------------------------- MODULE VerseContent ----------------------------
(***************************************************************************)
(* The verses of one chapter as readers get them: as Quran.Foundation has  *)
(* them, or with the verses of a QuranEnc edition merged into them.  Three *)
(* entries of the cache are involved: the verses, the edition's rows, and  *)
(* the merge, which is loaded from the two others.  An entry is fresh for  *)
(* a while, then served stale while one shared load replaces it, and is    *)
(* gone when its retention ends.  An entry records how long ago it was     *)
(* written, and how old what it holds was then and is now, counted in      *)
(* ticks of hours; a load takes seconds, so that no tick falls into one.   *)
(***************************************************************************)
EXTENDS Integers

CONSTANTS
  Fresh,   \* freshness of each entry: config.cacheTtl.versesSeconds, ENC_CACHE_TTL_SECONDS
  Retain   \* QURAN_STALE_RETENTION_SECONDS

Entry == {"verses", "rows", "merged"}

ASSUME ContentAssumption ==
  /\ Retain \in Nat \ {0}
  /\ Fresh \in [Entry -> 1..Retain]

VARIABLES
  kept,     \* the entries that are cached
  load,     \* the shared load of each entry
  inUse,    \* the edition is active in the catalog
  offFor    \* how long it has been inactive, once it is

contentVars == <<kept, load, inUse, offFor>>

Missing == -1  \* there is nothing of it in the entry
MaxAge == 2 * Retain
Older(a) == IF a = Missing \/ a = MaxAge THEN a ELSE a + 1

(* The ages of what a value holds of the verses and of the edition. *)
Content == [verses: 0..MaxAge \union {Missing}, rows: 0..MaxAge \union {Missing}]
NoContent == [verses |-> Missing, rows |-> Missing]
NotKept == [age |-> Missing, content |-> NoContent]

LoadPc == {"none", "fetch", "base", "active", "rows", "write"}
NoLoad == [pc |-> "none", value |-> NoContent]

ContentTypeOK ==
  /\ kept \in [Entry -> [age: 0..Retain \union {Missing}, content: Content]]
  /\ load \in [Entry -> [pc: LoadPc, value: Content]]
  /\ inUse \in BOOLEAN
  /\ offFor \in 0..MaxAge

ContentInit ==
  /\ kept = [k \in Entry |-> NotKept]
  /\ load = [k \in Entry |-> NoLoad]
  /\ inUse \in BOOLEAN
  /\ offFor = 0

Idle(k) == load[k].pc = "none"
Waits(k) == \/ k = "verses" /\ load["merged"].pc = "base"
            \/ k = "rows" /\ load["merged"].pc = "rows"

----------------------------------------------------------------------------
(* The cache. *)

\* where a load of the entry begins
Begun(k) == [pc |-> IF k = "merged" THEN "base" ELSE "fetch", value |-> NoContent]

\* a reader who finds the entry stale, or finds none, loads it unless it is being loaded
LoadShared(k) ==
  /\ Idle(k) /\ (kept[k].age = Missing \/ kept[k].age >= Fresh[k])
  /\ load' = [load EXCEPT ![k] = Begun(k)]
  /\ UNCHANGED <<kept, inUse, offFor>>

\* upstream answers the client, or the QuranEnc client
Fetched(k) ==
  /\ load[k].pc = "fetch"
  /\ load' = [load EXCEPT ![k] = [pc |-> "write", value |-> [NoContent EXCEPT ![k] = 0]]]
  /\ UNCHANGED <<kept, inUse, offFor>>

\* the merge goes on with what it has been given of the verses, or of the rows
Given(k, c) ==
  IF k = "verses" THEN [pc |-> "active", value |-> c]
  ELSE [pc |-> "write", value |-> [load["merged"].value EXCEPT !.rows = c.rows]]

\* the loader's own read: what is there is taken, and loaded anew when it is stale
ReadInside(k) ==
  /\ Waits(k) /\ kept[k].age # Missing
  /\ load' = [load EXCEPT !["merged"] = Given(k, kept[k].content),
                ![k] = IF Idle(k) /\ kept[k].age >= Fresh[k] THEN Begun(k) ELSE @]
  /\ UNCHANGED <<kept, inUse, offFor>>

\* a load ends with its entry written; who waits for it goes on with its value
WriteEntry(k) ==
  /\ load[k].pc = "write"
  /\ kept' = [kept EXCEPT ![k] = [age |-> 0, content |-> load[k].value]]
  /\ load' = IF Waits(k) THEN [load EXCEPT ![k] = NoLoad, !["merged"] = Given(k, load[k].value)]
             ELSE [load EXCEPT ![k] = NoLoad]
  /\ UNCHANGED <<inUse, offFor>>

\* mutant: a load that fails is left for later readers to share
LoadFailsUncleared(k) ==
  /\ load[k].pc \in {"fetch", "active", "write"}
  /\ load' = [load EXCEPT ![k].pc = "failed"]
  /\ UNCHANGED <<kept, inUse, offFor>>

\* its upstream, the catalog or Redis fails; a merge fails with its verses, and does without rows
LoadFails(k) ==
  /\ load[k].pc \in {"fetch", "active", "write"}
  /\ load' =
       IF ~Waits(k) THEN [load EXCEPT ![k] = NoLoad]
       ELSE [load EXCEPT ![k] = NoLoad,
               !["merged"] = IF k = "verses" THEN NoLoad ELSE Given(k, NoContent)]
  /\ UNCHANGED <<kept, inUse, offFor>>

\* the merge's loader finds its entry missing and loads it, or shares the load under way
LoadInside(k) ==
  /\ Waits(k) /\ kept[k].age = Missing /\ Idle(k)
  /\ load' = [load EXCEPT ![k] = Begun(k)]
  /\ UNCHANGED <<kept, inUse, offFor>>

\* mutant: the edition is merged whether it is active or not
FilterNoEncKeys ==
  /\ load["merged"].pc = "active"
  /\ load' = [load EXCEPT !["merged"].pc = "rows"]
  /\ UNCHANGED <<kept, inUse, offFor>>

\* an edition that is not active is left out
FilterActiveEncKeys ==
  /\ load["merged"].pc = "active"
  /\ load' = [load EXCEPT !["merged"].pc = IF inUse THEN "rows" ELSE "write"]
  /\ UNCHANGED <<kept, inUse, offFor>>

----------------------------------------------------------------------------
(* The catalog, the invalidations and time. *)

\* an administrator's edit drops the cached lists and leaves the verses
SetActive ==
  /\ inUse' = ~inUse
  /\ offFor' = 0
  /\ UNCHANGED <<kept, load>>

\* a sync of the catalog or of the pages drops everything under qf:cache:verses
InvalidateVerses ==
  /\ kept' = [k \in Entry |-> NotKept]
  /\ UNCHANGED <<load, inUse, offFor>>

Tick ==
  /\ \A k \in Entry : Idle(k)
  /\ kept' = [k \in Entry |->
       IF kept[k].age = Missing \/ kept[k].age + 1 >= Retain THEN NotKept
       ELSE [age |-> kept[k].age + 1,
             content |-> [p \in {"verses", "rows"} |-> Older(kept[k].content[p])]]]
  /\ offFor' = IF inUse THEN 0 ELSE Older(offFor)
  /\ UNCHANGED <<load, inUse>>

LoadStep(k) == Fetched(k) \/ WriteEntry(k) \/ LoadFails(k)
MergeStep == (\E k \in Entry : ReadInside(k) \/ LoadInside(k)) \/ FilterActiveEncKeys

ContentNext ==
  \/ \E k \in Entry : LoadShared(k) \/ LoadStep(k)
  \/ MergeStep
  \/ SetActive \/ InvalidateVerses \/ Tick

\* upstream calls have timeouts and bounded retries, and Redis and the database answer
ContentFairness ==
  /\ \A k \in Entry : WF_contentVars(LoadStep(k))
  /\ WF_contentVars(MergeStep)

ContentSpec == ContentInit /\ [][ContentNext]_contentVars /\ ContentFairness

----------------------------------------------------------------------------
(* Properties. *)

\* However the caches feed each other, verses that are answered on their own are younger than the
\* retention and merged ones younger than twice the retention; and an edition that has been off
\* for the retention is in no merge any more, though switching it off leaves the verses cached.
AnswersAgeOut ==
  /\ kept["verses"].content.verses < Retain
  /\ kept["merged"].content.verses < 2 * Retain - 1
  /\ kept["merged"].content.rows < 2 * Retain - 1
  /\ ~inUse /\ offFor >= Retain => kept["merged"].content.rows = Missing

\* The map of loads under way is cleaned up whether a load succeeds or fails: no load, and nobody
\* who shares it, waits for ever.
LoadsEnd == \A k \in Entry : ~Idle(k) ~> Idle(k)
=============================================================================
