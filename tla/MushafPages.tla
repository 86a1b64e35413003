----------------------------- MODULE MushafPages -----------------------------
(***************************************************************************)
(* The pages of the printed Qur'ans.  A command crawls an edition from     *)
(* Quran.Foundation page by page, or clones the pages of an edition with   *)
(* the same layout, and writes each row, and its cached details, before it *)
(* knows the next; what the whole must be is checked afterwards.  Readers  *)
(* get pages, pages with their verses, and the list of pages through the   *)
(* cache.  Each action is one upstream call, statement or Redis command.   *)
(* What the command caches has no freshness of its own: it is served until *)
(* its TTL ends, while what a reader's load cached is served stale and     *)
(* loaded anew.  Rows are only ever made for the pages of the loop, and a  *)
(* loop that is through has seen them all, so deactivateMissing finds      *)
(* nothing to do; a row is its verses.                                     *)
(***************************************************************************)
EXTENDS Integers, Sequences, FiniteSets

CONSTANTS
  Mushaf,     \* editions
  OwnLayout,  \* those of them whose pages break elsewhere: mushafNeedsOwnLayoutSync
  PageCount,  \* MADANI_MUSHAF_PAGE_COUNT
  Verse,      \* all verses: MADANI_MUSHAF_VERSE_COUNT is their number
  Layout,     \* what upstream may answer: the verses of each page
  Watched,    \* the entries readers ask for: <<kind, mushaf, page>>
  Runner,     \* commands being run
  MaxRuns,    \* bound on the commands
  MaxChanges  \* bound on the changes upstream

Page == 1..PageCount

ASSUME PagesAssumption ==
  /\ Mushaf # {} /\ OwnLayout \subseteq Mushaf
  /\ PageCount \in Nat \ {0}
  /\ IsFiniteSet(Verse)
  /\ Layout # {} /\ Layout \subseteq [Page -> Seq(Verse)]
  /\ Watched \subseteq ({"page", "verses"} \X Mushaf \X Page) \union ({"list"} \X Mushaf \X {0})
  /\ MaxRuns \in Nat /\ MaxChanges \in Nat

VARIABLES
  upstream,  \* the layout Quran.Foundation serves
  changes,   \* how often it has changed
  pageRow,   \* the rows: no verses when there is none
  whole,     \* editions whose last command was through, with nothing else on them meanwhile
  job,       \* the commands
  runs,      \* commands so far
  cached,    \* the cache
  loading,   \* the shared loads of the cache
  overtaken  \* entries written by a load that the rows have overtaken

pagesVars == <<upstream, changes, pageRow, whole, job, runs, cached, loading, overtaken>>

NoVerses == <<>>
VersesOf(s) == {s[i] : i \in 1..Len(s)}
PageRows == [Page -> {l[p] : l \in Layout, p \in Page} \union {NoVerses}]

NoEntry == [kind |-> "none", value |-> NoVerses]
NotLoading == [pc |-> "none", value |-> NoVerses]

JobPc == {"idle", "source", "fetch", "upsert", "cache", "check", "list", "scan", "delete"}
IdleJob == [pc |-> "idle", mushaf |-> CHOOSE m \in Mushaf : TRUE, clone |-> FALSE,
            page |-> 1, payload |-> [p \in Page |-> NoVerses], seen |-> {},
            alone |-> TRUE, found |-> {}]

PagesTypeOK ==
  /\ upstream \in Layout /\ changes \in 0..MaxChanges
  /\ pageRow \in [Mushaf -> PageRows]
  /\ whole \in [Mushaf -> BOOLEAN]
  /\ \A j \in Runner :
       /\ job[j].pc \in JobPc /\ job[j].mushaf \in Mushaf /\ job[j].page \in Page
       /\ job[j].payload \in PageRows
       /\ job[j].seen \subseteq Verse /\ job[j].found \subseteq Watched
  /\ runs \in 0..MaxRuns
  /\ overtaken \subseteq Watched
  /\ \A k \in Watched : cached[k].kind \in {"none", "raw", "envelope"}
  /\ \A k \in Watched : loading[k].pc \in {"none", "read", "write"}

PagesInit ==
  /\ upstream \in Layout /\ changes = 0
  /\ pageRow = [m \in Mushaf |-> [p \in Page |-> NoVerses]]
  /\ whole = [m \in Mushaf |-> FALSE]
  /\ job = [j \in Runner |-> IdleJob] /\ runs = 0
  /\ cached = [k \in Watched |-> NoEntry]
  /\ loading = [k \in Watched |-> NotLoading]
  /\ overtaken = {}

----------------------------------------------------------------------------
(* The command. *)

On(m) == {j \in Runner : job[j].pc # "idle" /\ job[j].mushaf = m}

\* a command on an edition leaves it whole only when no other works on it meanwhile
BeginCommand(j, m, isClone) ==
  /\ job[j].pc = "idle" /\ runs < MaxRuns
  /\ runs' = runs + 1
  /\ job' = [i \in Runner |->
       CASE i = j -> [IdleJob EXCEPT !.pc = IF isClone THEN "source" ELSE "fetch",
                        !.mushaf = m, !.clone = isClone, !.alone = On(m) = {}]
         [] i # j /\ i \in On(m) -> [job[i] EXCEPT !.alone = FALSE]
         [] OTHER -> job[i]]
  /\ UNCHANGED <<upstream, changes, pageRow, whole, cached, loading, overtaken>>

SyncMadaniPages(j) == \E m \in Mushaf : BeginCommand(j, m, FALSE)
CloneMadaniPagesFrom(j) == \E m \in Mushaf \ OwnLayout : BeginCommand(j, m, TRUE)

\* the pages of the source are read at once; a clone is as whole as they are
ReadSource(j) ==
  /\ job[j].pc = "source"
  /\ \E s \in Mushaf \ {job[j].mushaf} :
       IF \A p \in Page : pageRow[s][p] # NoVerses
       THEN job' = [job EXCEPT ![j].pc = "upsert", ![j].payload = pageRow[s],
                      ![j].alone = @ /\ whole[s] /\ On(s) = {}]
       ELSE job' = [job EXCEPT ![j] = IdleJob]
  /\ UNCHANGED <<upstream, changes, pageRow, whole, runs, cached, loading, overtaken>>

\* mutant: a verse that is seen a second time is let through
FetchAllVersesUnchecked(j) ==
  LET verses == upstream[job[j].page] IN
  /\ job[j].pc = "fetch"
  /\ job' = IF verses = NoVerses THEN [job EXCEPT ![j] = IdleJob]
            ELSE [job EXCEPT ![j].pc = "upsert", ![j].payload[job[j].page] = verses,
                             ![j].seen = @ \union VersesOf(verses)]
  /\ UNCHANGED <<upstream, changes, pageRow, whole, runs, cached, loading, overtaken>>

\* the verses of a page: there must be some, and none that an earlier page had
FetchAllVersesForPage(j) ==
  LET verses == upstream[job[j].page] IN
  /\ job[j].pc = "fetch"
  /\ job' = IF \/ verses = NoVerses
               \/ VersesOf(verses) \intersect job[j].seen # {}
               \/ Cardinality(VersesOf(verses)) < Len(verses)
            THEN [job EXCEPT ![j] = IdleJob]
            ELSE [job EXCEPT ![j].pc = "upsert", ![j].payload[job[j].page] = verses,
                             ![j].seen = @ \union VersesOf(verses)]
  /\ UNCHANGED <<upstream, changes, pageRow, whole, runs, cached, loading, overtaken>>

UpsertPage(j) ==
  LET m == job[j].mushaf  p == job[j].page IN
  /\ job[j].pc = "upsert"
  /\ pageRow' = [pageRow EXCEPT ![m][p] = job[j].payload[p]]
  /\ whole' = [whole EXCEPT ![m] = FALSE]
  /\ job' = [job EXCEPT ![j].pc = "cache"]
  /\ UNCHANGED <<upstream, changes, runs, cached, loading, overtaken>>

\* what is in the cache of key k from now on, written by the command
CachedRaw(k, v) == IF k \in Watched THEN [cached EXCEPT ![k] = [kind |-> "raw", value |-> v]]
                   ELSE cached

CachePageDetail(j) ==
  LET m == job[j].mushaf  p == job[j].page IN
  /\ job[j].pc = "cache"
  /\ cached' = CachedRaw(<<"page", m, p>>, job[j].payload[p])
  /\ overtaken' = overtaken \ {<<"page", m, p>>}
  /\ job' = IF p < PageCount
            THEN [job EXCEPT ![j].page = p + 1,
                             ![j].pc = IF job[j].clone THEN "upsert" ELSE "fetch"]
            ELSE [job EXCEPT ![j].pc = "check"]
  /\ UNCHANGED <<upstream, changes, pageRow, whole, runs, loading>>

\* every page has a row, and a crawl has seen every verse; a clone counts its pages only
CheckIntegrity(j) ==
  LET m == job[j].mushaf
      passed == /\ \A p \in Page : pageRow[m][p] # NoVerses
                /\ job[j].clone \/ Cardinality(job[j].seen) = Cardinality(Verse)
  IN /\ job[j].pc = "check"
     /\ job' = IF ~passed THEN [job EXCEPT ![j] = IdleJob]
               ELSE [job EXCEPT ![j].pc = "list", ![j].payload = pageRow[m]]
     /\ whole' = [whole EXCEPT ![m] = passed /\ job[j].alone]
     /\ UNCHANGED <<upstream, changes, pageRow, runs, cached, loading, overtaken>>

CachePagesList(j) ==
  LET k == <<"list", job[j].mushaf, 0>> IN
  /\ job[j].pc = "list"
  /\ cached' = CachedRaw(k, job[j].payload)
  /\ overtaken' = overtaken \ {k}
  /\ job' = [job EXCEPT ![j].pc = "scan"]
  /\ UNCHANGED <<upstream, changes, pageRow, whole, runs, loading>>

\* the pattern of the first edition matches the bundles of all
ScanBundles(j) ==
  /\ job[j].pc = "scan"
  /\ job' = [job EXCEPT ![j].pc = "delete",
       ![j].found = {k \in Watched : /\ k[1] = "verses" /\ cached[k].kind # "none"
                                     /\ job[j].mushaf \in {1, k[2]}}]
  /\ UNCHANGED <<upstream, changes, pageRow, whole, runs, cached, loading, overtaken>>

\* mutant: bundles found are left
DeleteNoBundles(j) ==
  /\ job[j].pc = "delete"
  /\ job' = [job EXCEPT ![j] = IdleJob]
  /\ UNCHANGED <<upstream, changes, pageRow, whole, runs, cached, loading, overtaken>>

DeleteBundles(j) ==
  /\ job[j].pc = "delete"
  /\ cached' = [k \in Watched |-> IF k \in job[j].found THEN NoEntry ELSE cached[k]]
  /\ overtaken' = overtaken \ job[j].found
  /\ job' = [job EXCEPT ![j] = IdleJob]
  /\ UNCHANGED <<upstream, changes, pageRow, whole, runs, loading>>

\* the command is killed, or a call, a statement or Redis fails; nothing is taken back
CommandEnds(j) ==
  LET m == job[j].mushaf IN
  /\ job[j].pc # "idle"
  /\ job' = [job EXCEPT ![j] = IdleJob]
  /\ whole' = [whole EXCEPT ![m] = @ /\ job[j].pc \in {"source", "fetch"} /\ job[j].page = 1]
  /\ UNCHANGED <<upstream, changes, pageRow, runs, cached, loading, overtaken>>

----------------------------------------------------------------------------
(* Readers. *)

RowOf(k) == IF k[1] = "list" THEN pageRow[k[2]] ELSE pageRow[k[2]][k[3]]
NotFound(k) ==
  \A p \in Page : (k[1] = "list" \/ k[3] = p) => pageRow[k[2]][p] = NoVerses

\* a reader finds nothing, or an entry of a reader that is stale, and no load under way
LoadPage(k) ==
  /\ loading[k].pc = "none" /\ cached[k].kind # "raw"
  /\ loading' = [loading EXCEPT ![k].pc = "read"]
  /\ UNCHANGED <<upstream, changes, pageRow, whole, job, runs, cached, overtaken>>

\* 404 when there is no row: nothing is cached
FindActivePages(k) ==
  /\ loading[k].pc = "read"
  /\ loading' = [loading EXCEPT ![k] = IF NotFound(k) THEN NotLoading
                                       ELSE [pc |-> "write", value |-> RowOf(k)]]
  /\ UNCHANGED <<upstream, changes, pageRow, whole, job, runs, cached, overtaken>>

WritePage(k) ==
  /\ loading[k].pc = "write"
  /\ cached' = [cached EXCEPT ![k] = [kind |-> "envelope", value |-> loading[k].value]]
  /\ overtaken' = IF loading[k].value = RowOf(k) THEN overtaken \ {k} ELSE overtaken \union {k}
  /\ loading' = [loading EXCEPT ![k] = NotLoading]
  /\ UNCHANGED <<upstream, changes, pageRow, whole, job, runs>>

\* upstream fails under the verses of a bundle, or Redis under the write
LoadPageFails(k) ==
  /\ loading[k].pc # "none"
  /\ loading' = [loading EXCEPT ![k] = NotLoading]
  /\ UNCHANGED <<upstream, changes, pageRow, whole, job, runs, cached, overtaken>>

EntryExpires(k) ==
  /\ cached[k].kind # "none"
  /\ cached' = [cached EXCEPT ![k] = NoEntry]
  /\ overtaken' = overtaken \ {k}
  /\ UNCHANGED <<upstream, changes, pageRow, whole, job, runs, loading>>

UpstreamChanges ==
  /\ changes < MaxChanges
  /\ changes' = changes + 1
  /\ upstream' \in Layout \ {upstream}
  /\ UNCHANGED <<pageRow, whole, job, runs, cached, loading, overtaken>>

CommandStep(j) ==
  \/ SyncMadaniPages(j) \/ CloneMadaniPagesFrom(j) \/ ReadSource(j) \/ FetchAllVersesForPage(j)
  \/ UpsertPage(j) \/ CachePageDetail(j) \/ CheckIntegrity(j) \/ CachePagesList(j)
  \/ ScanBundles(j) \/ DeleteBundles(j) \/ CommandEnds(j)
ReaderStep(k) ==
  LoadPage(k) \/ FindActivePages(k) \/ WritePage(k) \/ LoadPageFails(k) \/ EntryExpires(k)

PagesNext ==
  \/ \E j \in Runner : CommandStep(j)
  \/ \E k \in Watched : ReaderStep(k)
  \/ UpstreamChanges

PagesSpec == PagesInit /\ [][PagesNext]_pagesVars

----------------------------------------------------------------------------
(* Properties. *)

\* An edition that a command has got through, alone on it, has every verse on exactly one of its
\* pages, however upstream changed under the crawl ("every verse must belong to exactly one
\* page"); so has a clone of such an edition.
WholeEditions ==
  \A m \in Mushaf : whole[m] =>
    \A v \in Verse : \E p \in Page :
      /\ v \in VersesOf(pageRow[m][p])
      /\ \A q \in Page \ {p} : v \notin VersesOf(pageRow[m][q])

\* When an edition is whole and no command is on it, what is cached of it, its pages, its bundles
\* and its list, is what its rows say, but for what a load put there that the rows had overtaken.
PagesServedAreCurrent ==
  \A k \in Watched \ overtaken :
    whole[k[2]] /\ On(k[2]) = {} /\ cached[k].kind # "none" => cached[k].value = RowOf(k)
=============================================================================
