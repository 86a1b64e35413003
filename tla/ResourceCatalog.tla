--------------------------- MODULE ResourceCatalog ---------------------------
(***************************************************************************)
(* The catalog of translations, tafsirs and reciters: administrators edit  *)
(* its rows, the sync brings them up to date with Quran.Foundation, and    *)
(* readers get the active ones through a cache that serves a stale list    *)
(* while it loads a new one and shares a load between readers.  Edits and  *)
(* syncs drop the cached lists when they have committed.  Each action is   *)
(* one statement, one transaction or one Redis command.  The clock is left *)
(* out: a list that is cached may be stale to any reader.                  *)
(***************************************************************************)
EXTENDS Integers, FiniteSets

CONSTANTS
  List,      \* the lists that are kept, in the order of Rank
  Resource,  \* external identifiers
  Asked,     \* those of them that readers ask for
  Curated,   \* translations that start active
  Editor,    \* requests of administrators, and syncs, being handled
  NoValue,   \* nothing is cached, or has been read yet
  MaxEdits   \* bound on the edits and syncs

Rank == [translations |-> 1, tafsirs |-> 2, reciters |-> 3, chapterReciters |-> 4]

ASSUME CatalogAssumption ==
  /\ List \subseteq DOMAIN Rank /\ "translations" \in List /\ Resource # {}
  /\ Asked \subseteq List
  /\ Curated \subseteq Resource
  /\ NoValue \notin [active: SUBSET Resource, default: SUBSET Resource]
  /\ MaxEdits \in Nat

VARIABLES
  row,      \* the rows of the catalog
  entry,    \* the cached lists
  flight,   \* the shared load of each list
  editor,   \* where each edit or sync is, and what it has read
  edits,    \* edits and syncs so far
  choice,   \* what an administrator has last said of a row
  missed,   \* lists cached by an overtaken load, or left by a drop that failed
  contended \* a default was set while another was being set

cache == <<entry, flight, missed>>
vars == <<row, cache, editor, edits, choice, contended>>

Key == List \X Resource
Row == [exists: BOOLEAN, active: BOOLEAN, default: BOOLEAN]
NoRow == [exists |-> FALSE, active |-> FALSE, default |-> FALSE]

(* What the public list of the catalog says. *)
Value == [active: SUBSET Resource, default: SUBSET Resource]
Listing(l) ==
  LET listed == {r \in Resource : row[<<l, r>>].exists /\ row[<<l, r>>].active}
  IN [active |-> listed, default |-> {r \in listed : row[<<l, r>>].default}]

Flight == [pc: {"none", "read", "write"}, value: Value \union {NoValue}]
NoFlight == [pc |-> "none", value |-> NoValue]

Choice == {"on", "off", "same"}
Edit == [active: Choice, default: Choice]

EditorPc == {"idle", "clear", "set", "sync", "scan", "delete"}
Slot == [pc: EditorPc, list: List, id: Resource, edit: Edit,
         seen: SUBSET Resource, locked: SUBSET Resource, alone: BOOLEAN,
         todo: SUBSET List, upstream: [List -> SUBSET Resource],
         written: SUBSET List, scanned: SUBSET List]
IdleSlot ==
  [pc |-> "idle", list |-> CHOOSE l \in List : TRUE, id |-> CHOOSE r \in Resource : TRUE,
   edit |-> [active |-> "same", default |-> "same"],
   seen |-> {}, locked |-> {}, alone |-> TRUE,
   todo |-> {}, upstream |-> [l \in List |-> {}], written |-> {}, scanned |-> {}]

\* mutant: whatever is curated is made a default
CreatedDefault(l, r) ==
  [exists |-> TRUE, default |-> r \in Curated,
   active |-> l \in {"reciters", "chapterReciters"} \/ (l = "translations" /\ r \in Curated)]

\* a new row is active when its list, or its place among the curated ones, says so
Created(l, r) ==
  [exists |-> TRUE, default |-> FALSE,
   active |-> l \in {"reciters", "chapterReciters"} \/ (l = "translations" /\ r \in Curated)]

TypeOK ==
  /\ row \in [Key -> Row]
  /\ entry \in [List -> Value \union {NoValue}]
  /\ flight \in [List -> Flight]
  /\ editor \in [Editor -> Slot]
  /\ edits \in 0..MaxEdits
  /\ choice \in [Key -> Choice]
  /\ missed \in [List -> BOOLEAN]
  /\ contended \in BOOLEAN
  /\ \A k \in Key : row[k].default => k[1] = "translations"

\* a database that has never been synchronised, or has been once
Init ==
  /\ row \in {[k \in Key |-> NoRow], [k \in Key |-> Created(k[1], k[2])]}
  /\ entry = [l \in List |-> NoValue]
  /\ flight = [l \in List |-> NoFlight]
  /\ editor = [h \in Editor |-> IdleSlot]
  /\ edits = 0
  /\ choice = [k \in Key |-> "same"]
  /\ missed = [l \in List |-> FALSE]
  /\ contended = FALSE

----------------------------------------------------------------------------
(* Readers and the cache. *)

\* a reader who finds the list missing or stale loads it, unless a load is under way
LoadShared(l) ==
  /\ flight[l].pc = "none"
  /\ flight' = [flight EXCEPT ![l].pc = "read"]
  /\ UNCHANGED <<row, entry, missed, editor, edits, choice, contended>>

ListActive(l) ==
  /\ flight[l].pc = "read"
  /\ flight' = [flight EXCEPT ![l] = [pc |-> "write", value |-> Listing(l)]]
  /\ UNCHANGED <<row, entry, missed, editor, edits, choice, contended>>

\* whatever has happened to the catalog since
WriteEntry(l) ==
  /\ flight[l].pc = "write"
  /\ entry' = [entry EXCEPT ![l] = flight[l].value]
  /\ missed' = [missed EXCEPT ![l] = flight[l].value # Listing(l)]
  /\ flight' = [flight EXCEPT ![l] = NoFlight]
  /\ UNCHANGED <<row, editor, edits, choice, contended>>

LoadFails(l) ==
  /\ flight[l].pc # "none"
  /\ flight' = [flight EXCEPT ![l] = NoFlight]
  /\ UNCHANGED <<row, entry, missed, editor, edits, choice, contended>>

Drop(lists) ==
  /\ entry' = [l \in List |-> IF l \in lists THEN NoValue ELSE entry[l]]
  /\ missed' = [l \in List |-> missed[l] /\ l \notin lists]

\* the retention ends
Evict(l) ==
  /\ entry[l] # NoValue
  /\ Drop({l})
  /\ UNCHANGED <<row, flight, editor, edits, choice, contended>>

----------------------------------------------------------------------------
(* Edits of one row. *)

At(h, pc) == editor[h].pc = pc
Begin(h, slot) ==
  /\ At(h, "idle")
  /\ edits < MaxEdits /\ edits' = edits + 1
  /\ editor' = [editor EXCEPT ![h] = slot]

InDefault(h) == editor[h].pc \in {"clear", "set"}
LockedByOther(h, l, r) ==
  \E other \in Editor \ {h} : At(other, "set") /\ editor[other].list = l /\ r \in editor[other].locked

Chosen(c, now) == IF c = "same" THEN now ELSE c = "on"

\* a row that is switched off is not the default
Applied(rec, e) ==
  [rec EXCEPT !.active = Chosen(e.active, @),
              !.default = e.active # "off" /\ Chosen(e.default, @)]

\* mutant: the lists stay cached
CommittedOnly(h, l, r, e) ==
  /\ editor' = [editor EXCEPT ![h] = IdleSlot]
  /\ choice' = [choice EXCEPT ![<<l, r>>] = IF e.active = "same" THEN @ ELSE e.active]

\* what has been committed is followed by dropping the cached lists
Committed(h, l, r, e) ==
  /\ editor' = [editor EXCEPT ![h] = [IdleSlot EXCEPT !.pc = "scan", !.written = {l}]]
  /\ choice' = [choice EXCEPT ![<<l, r>>] = IF e.active = "same" THEN @ ELSE e.active]

\* one statement, or a transaction of one
UpdateRow(h, l, r, e) ==
  /\ At(h, "idle")
  /\ edits < MaxEdits /\ edits' = edits + 1
  /\ row[<<l, r>>].exists /\ ~LockedByOther(h, l, r)
  /\ row' = [row EXCEPT ![<<l, r>>] = Applied(@, e)]
  /\ Committed(h, l, r, e)
  /\ UNCHANGED <<cache, contended>>

UpdateTranslation(h, r, e) == e.default # "on" /\ UpdateRow(h, "translations", r, e)

\* what concerns activation, of a row that is no default or stops being one
ActiveOnly(active) == [active |-> active, default |-> "same"]

SetTranslationActive(h, r, active) ==
  active # "same" /\ UpdateRow(h, "translations", r, ActiveOnly(active))

\* tafsirs and reciters have no default
UpdateResource(h, l, r, active) == l # "translations" /\ UpdateRow(h, l, r, ActiveOnly(active))

SetResourceActive(h, l, r, active) == active # "same" /\ UpdateResource(h, l, r, active)

\* popularity is left out: the row is written as it was, and the lists are dropped
SetPopular(h, l, r) == l \in {"reciters", "chapterReciters"} /\ UpdateResource(h, l, r, "same")

\* so is the order, which is written in one transaction
Reorder(h, l, ids) ==
  /\ \A r \in ids : row[<<l, r>>].exists /\ ~LockedByOther(h, l, r)
  /\ \E r \in ids : UpdateRow(h, l, r, ActiveOnly("same"))

Defaults == {r \in Resource : row[<<"translations", r>>].default}

(* Setting the default is a transaction of two statements.  The first      *)
(* sees the defaults that were committed when it began, waits for their    *)
(* locks and clears those that are still defaults.                         *)
BeginDefault(h, r, e) ==
  LET slot == [IdleSlot EXCEPT !.pc = "clear", !.list = "translations", !.id = r, !.edit = e,
                               !.seen = Defaults \ {r}, !.alone = \A x \in Editor : ~InDefault(x)]
  IN
  /\ At(h, "idle")
  /\ edits < MaxEdits /\ edits' = edits + 1
  /\ row[<<"translations", r>>].exists
  /\ editor' = [x \in Editor |-> IF x = h THEN slot
                                ELSE IF InDefault(x) THEN [editor[x] EXCEPT !.alone = FALSE]
                                ELSE editor[x]]
  /\ UNCHANGED <<row, cache, choice, contended>>

ClearDefaults(h) ==
  /\ At(h, "clear")
  /\ \A r \in editor[h].seen : ~LockedByOther(h, "translations", r)
  /\ editor' = [editor EXCEPT ![h].pc = "set", ![h].locked = editor[h].seen \intersect Defaults]
  /\ UNCHANGED <<row, cache, edits, choice, contended>>

\* mutant: the other default is not cleared
SetOnly(h) ==
  LET e == editor[h] IN
  /\ At(h, "set")
  /\ ~LockedByOther(h, e.list, e.id)
  /\ row' = [row EXCEPT ![<<e.list, e.id>>] = Applied(@, e.edit)]
  /\ contended' = ~e.alone
  /\ Committed(h, e.list, e.id, e.edit)
  /\ UNCHANGED <<cache, edits>>

SetDefault(h) ==
  LET e == editor[h] IN
  /\ At(h, "set")
  /\ ~LockedByOther(h, e.list, e.id)
  /\ row' = [k \in Key |-> IF k = <<e.list, e.id>> THEN Applied(row[k], e.edit)
                           ELSE IF k[1] = e.list /\ k[2] \in e.locked THEN [row[k] EXCEPT !.default = FALSE]
                           ELSE row[k]]
  /\ contended' = ~e.alone
  /\ Committed(h, e.list, e.id, e.edit)
  /\ UNCHANGED <<cache, edits>>

----------------------------------------------------------------------------
(* The sync: of one catalog, or of all. *)

Scope ==
  {lists \intersect List : lists \in {List, {"translations"}, {"tafsirs"}, {"reciters", "chapterReciters"}}}

\* the lists are fetched first; it is refused when they are all empty
Sync(h, lists, upstream) ==
  /\ \A l \in List \ lists : upstream[l] = {}
  /\ \E l \in lists : upstream[l] # {}
  /\ Begin(h, [IdleSlot EXCEPT !.pc = "sync", !.todo = lists, !.upstream = upstream])
  /\ UNCHANGED <<row, cache, choice, contended>>

First(lists) == CHOOSE l \in lists : \A m \in lists : Rank[l] <= Rank[m]

IsCurated(l, r) == l = "translations" /\ r \in Curated

\* mutant: the update sets what the creation does
SyncedAsCreated(l, r, listed) ==
  IF listed THEN Created(l, r) ELSE [row[<<l, r>>] EXCEPT !.active = FALSE]

\* what is listed is created or kept, curated rows are switched on, and what is not is switched off
Synced(l, r, listed) ==
  IF ~listed THEN [row[<<l, r>>] EXCEPT !.active = FALSE]
  ELSE IF ~row[<<l, r>>].exists THEN Created(l, r)
  ELSE [row[<<l, r>>] EXCEPT !.active = @ \/ IsCurated(l, r)]

SyncList(h) ==
  LET l == First(editor[h].todo)
      listed == editor[h].upstream[l]
      left == editor[h].todo \ {l}
  IN
  /\ At(h, "sync")
  /\ \A r \in Resource : ~LockedByOther(h, l, r)
  /\ row' = [k \in Key |-> IF k[1] = l THEN Synced(l, k[2], k[2] \in listed) ELSE row[k]]
  /\ choice' = [k \in Key |-> IF k[1] = l /\ k[2] \notin listed THEN "same" ELSE choice[k]]
  /\ editor' = [editor EXCEPT ![h].todo = left, ![h].upstream[l] = {}, ![h].written = @ \union {l},
                              ![h].pc = IF left = {} THEN "scan" ELSE "sync"]
  /\ UNCHANGED <<cache, edits, contended>>

----------------------------------------------------------------------------
(* Dropping the cached lists: their keys are scanned for, then deleted. *)

ScanKeys(h) ==
  /\ At(h, "scan")
  /\ editor' = [editor EXCEPT ![h].pc = "delete", ![h].scanned = {l \in List : entry[l] # NoValue}]
  /\ UNCHANGED <<row, cache, edits, choice, contended>>

DeleteKeys(h) ==
  /\ At(h, "delete")
  /\ Drop(editor[h].scanned)
  /\ editor' = [editor EXCEPT ![h] = IdleSlot]
  /\ UNCHANGED <<row, flight, edits, choice, contended>>

\* a statement or a command fails, or the process that edits dies
EditorFails(h) ==
  /\ ~At(h, "idle")
  /\ editor' = [editor EXCEPT ![h] = IdleSlot]
  /\ missed' = [l \in List |->
                  missed[l] \/ (l \in editor[h].written /\ entry[l] \notin {NoValue, Listing(l)})]
  /\ UNCHANGED <<row, entry, flight, edits, choice, contended>>

----------------------------------------------------------------------------
LoadStep == \E l \in Asked : LoadShared(l) \/ ListActive(l) \/ WriteEntry(l) \/ LoadFails(l) \/ Evict(l)

EditStep(h) ==
  \/ \E r \in Resource, e \in Edit : UpdateTranslation(h, r, e)
  \/ \E r \in Resource, active \in Choice : SetTranslationActive(h, r, active)
  \/ \E l \in List, r \in Resource, active \in Choice :
       UpdateResource(h, l, r, active) \/ SetResourceActive(h, l, r, active)
  \/ \E l \in List, r \in Resource : SetPopular(h, l, r)
  \/ \E l \in List, ids \in SUBSET Resource : Reorder(h, l, ids)
  \/ \E r \in Resource, e \in Edit : e.default = "on" /\ BeginDefault(h, r, e)
  \/ ClearDefaults(h) \/ SetDefault(h)

SyncStep(h) ==
  \/ \E lists \in Scope, upstream \in [List -> SUBSET Resource] :
       Sync(h, lists, upstream)
  \/ SyncList(h)

DropStep(h) == ScanKeys(h) \/ DeleteKeys(h)

Next ==
  \/ LoadStep
  \/ \E h \in Editor : EditStep(h) \/ SyncStep(h) \/ DropStep(h) \/ EditorFails(h)

Spec == Init /\ [][Next]_vars

----------------------------------------------------------------------------
(* A cached list is what the catalog says, unless an edit or a sync of it  *)
(* has committed and has yet to drop it, or has failed to, or the load was *)
(* overtaken: it had read the list before the edit and wrote it after.     *)
ListsCatchUp ==
  \A l \in List :
    entry[l] \notin {NoValue, Listing(l)}
      => missed[l] \/ \E h \in Editor : l \in editor[h].written

(* There is one default translation at most, unless two were being set at  *)
(* the same time: the second did not see the first.                        *)
OneDefault == contended \/ Cardinality(Defaults) <= 1

(* What an administrator has switched on or off stays so through syncs     *)
(* that still list it, except that a curated translation may come back on. *)
ChoicesStand ==
  \A l \in List, r \in Resource :
    /\ choice[<<l, r>>] = "on" => row[<<l, r>>].active
    /\ choice[<<l, r>>] = "off" => ~row[<<l, r>>].active \/ IsCurated(l, r)

(* "admin toggles are preserved on update": no exception.                  *)
TogglesPreserved ==
  \A k \in Key : choice[k] # "same" => row[k].active = (choice[k] = "on")
============================================================================
