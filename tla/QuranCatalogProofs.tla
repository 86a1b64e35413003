-------------------------- MODULE QuranCatalogProofs --------------------------
(***************************************************************************)
(* Proofs about what the Quran module stores and serves from stores:       *)
(* ResourceCatalog, MushafPages, LocalExport and QuranRoutes, for any      *)
(* handlers, jobs, readers, lanes and bounds.  A cached list is what the   *)
(* catalog says but for the exceptions that ListsCatchUp names, what       *)
(* administrators chose stands, a reader gets pages of one whole edition,  *)
(* an export that says it is complete is; and for any parameters, a        *)
(* request is answered with what its own upstream calls and rows hold,     *)
(* whatever was cached before.                                             *)
(***************************************************************************)
EXTENDS MCQuranCatalog, FiniteSetTheorems, WellFoundedInduction, TLAPS

(* What a handler's place says of what it has written and has yet to do.   *)
SlotsSound ==
  \A h \in Editor :
    /\ editor[h].pc \in {"idle", "clear", "set"} => editor[h].written = {}
    /\ InDefault(h) => editor[h].list = "translations"
    /\ At(h, "sync") => editor[h].todo # {}

(* The handler is going to drop the cached list: a scan that has come      *)
(* before the list was cached will not.                                    *)
Pending(h, l) ==
  /\ l \in editor[h].written
  /\ At(h, "delete") => l \in editor[h].scanned

Stale(l) == entry[l] \notin {NoValue, Listing(l)}

Promised ==
  \A l \in List : Stale(l) => missed[l] \/ \E h \in Editor : Pending(h, l)

(* The inductive invariant. *)
CatalogInv == TypeOK /\ SlotsSound /\ Promised

----------------------------------------------------------------------------
(* Helpers. *)

(* The catalogs are synchronised in an order that has a first.             *)
LEMMA FirstIsOne ==
  ASSUME NEW lists \in SUBSET List, lists # {}
  PROVE  First(lists) \in lists
<1>1. lists \subseteq {"translations", "tafsirs", "reciters", "chapterReciters"}
  BY CatalogAssumption DEF Rank
<1>2. \E l \in lists : \A m \in lists : Rank[l] <= Rank[m]
  <2>1. CASE "translations" \in lists
    BY <1>1, <2>1 DEF Rank
  <2>2. CASE "translations" \notin lists /\ "tafsirs" \in lists
    BY <1>1, <2>2 DEF Rank
  <2>3. CASE "translations" \notin lists /\ "tafsirs" \notin lists /\ "reciters" \in lists
    BY <1>1, <2>3 DEF Rank
  <2>4. CASE lists = {"chapterReciters"}
    BY <2>4 DEF Rank
  <2> QED BY <1>1, <2>1, <2>2, <2>3, <2>4
<1> QED BY <1>2 DEF First

(* A handler that is idle has a slot of its type.                          *)
LEMMA IdleSlotType == IdleSlot \in Slot
<1>1. (CHOOSE l \in List : TRUE) \in List /\ (CHOOSE r \in Resource : TRUE) \in Resource
  BY CatalogAssumption
<1> QED BY <1>1 DEF IdleSlot, Slot, EditorPc, Edit, Choice

(* Locking the defaults keeps the type of the slot.                        *)
LEMMA LockedSlotType ==
  ASSUME NEW slot \in Slot, NEW locked \in SUBSET Resource
  PROVE  [slot EXCEPT !.pc = "set", !.locked = locked] \in Slot
BY DEF Slot, EditorPc

(* A scan for keys keeps the type of the slot.                             *)
LEMMA ScannedSlotType ==
  ASSUME NEW slot \in Slot, NEW scanned \in SUBSET List
  PROVE  [slot EXCEPT !.pc = "delete", !.scanned = scanned] \in Slot
BY DEF Slot, EditorPc

(* So does the synchronisation of one list.                                *)
LEMMA SyncedSlotType ==
  ASSUME NEW slot \in Slot, NEW todo \in SUBSET List, NEW written \in SUBSET List,
         NEW given \in [List -> SUBSET Resource], NEW pc \in {"scan", "sync"}
  PROVE  [slot EXCEPT !.todo = todo, !.upstream = given, !.written = written, !.pc = pc] \in Slot
BY DEF Slot, EditorPc

(* What the catalog lists is a value that can be cached.                   *)
LEMMA ListingType ==
  ASSUME NEW l \in List
  PROVE  Listing(l) \in Value
BY DEF Listing, Value

(* An edited row is a row, and only an edit of the default makes it one.   *)
LEMMA AppliedType ==
  ASSUME NEW rec \in Row, NEW e \in Edit
  PROVE  /\ Applied(rec, e) \in Row
         /\ e.default = "same" /\ ~rec.default => ~Applied(rec, e).default
BY DEF Applied, Chosen, Row, Edit, Choice

(* A created row is a row, and not a default.                              *)
LEMMA CreatedType ==
  ASSUME NEW l \in List, NEW r \in Resource
  PROVE  Created(l, r) \in Row /\ ~Created(l, r).default
<1> DEFINE active == l \in {"reciters", "chapterReciters"} \/ (l = "translations" /\ r \in Curated)
<1>1. active \in BOOLEAN
  OBVIOUS
<1> HIDE DEF active
<1>2. Created(l, r) = [exists |-> TRUE, default |-> FALSE, active |-> active]
  BY DEF Created, active
<1> QED BY <1>1, <1>2 DEF Row

(* A synchronised row is a row, and the sync makes no default.             *)
LEMMA SyncedType ==
  ASSUME TypeOK, NEW l \in List, NEW r \in Resource, NEW listed \in BOOLEAN
  PROVE  /\ Synced(l, r, listed) \in Row
         /\ Synced(l, r, listed).default => row[<<l, r>>].default
<1>1. row[<<l, r>>] \in Row
  BY DEF TypeOK, Key
<1>2. CASE ~listed
  BY <1>1, <1>2 DEF Synced, Row
<1>3. CASE listed /\ ~row[<<l, r>>].exists
  BY <1>3, CreatedType DEF Synced
<1>4. CASE listed /\ row[<<l, r>>].exists
  <2> DEFINE active == row[<<l, r>>].active \/ IsCurated(l, r)
  <2>1. active \in BOOLEAN
    OBVIOUS
  <2> HIDE DEF active
  <2>2. Synced(l, r, listed) = [row[<<l, r>>] EXCEPT !.active = active]
    BY <1>4 DEF Synced, active
  <2> QED BY <1>1, <2>1, <2>2 DEF Row
<1> QED BY <1>1, <1>2, <1>3, <1>4

(* The list that the catalog gives depends on its own rows only.           *)
LEMMA ListingOfOthers ==
  ASSUME NEW l \in List, \A r \in Resource : row'[<<l, r>>] = row[<<l, r>>]
  PROVE  Listing(l)' = Listing(l)
BY DEF Listing

----------------------------------------------------------------------------
(* Types. *)

(* Every variable of the catalog starts with its type.                     *)
LEMMA InitType == Init => TypeOK
<1> SUFFICES ASSUME Init PROVE TypeOK
  OBVIOUS
<1>1. row \in [Key -> Row] /\ \A k \in Key : ~row[k].default
  <2>1. CASE row = [k \in Key |-> NoRow]
    BY <2>1 DEF NoRow, Row
  <2>2. CASE row = [k \in Key |-> Created(k[1], k[2])]
    <3>1. \A k \in Key : k[1] \in List /\ k[2] \in Resource
      BY DEF Key
    <3> QED BY <2>2, <3>1, CreatedType
  <2> QED BY <2>1, <2>2 DEF Init
<1>2. flight \in [List -> Flight]
  BY DEF Init, NoFlight, Flight
<1>3. editor \in [Editor -> Slot]
  BY IdleSlotType DEF Init
<1>4. edits \in 0..MaxEdits
  BY CatalogAssumption DEF Init
<1>5. entry \in [List -> Value \union {NoValue}] /\ choice \in [Key -> Choice]
  BY DEF Init, Choice
<1>6. missed \in [List -> BOOLEAN] /\ contended \in BOOLEAN
  BY DEF Init
<1> QED BY <1>1, <1>2, <1>3, <1>4, <1>5, <1>6 DEF TypeOK

(* A step of an edit that commits writes rows and a slot of their types.   *)
LEMMA CommittedType ==
  ASSUME TypeOK, NEW h \in Editor, NEW l \in List, NEW r \in Resource, NEW e \in Edit,
         Committed(h, l, r, e)
  PROVE  editor' \in [Editor -> Slot] /\ choice' \in [Key -> Choice]
<1>1. [IdleSlot EXCEPT !.pc = "scan", !.written = {l}] \in Slot
  BY IdleSlotType DEF Slot, EditorPc
<1>2. editor' \in [Editor -> Slot]
  BY <1>1 DEF Committed, TypeOK
<1>3. e.active \in Choice
  BY DEF Edit
<1> QED BY <1>2, <1>3 DEF Committed, TypeOK, Key

(* The count of edits stays within its bound.                              *)
LEMMA CountType ==
  ASSUME edits \in 0..MaxEdits, edits < MaxEdits, edits' = edits + 1
  PROVE  edits' \in 0..MaxEdits
BY CatalogAssumption

(***************************************************************************)
(* Whatever an administrator asks for is an edit of one row, as far as the *)
(* model goes, or sets the default.                                        *)
(***************************************************************************)
LEMMA EditsAreOfRows ==
  ASSUME NEW h \in Editor, EditStep(h)
  PROVE  \/ \E l \in List, r \in Resource, e \in Edit :
              (l = "translations" \/ e.default = "same") /\ e.default # "on" /\ UpdateRow(h, l, r, e)
         \/ \E r \in Resource, e \in Edit : BeginDefault(h, r, e)
         \/ ClearDefaults(h) \/ SetDefault(h)
<1>1. \A active \in Choice : ActiveOnly(active) \in Edit /\ ActiveOnly(active).default = "same"
  BY DEF ActiveOnly, Choice, Edit
<1>2. "same" \in Choice
  BY DEF Choice
<1>3. ASSUME NEW l \in List, NEW ids \in SUBSET Resource, Reorder(h, l, ids)
      PROVE  \E r \in Resource : UpdateRow(h, l, r, ActiveOnly("same"))
  BY <1>3 DEF Reorder
<1> QED
  BY <1>1, <1>2, <1>3, CatalogAssumption
     DEF EditStep, UpdateTranslation, SetTranslationActive, UpdateResource, SetResourceActive, SetPopular

(* Every step keeps the types.                                             *)
LEMMA NextType ==
  ASSUME TypeOK, SlotsSound, [Next]_vars
  PROVE  TypeOK'
<1> USE DEF TypeOK
<1>1. CASE UNCHANGED vars
  BY <1>1 DEF vars, cache
<1>2. ASSUME NEW l \in Asked, LoadShared(l) \/ ListActive(l) \/ LoadFails(l)
      PROVE  TypeOK'
  <2>1. l \in List
    BY CatalogAssumption
  <2>2. flight' \in [List -> Flight]
    BY <1>2, <2>1, ListingType DEF LoadShared, ListActive, LoadFails, NoFlight, Flight
  <2> QED BY <1>2, <2>2 DEF LoadShared, ListActive, LoadFails
<1>3. ASSUME NEW l \in Asked, WriteEntry(l)
      PROVE  TypeOK'
  <2>1. l \in List /\ flight[l] \in Flight
    BY CatalogAssumption
  <2>2. flight' \in [List -> Flight] /\ entry' \in [List -> Value \union {NoValue}]
    BY <1>3, <2>1 DEF WriteEntry, NoFlight, Flight
  <2>3. missed' \in [List -> BOOLEAN]
    BY <1>3, <2>1 DEF WriteEntry
  <2> QED BY <1>3, <2>2, <2>3 DEF WriteEntry
<1>4. ASSUME NEW l \in Asked, Evict(l)
      PROVE  TypeOK'
  <2>1. entry' \in [List -> Value \union {NoValue}]
    BY <1>4 DEF Evict, Drop
  <2>2. missed' \in [List -> BOOLEAN]
    BY <1>4 DEF Evict, Drop
  <2> QED BY <1>4, <2>1, <2>2 DEF Evict
<1>5. ASSUME NEW h \in Editor, NEW l \in List, NEW r \in Resource, NEW e \in Edit,
             l = "translations" \/ e.default = "same", UpdateRow(h, l, r, e)
      PROVE  TypeOK'
  <2>1. row[<<l, r>>] \in Row
    BY DEF Key
  <2>2. row' \in [Key -> Row]
    BY <1>5, <2>1, AppliedType DEF UpdateRow, Key
  <2>3. \A k \in Key : row'[k].default => k[1] = "translations"
    BY <1>5, <2>1, AppliedType DEF UpdateRow, Key
  <2>4. editor' \in [Editor -> Slot] /\ choice' \in [Key -> Choice]
    BY <1>5, CommittedType DEF UpdateRow
  <2>5. edits' \in 0..MaxEdits
    BY <1>5, CountType DEF UpdateRow
  <2> QED BY <1>5, <2>2, <2>3, <2>4, <2>5 DEF UpdateRow, cache
<1>6. ASSUME NEW h \in Editor, NEW r \in Resource, NEW e \in Edit, BeginDefault(h, r, e)
      PROVE  TypeOK'
  <2> DEFINE slot == [IdleSlot EXCEPT !.pc = "clear", !.list = "translations", !.id = r, !.edit = e,
                        !.seen = Defaults \ {r}, !.alone = \A x \in Editor : ~InDefault(x)]
  <2>1. slot \in Slot
    <3> DEFINE alone == \A x \in Editor : ~InDefault(x)
    <3>1. alone \in BOOLEAN
      OBVIOUS
    <3> HIDE DEF alone
    <3>2. [IdleSlot EXCEPT !.pc = "clear", !.list = "translations", !.id = r, !.edit = e,
             !.seen = Defaults \ {r}, !.alone = alone] \in Slot
      BY <1>6, <3>1, IdleSlotType, CatalogAssumption DEF Slot, EditorPc, Defaults
    <3> QED BY <3>2 DEF alone
  <2> HIDE DEF slot
  <2>2. \A x \in Editor : [editor[x] EXCEPT !.alone = FALSE] \in Slot
    BY DEF Slot
  <2>3. editor' = [x \in Editor |-> IF x = h THEN slot
                                    ELSE IF InDefault(x) THEN [editor[x] EXCEPT !.alone = FALSE]
                                    ELSE editor[x]]
    BY <1>6 DEF BeginDefault, slot
  <2>4. editor' \in [Editor -> Slot]
    BY <2>1, <2>2, <2>3
  <2>5. edits' \in 0..MaxEdits
    BY <1>6, CountType DEF BeginDefault
  <2> QED BY <1>6, <2>4, <2>5 DEF BeginDefault, cache
<1>7. ASSUME NEW h \in Editor, ClearDefaults(h)
      PROVE  TypeOK'
  <2> DEFINE slot == [editor[h] EXCEPT !.pc = "set", !.locked = editor[h].seen \intersect Defaults]
  <2>1. slot \in Slot
    <3>1. editor[h] \in Slot /\ editor[h].seen \intersect Defaults \in SUBSET Resource
      BY DEF Defaults
    <3> QED BY <3>1, LockedSlotType
  <2> HIDE DEF slot
  <2>2. editor' = [editor EXCEPT ![h] = slot]
    BY <1>7 DEF ClearDefaults, slot
  <2>3. editor' \in [Editor -> Slot]
    BY <2>1, <2>2
  <2> QED BY <1>7, <2>3 DEF ClearDefaults, cache
<1>8. ASSUME NEW h \in Editor, SetDefault(h)
      PROVE  TypeOK'
  <2> DEFINE e == editor[h]
  <2>1. e.list \in List /\ e.id \in Resource /\ e.edit \in Edit
    BY DEF Slot
  <2>2. e.list = "translations"
    BY <1>8 DEF SetDefault, SlotsSound, InDefault, At
  <2>3. \A k \in Key : Applied(row[k], e.edit) \in Row
    BY <2>1, AppliedType
  <2>3a. \A k \in Key : [row[k] EXCEPT !.default = FALSE] \in Row
    BY DEF Row
  <2>4. row' \in [Key -> Row]
    BY <1>8, <2>3, <2>3a DEF SetDefault
  <2>5. \A k \in Key : row'[k].default => k[1] = "translations"
    <3> SUFFICES ASSUME NEW k \in Key, row'[k].default PROVE k[1] = "translations"
      OBVIOUS
    <3>1. CASE k = <<e.list, e.id>>
      BY <2>2, <3>1
    <3>2. CASE k # <<e.list, e.id>>
      BY <1>8, <3>2 DEF SetDefault, Row
    <3> QED BY <3>1, <3>2
  <2>6. Committed(h, e.list, e.id, e.edit)
    BY <1>8 DEF SetDefault
  <2>7. editor' \in [Editor -> Slot] /\ choice' \in [Key -> Choice]
    BY <2>1, <2>6, CommittedType
  <2>8. contended' \in BOOLEAN
    BY <1>8 DEF SetDefault, Slot
  <2> QED BY <1>8, <2>4, <2>5, <2>7, <2>8 DEF SetDefault, cache
<1>9. ASSUME NEW h \in Editor, NEW lists \in Scope, NEW given \in [List -> SUBSET Resource],
             Sync(h, lists, given)
      PROVE  TypeOK'
  <2>1. lists \subseteq List
    BY DEF Scope
  <2>2. [IdleSlot EXCEPT !.pc = "sync", !.todo = lists, !.upstream = given] \in Slot
    BY <2>1, IdleSlotType DEF Slot, EditorPc
  <2>3. editor' \in [Editor -> Slot]
    BY <1>9, <2>2 DEF Sync, Begin
  <2>4. edits' \in 0..MaxEdits
    BY <1>9, CountType DEF Sync, Begin
  <2> QED BY <1>9, <2>3, <2>4 DEF Sync, cache
<1>10. ASSUME NEW h \in Editor, SyncList(h)
       PROVE  TypeOK'
  <2> DEFINE l == First(editor[h].todo)
             listed == editor[h].upstream[l]
             slot == [editor[h] EXCEPT !.todo = editor[h].todo \ {l},
                        !.upstream = [editor[h].upstream EXCEPT ![l] = {}],
                        !.written = editor[h].written \union {l},
                        !.pc = IF editor[h].todo \ {l} = {} THEN "scan" ELSE "sync"]
  <2>1. editor[h].todo \in SUBSET List /\ editor[h].todo # {}
    BY <1>10 DEF SyncList, SlotsSound, At, Slot
  <2>2. l \in List
    BY <2>1, FirstIsOne
  <2>3. \A k \in Key : k[1] \in List /\ k[2] \in Resource /\ k = <<k[1], k[2]>>
    BY DEF Key
  <2>4. ASSUME NEW k \in Key, k[1] = l
        PROVE  /\ Synced(l, k[2], k[2] \in listed) \in Row
               /\ Synced(l, k[2], k[2] \in listed).default => row[k].default
    <3>1. k[2] \in Resource /\ k = <<l, k[2]>> /\ (k[2] \in listed) \in BOOLEAN
      BY <2>3, <2>4
    <3> HIDE DEF l, listed
    <3> QED BY <2>2, <2>4, <3>1, SyncedType
  <2> HIDE DEF l, listed, slot
  <2>5. row' = [k \in Key |-> IF k[1] = l THEN Synced(l, k[2], k[2] \in listed) ELSE row[k]]
    BY <1>10 DEF SyncList, l, listed
  <2>5a. ASSUME NEW k \in Key
         PROVE  row'[k] \in Row /\ (row'[k].default => row[k].default)
    <3>1. CASE k[1] = l
      <4>1. row'[k] = Synced(l, k[2], k[2] \in listed)
        BY <2>5, <3>1
      <4>2. /\ Synced(l, k[2], k[2] \in listed) \in Row
            /\ Synced(l, k[2], k[2] \in listed).default => row[k].default
        BY <2>4, <3>1
      <4>3. row'[k] \in Row
        BY ONLY <4>1, <4>2
      <4>4. row'[k].default => row[k].default
        BY ONLY <4>1, <4>2
      <4> QED BY <4>3, <4>4
    <3>2. CASE k[1] # l
      <4>1. row'[k] = row[k]
        BY <2>5, <3>2
      <4> QED BY <4>1
    <3> QED BY <3>1, <3>2
  <2>6. row' \in [Key -> Row]
    BY <2>5, <2>5a
  <2>7. \A k \in Key : row'[k].default => k[1] = "translations"
    BY <2>5a
  <2>7a. [editor[h].upstream EXCEPT ![l] = {}] \in [List -> SUBSET Resource]
    BY DEF Slot
  <2>8. slot \in Slot
    <3>1. editor[h] \in Slot /\ editor[h].written \union {l} \in SUBSET List
      BY <2>2 DEF Slot
    <3>2. editor[h].todo \ {l} \in SUBSET List
      BY <2>1
    <3>3. (IF editor[h].todo \ {l} = {} THEN "scan" ELSE "sync") \in {"scan", "sync"}
      OBVIOUS
    <3> QED BY <2>7a, <3>1, <3>2, <3>3, SyncedSlotType DEF slot
  <2>9. editor' = [editor EXCEPT ![h] = slot]
    BY <1>10 DEF SyncList, slot, l
  <2>10. editor' \in [Editor -> Slot]
    BY <2>8, <2>9
  <2>11. choice' \in [Key -> Choice]
    BY <1>10 DEF SyncList, Choice
  <2> QED BY <1>10, <2>6, <2>7, <2>10, <2>11 DEF SyncList, cache
<1>11. ASSUME NEW h \in Editor, ScanKeys(h)
       PROVE  TypeOK'
  <2> DEFINE slot == [editor[h] EXCEPT !.pc = "delete", !.scanned = {l \in List : entry[l] # NoValue}]
  <2>1. slot \in Slot
    BY ScannedSlotType
  <2> HIDE DEF slot
  <2>2. editor' = [editor EXCEPT ![h] = slot]
    BY <1>11 DEF ScanKeys, slot
  <2>3. editor' \in [Editor -> Slot]
    BY <2>1, <2>2
  <2> QED BY <1>11, <2>3 DEF ScanKeys, cache
<1>12. ASSUME NEW h \in Editor, DeleteKeys(h)
       PROVE  TypeOK'
  <2>1. entry' \in [List -> Value \union {NoValue}]
    BY <1>12 DEF DeleteKeys, Drop
  <2>2. missed' \in [List -> BOOLEAN]
    BY <1>12 DEF DeleteKeys, Drop
  <2>3. editor' \in [Editor -> Slot]
    BY <1>12, IdleSlotType DEF DeleteKeys
  <2> QED BY <1>12, <2>1, <2>2, <2>3 DEF DeleteKeys
<1>13. ASSUME NEW h \in Editor, EditorFails(h)
       PROVE  TypeOK'
  <2>1. missed' \in [List -> BOOLEAN]
    BY <1>13 DEF EditorFails
  <2>2. editor' \in [Editor -> Slot]
    BY <1>13, IdleSlotType DEF EditorFails
  <2> QED BY <1>13, <2>1, <2>2 DEF EditorFails
<1> QED
  BY <1>1, <1>2, <1>3, <1>4, <1>5, <1>6, <1>7, <1>8, <1>9, <1>10, <1>11, <1>12, <1>13, EditsAreOfRows
     DEF Next, LoadStep, SyncStep, DropStep

(* Every step keeps what the places say.                                   *)
LEMMA NextSlots ==
  ASSUME TypeOK, SlotsSound, [Next]_vars
  PROVE  SlotsSound'
<1> USE DEF TypeOK, SlotsSound, InDefault, At
<1>1. CASE UNCHANGED editor
  BY <1>1
<1>2. ASSUME NEW h \in Editor, NEW l \in List, NEW r \in Resource, NEW e \in Edit,
             Committed(h, l, r, e)
      PROVE  SlotsSound'
  BY <1>2 DEF Committed, IdleSlot
<1>3. ASSUME NEW h \in Editor, NEW r \in Resource, NEW e \in Edit, BeginDefault(h, r, e)
      PROVE  SlotsSound'
  <2>1. /\ editor'[h].pc = "clear" /\ editor'[h].list = "translations"
        /\ editor'[h].written = {}
    BY <1>3 DEF BeginDefault, IdleSlot
  <2>2. \A x \in Editor \ {h} :
          /\ editor'[x].pc = editor[x].pc /\ editor'[x].list = editor[x].list
          /\ editor'[x].written = editor[x].written /\ editor'[x].todo = editor[x].todo
    <3> TAKE x \in Editor \ {h}
    <3>1. editor'[x] = IF InDefault(x) THEN [editor[x] EXCEPT !.alone = FALSE] ELSE editor[x]
      BY <1>3 DEF BeginDefault
    <3>2. editor[x] \in Slot
      OBVIOUS
    <3> QED BY ONLY <3>1, <3>2 DEF Slot
  <2> QED BY <2>1, <2>2
<1>4. ASSUME NEW h \in Editor, ClearDefaults(h)
      PROVE  SlotsSound'
  BY <1>4 DEF ClearDefaults, Slot
<1>5. ASSUME NEW h \in Editor, NEW lists \in Scope, NEW given \in [List -> SUBSET Resource],
             Sync(h, lists, given)
      PROVE  SlotsSound'
  BY <1>5 DEF Sync, Begin, IdleSlot
<1>6. ASSUME NEW h \in Editor, SyncList(h)
      PROVE  SlotsSound'
  BY <1>6 DEF SyncList, Slot
<1>7. ASSUME NEW h \in Editor, ScanKeys(h)
      PROVE  SlotsSound'
  BY <1>7 DEF ScanKeys, Slot
<1>8. ASSUME NEW h \in Editor, editor' = [editor EXCEPT ![h] = IdleSlot]
      PROVE  SlotsSound'
  BY <1>8 DEF IdleSlot
<1>9. ASSUME NEW h \in Editor, SetDefault(h)
      PROVE  SlotsSound'
  <2>1. editor[h].list \in List /\ editor[h].id \in Resource /\ editor[h].edit \in Edit
    BY DEF Slot
  <2> QED BY <1>2, <1>9, <2>1 DEF SetDefault
<1>10. CASE LoadStep
  BY <1>1, <1>10 DEF LoadStep, LoadShared, ListActive, WriteEntry, LoadFails, Evict
<1>11. ASSUME NEW h \in Editor, EditStep(h)
       PROVE  SlotsSound'
  BY <1>2, <1>3, <1>4, <1>9, <1>11, EditsAreOfRows DEF UpdateRow
<1>12. ASSUME NEW h \in Editor, SyncStep(h) \/ DropStep(h) \/ EditorFails(h)
       PROVE  SlotsSound'
  BY <1>5, <1>6, <1>7, <1>8, <1>12 DEF SyncStep, DropStep, DeleteKeys, EditorFails
<1>13. CASE UNCHANGED vars
  BY <1>1, <1>13 DEF vars
<1> QED BY <1>10, <1>11, <1>12, <1>13 DEF Next

(***************************************************************************)
(* Every variable of the catalog keeps its type.                           *)
(***************************************************************************)
THEOREM TypeCorrect == Spec => []TypeOK
<1>1. Init => TypeOK /\ SlotsSound
  BY InitType DEF Init, SlotsSound, IdleSlot, At, InDefault
<1>2. TypeOK /\ SlotsSound /\ [Next]_vars => TypeOK' /\ SlotsSound'
  BY NextType, NextSlots
<1> QED BY <1>1, <1>2, PTL DEF Spec

----------------------------------------------------------------------------
(* The cached lists. *)

(* An edit or a sync of a list leaves the promises on the others alone and *)
(* is itself pending for its own.                                          *)
LEMMA WritingKeepsPromise ==
  ASSUME TypeOK, Promised, NEW h \in Editor, NEW m \in List,
         UNCHANGED <<entry, missed>>,
         \A l \in List \ {m}, r \in Resource : row'[<<l, r>>] = row[<<l, r>>],
         editor' \in [Editor -> Slot],
         \A x \in Editor \ {h} : editor'[x] = editor[x],
         editor'[h].pc # "delete", m \in editor'[h].written,
         editor[h].written \subseteq editor'[h].written
  PROVE  Promised'
<1> SUFFICES ASSUME NEW l \in List, Stale(l)', ~missed'[l]
             PROVE  \E x \in Editor : Pending(x, l)'
  BY DEF Promised
<1>1. CASE l = m
  BY <1>1 DEF Pending, At
<1>2. CASE l # m
  <2>1. Listing(l)' = Listing(l)
    BY <1>2, ListingOfOthers
  <2>2. Stale(l) /\ ~missed[l]
    BY <2>1 DEF Stale
  <2>3. PICK x \in Editor : Pending(x, l)
    BY <2>2 DEF Promised
  <2>4. Pending(x, l)'
    BY <2>3 DEF Pending, At
  <2> QED BY <2>4
<1> QED BY <1>1, <1>2

(* A step that leaves the rows, the lists and what is pending alone.       *)
LEMMA KeepingKeepsPromise ==
  ASSUME Promised, UNCHANGED <<row, entry, missed>>,
         \A x \in Editor, l \in List : Pending(x, l) => Pending(x, l)'
  PROVE  Promised'
BY DEF Promised, Stale, Listing

(* Every step keeps the promises.                                          *)
LEMMA NextPromised ==
  ASSUME CatalogInv, [Next]_vars
  PROVE  Promised'
<1> USE DEF CatalogInv
<1>1. TypeOK' /\ SlotsSound'
  BY NextType, NextSlots
<1>2. CASE UNCHANGED vars
  BY <1>2, KeepingKeepsPromise DEF vars, cache, Pending, At
<1>3. ASSUME NEW l \in Asked, LoadShared(l) \/ ListActive(l) \/ LoadFails(l)
      PROVE  Promised'
  BY <1>3, KeepingKeepsPromise DEF LoadShared, ListActive, LoadFails, Pending, At
<1>4. ASSUME NEW l \in Asked, WriteEntry(l)
      PROVE  Promised'
  <2>1. /\ l \in List
        /\ entry' = [entry EXCEPT ![l] = flight[l].value]
        /\ missed' = [missed EXCEPT ![l] = flight[l].value # Listing(l)]
        /\ UNCHANGED <<row, editor>>
    BY <1>4, CatalogAssumption DEF WriteEntry
  <2>2. \A m \in List : Listing(m)' = Listing(m)
    BY <2>1 DEF Listing
  <2>3. \A m \in List \ {l} : entry'[m] = entry[m] /\ missed'[m] = missed[m]
    BY <2>1 DEF TypeOK
  <2>4. entry'[l] = flight[l].value /\ (missed'[l] <=> flight[l].value # Listing(l))
    BY <2>1 DEF TypeOK
  <2> QED BY <2>1, <2>2, <2>3, <2>4 DEF Promised, Stale, Pending, At
<1>5. ASSUME NEW lists \in SUBSET List, Drop(lists), UNCHANGED row,
             \A x \in Editor, l \in List \ lists : Pending(x, l) => Pending(x, l)'
      PROVE  Promised'
  <2>1. \A m \in List : Listing(m)' = Listing(m)
    BY <1>5 DEF Listing
  <2>2. \A m \in lists : entry'[m] = NoValue
    BY <1>5 DEF Drop
  <2>3. \A m \in List \ lists : entry'[m] = entry[m] /\ (missed[m] => missed'[m])
    BY <1>5 DEF Drop
  <2> QED BY <1>5, <2>1, <2>2, <2>3 DEF Promised, Stale
<1>6. ASSUME NEW l \in Asked, Evict(l)
      PROVE  Promised'
  BY <1>5, <1>6, CatalogAssumption DEF Evict, Pending, At
<1>7. ASSUME NEW h \in Editor, NEW l \in List, NEW r \in Resource, NEW e \in Edit,
             UpdateRow(h, l, r, e)
      PROVE  Promised'
  <2>1. \A m \in List \ {l}, q \in Resource : row'[<<m, q>>] = row[<<m, q>>]
    BY <1>7 DEF UpdateRow, TypeOK, Key
  <2>2. /\ editor'[h].pc = "scan" /\ editor'[h].written = {l}
        /\ \A x \in Editor \ {h} : editor'[x] = editor[x]
        /\ editor[h].written = {}
    BY <1>7 DEF UpdateRow, Committed, IdleSlot, TypeOK, SlotsSound, At
  <2> QED BY <1>1, <1>7, <2>1, <2>2, WritingKeepsPromise DEF UpdateRow, cache, TypeOK
<1>8. ASSUME NEW h \in Editor, NEW slot, editor' = [editor EXCEPT ![h] = slot],
             editor[h].written = {}, UNCHANGED <<row, entry, missed>>
      PROVE  Promised'
  <2>1. \A x \in Editor \ {h} : editor'[x] = editor[x]
    BY <1>8 DEF TypeOK
  <2> QED BY <1>8, <2>1, KeepingKeepsPromise DEF Pending, At
<1>9. ASSUME NEW h \in Editor, NEW r \in Resource, NEW e \in Edit, BeginDefault(h, r, e)
      PROVE  Promised'
  <2>1. editor[h].written = {}
    BY <1>9 DEF BeginDefault, SlotsSound, At
  <2>2. \A x \in Editor \ {h} :
          /\ editor'[x].pc = editor[x].pc /\ editor'[x].written = editor[x].written
          /\ editor'[x].scanned = editor[x].scanned
    <3> TAKE x \in Editor \ {h}
    <3>1. editor'[x] = IF InDefault(x) THEN [editor[x] EXCEPT !.alone = FALSE] ELSE editor[x]
      BY <1>9 DEF BeginDefault
    <3>2. editor[x] \in Slot
      BY DEF TypeOK
    <3> QED BY ONLY <3>1, <3>2 DEF Slot
  <2>3. \A x \in Editor, l \in List : Pending(x, l) => Pending(x, l)'
    BY <2>1, <2>2 DEF Pending, At
  <2> QED BY <1>9, <2>3, KeepingKeepsPromise DEF BeginDefault, cache
<1>10. ASSUME NEW h \in Editor, ClearDefaults(h)
       PROVE  Promised'
  <2>1. editor[h].written = {} /\ UNCHANGED <<row, entry, missed>>
    BY <1>10 DEF ClearDefaults, SlotsSound, At, cache
  <2>2. editor' = [editor EXCEPT ![h] = [editor[h] EXCEPT !.pc = "set",
                                           !.locked = editor[h].seen \intersect Defaults]]
    BY <1>10 DEF ClearDefaults
  <2> QED BY <1>8, <2>1, <2>2
<1>11. ASSUME NEW h \in Editor, SetDefault(h)
       PROVE  Promised'
  <2> DEFINE e == editor[h]
  <2>1. /\ e.list \in List /\ e.written = {} /\ UNCHANGED <<entry, missed>>
        /\ Committed(h, e.list, e.id, e.edit)
    BY <1>11 DEF SetDefault, SlotsSound, At, TypeOK, Slot, cache
  <2>2. \A m \in List \ {e.list}, q \in Resource : row'[<<m, q>>] = row[<<m, q>>]
    <3> TAKE m \in List \ {e.list}, q \in Resource
    <3>1. <<m, q>> \in Key /\ <<m, q>> # <<e.list, e.id>> /\ <<m, q>>[1] # e.list
      BY DEF Key
    <3> QED BY <1>11, <3>1 DEF SetDefault
  <2>3. /\ editor'[h].pc = "scan" /\ editor'[h].written = {e.list}
        /\ \A x \in Editor \ {h} : editor'[x] = editor[x]
    BY <2>1 DEF Committed, IdleSlot, TypeOK
  <2>4. editor' \in [Editor -> Slot]
    BY <1>1 DEF TypeOK
  <2> QED BY <2>1, <2>2, <2>3, <2>4, WritingKeepsPromise
<1>12. ASSUME NEW h \in Editor, NEW lists \in Scope, NEW given \in [List -> SUBSET Resource],
              Sync(h, lists, given)
       PROVE  Promised'
  <2>1. editor[h].written = {} /\ UNCHANGED <<row, entry, missed>>
    BY <1>12 DEF Sync, Begin, SlotsSound, At, cache
  <2> QED BY <1>8, <1>12, <2>1 DEF Sync, Begin
<1>13. ASSUME NEW h \in Editor, SyncList(h)
       PROVE  Promised'
  <2> DEFINE m == First(editor[h].todo)
             slot == [editor[h] EXCEPT !.todo = editor[h].todo \ {m},
                        !.upstream = [editor[h].upstream EXCEPT ![m] = {}],
                        !.written = editor[h].written \union {m},
                        !.pc = IF editor[h].todo \ {m} = {} THEN "scan" ELSE "sync"]
  <2>1. editor[h].todo \in SUBSET List /\ editor[h].todo # {}
    BY <1>13 DEF SyncList, SlotsSound, At, TypeOK, Slot
  <2>2. m \in List
    BY <2>1, FirstIsOne
  <2>3. \A l \in List \ {m}, q \in Resource : row'[<<l, q>>] = row[<<l, q>>]
    <3> TAKE l \in List \ {m}, q \in Resource
    <3>1. <<l, q>> \in Key /\ <<l, q>>[1] # m
      BY DEF Key
    <3> QED BY <1>13, <3>1 DEF SyncList
  <2>4. editor' = [editor EXCEPT ![h] = slot] /\ UNCHANGED <<entry, missed>>
    BY <1>13 DEF SyncList, cache
  <2>5. slot.pc # "delete" /\ slot.written = editor[h].written \union {m}
    BY DEF TypeOK, Slot
  <2> HIDE DEF m, slot
  <2>6. editor'[h] = slot /\ \A x \in Editor \ {h} : editor'[x] = editor[x]
    BY <2>4 DEF TypeOK
  <2>7. editor' \in [Editor -> Slot]
    BY <1>1 DEF TypeOK
  <2> QED BY <2>2, <2>3, <2>4, <2>5, <2>6, <2>7, WritingKeepsPromise
<1>14. ASSUME NEW h \in Editor, ScanKeys(h)
       PROVE  Promised'
  <2>1. UNCHANGED <<row, entry, missed>> /\ At(h, "scan")
    BY <1>14 DEF ScanKeys, cache
  <2>2. /\ editor'[h].written = editor[h].written
        /\ editor'[h].scanned = {l \in List : entry[l] # NoValue}
        /\ \A x \in Editor \ {h} : editor'[x] = editor[x]
    BY <1>14 DEF ScanKeys, TypeOK, Slot
  <2>3. ASSUME NEW x \in Editor, NEW l \in List, Stale(l), Pending(x, l)
        PROVE  Pending(x, l)'
    BY <2>2, <2>3 DEF Pending, Stale, At
  <2>4. \A l \in List : Stale(l)' = Stale(l) /\ missed'[l] = missed[l]
    BY <2>1 DEF Stale, Listing
  <2> QED BY <2>3, <2>4 DEF Promised
<1>15. ASSUME NEW h \in Editor, DeleteKeys(h)
       PROVE  Promised'
  <2>1. Drop(editor[h].scanned) /\ UNCHANGED row /\ editor[h].scanned \in SUBSET List
    BY <1>15 DEF DeleteKeys, TypeOK, Slot
  <2>2. \A x \in Editor \ {h} : editor'[x] = editor[x]
    BY <1>15 DEF DeleteKeys, TypeOK
  <2>3. \A x \in Editor, l \in List \ editor[h].scanned : Pending(x, l) => Pending(x, l)'
    BY <1>15, <2>2 DEF DeleteKeys, Pending, At
  <2> QED BY <1>5, <2>1, <2>3
<1>16. ASSUME NEW h \in Editor, EditorFails(h)
       PROVE  Promised'
  <2>1. UNCHANGED <<row, entry>>
    BY <1>16 DEF EditorFails
  <2>2. \A l \in List : Stale(l)' = Stale(l)
    BY <2>1 DEF Stale, Listing
  <2>3. \A l \in List : missed[l] \/ (l \in editor[h].written /\ Stale(l)) => missed'[l]
    BY <1>16 DEF EditorFails, Stale
  <2>4. \A x \in Editor \ {h} : editor'[x] = editor[x]
    BY <1>16 DEF EditorFails, TypeOK
  <2> QED BY <2>2, <2>3, <2>4 DEF Promised, Pending, At
<1> QED
  BY <1>2, <1>3, <1>4, <1>6, <1>7, <1>9, <1>10, <1>11, <1>12, <1>13, <1>14, <1>15, <1>16,
     EditsAreOfRows
     DEF Next, LoadStep, SyncStep, DropStep

(***************************************************************************)
(* For any lists, rows, requests and numbers of edits, a cached list is    *)
(* what the catalog says unless an edit or a sync of it is still to drop   *)
(* it, or a failed one or an overtaken load has left it.                   *)
(***************************************************************************)
THEOREM CachedListsCatchUp == Spec => []ListsCatchUp
<1>1. Init => CatalogInv
  BY InitType DEF Init, CatalogInv, SlotsSound, Promised, Stale, IdleSlot, At, InDefault
<1>2. CatalogInv /\ [Next]_vars => CatalogInv'
  BY NextType, NextSlots, NextPromised DEF CatalogInv
<1>3. CatalogInv => ListsCatchUp
  BY DEF CatalogInv, Promised, Pending, Stale, ListsCatchUp
<1> QED BY <1>1, <1>2, <1>3, PTL DEF Spec

----------------------------------------------------------------------------
(* The default translation, and what administrators have chosen. *)

(* Who sets a default alone knows every other one: nobody else is about to *)
(* set one, and other steps only take defaults away.                       *)
OthersKnown(h) ==
  InDefault(h) /\ editor[h].alone =>
    /\ \A x \in Editor \ {h} : ~InDefault(x)
    /\ At(h, "clear") => Defaults \ {editor[h].id} \subseteq editor[h].seen
    /\ At(h, "set") => Defaults \ {editor[h].id} \subseteq editor[h].locked

DefaultSound ==
  /\ \A h \in Editor : OthersKnown(h)
  /\ contended \/ \A r, q \in Defaults : r = q

(* A choice is of a row that exists, as is the default about to be set.    *)
ChoiceSound(l, r) ==
  /\ choice[<<l, r>>] # "same" => row[<<l, r>>].exists
  /\ choice[<<l, r>>] = "on" => row[<<l, r>>].active
  /\ choice[<<l, r>>] = "off" => ~row[<<l, r>>].active \/ IsCurated(l, r)

DefaultExists(h) == InDefault(h) => row[<<"translations", editor[h].id>>].exists

EditInv ==
  /\ TypeOK /\ SlotsSound /\ DefaultSound
  /\ \A h \in Editor : DefaultExists(h)
  /\ \A l \in List, r \in Resource : ChoiceSound(l, r)

(* An edit keeps what it does not say. *)
LEMMA AppliedEffect ==
  ASSUME NEW rec \in Row, NEW e \in Edit
  PROVE  /\ Applied(rec, e).exists = rec.exists
         /\ Applied(rec, e).active = Chosen(e.active, rec.active)
         /\ e.default # "on" /\ Applied(rec, e).default => rec.default
BY DEF Applied, Chosen, Row, Edit, Choice

LEMMA SyncedEffect ==
  ASSUME TypeOK, NEW l \in List, NEW r \in Resource, NEW listed \in BOOLEAN
  PROVE  LET rec == row[<<l, r>>] new == Synced(l, r, listed) IN
         /\ rec.exists => new.exists
         /\ rec.exists /\ rec.active /\ listed => new.active
         /\ rec.exists /\ ~rec.active /\ new.active => IsCurated(l, r)
<1>1. row[<<l, r>>] \in Row
  BY DEF TypeOK, Key
<1>2. CASE ~listed
  BY <1>1, <1>2 DEF Synced, Row
<1>3. CASE listed /\ ~row[<<l, r>>].exists
  BY <1>3 DEF Synced, Created
<1>4. CASE listed /\ row[<<l, r>>].exists
  <2> DEFINE active == row[<<l, r>>].active \/ IsCurated(l, r)
  <2>1. Synced(l, r, listed) = [row[<<l, r>>] EXCEPT !.active = active]
    BY <1>4 DEF Synced
  <2> HIDE DEF active
  <2>2. /\ Synced(l, r, listed).exists = row[<<l, r>>].exists
        /\ Synced(l, r, listed).active = active
    BY <1>1, <2>1 DEF Row
  <2> QED BY <1>4, <2>2 DEF active
<1> QED BY <1>1, <1>2, <1>3, <1>4

(* Steps that set no default only take defaults away, and what was known   *)
(* stays known.                                                            *)
LEMMA QuietDefaults ==
  ASSUME EditInv, contended' = contended,
         \A l \in List, r \in Resource :
           /\ row'[<<l, r>>].default => row[<<l, r>>].default
           /\ row[<<l, r>>].exists => row'[<<l, r>>].exists,
         \A x \in Editor : InDefault(x)' => editor'[x] = editor[x]
  PROVE  DefaultSound' /\ \A x \in Editor : DefaultExists(x)'
<1>1. "translations" \in List
  BY CatalogAssumption
<1>2. Defaults' \subseteq Defaults
  BY <1>1 DEF Defaults
<1>3. \A x \in Editor : InDefault(x)' => InDefault(x)
  BY DEF InDefault
<1>4. ASSUME NEW x \in Editor
      PROVE  OthersKnown(x)'
  BY <1>2, <1>3 DEF EditInv, DefaultSound, OthersKnown, At
<1>5. contended' \/ \A r, q \in Defaults' : r = q
  BY <1>2 DEF EditInv, DefaultSound
<1>6. ASSUME NEW x \in Editor
      PROVE  DefaultExists(x)'
  <2>1. editor[x].id \in Resource
    BY DEF EditInv, TypeOK, Slot
  <2> QED BY <1>1, <1>3, <2>1 DEF EditInv, DefaultExists
<1> QED BY <1>4, <1>5, <1>6 DEF DefaultSound

(* A choice stands when its row and what was chosen are left alone.        *)
LEMMA ChoiceLeftAlone ==
  ASSUME NEW l \in List, NEW r \in Resource, ChoiceSound(l, r),
         row'[<<l, r>>].exists = row[<<l, r>>].exists, row'[<<l, r>>].active = row[<<l, r>>].active,
         choice'[<<l, r>>] = choice[<<l, r>>]
  PROVE  ChoiceSound(l, r)'
BY DEF ChoiceSound, IsCurated

(* What is chosen by an edit is what the row says after it. *)
LEMMA ChoiceMade ==
  ASSUME EditInv, NEW h \in Editor, NEW l \in List, NEW r \in Resource, NEW e \in Edit,
         Committed(h, l, r, e),
         row[<<l, r>>].exists, row'[<<l, r>>] = Applied(row[<<l, r>>], e),
         \A m \in List, q \in Resource : <<m, q>> # <<l, r>> =>
           row'[<<m, q>>].exists = row[<<m, q>>].exists /\ row'[<<m, q>>].active = row[<<m, q>>].active
  PROVE  \A m \in List, q \in Resource : ChoiceSound(m, q)'
<1> SUFFICES ASSUME NEW m \in List, NEW q \in Resource PROVE ChoiceSound(m, q)'
  OBVIOUS
<1>1. <<l, r>> \in Key /\ <<m, q>> \in Key /\ ChoiceSound(m, q) /\ ChoiceSound(l, r)
  BY DEF Key, EditInv
<1>2. choice' = [choice EXCEPT ![<<l, r>>] = IF e.active = "same" THEN choice[<<l, r>>] ELSE e.active]
  BY DEF Committed
<1>3. CASE <<m, q>> # <<l, r>>
  <2>1. choice'[<<m, q>>] = choice[<<m, q>>]
    BY <1>1, <1>2, <1>3 DEF EditInv, TypeOK
  <2> QED BY <1>1, <1>3, <2>1, ChoiceLeftAlone
<1>4. CASE <<m, q>> = <<l, r>>
  <2>1. row[<<l, r>>] \in Row
    BY <1>1 DEF EditInv, TypeOK
  <2>2. row'[<<l, r>>].exists /\ row'[<<l, r>>].active = Chosen(e.active, row[<<l, r>>].active)
    BY <2>1, AppliedEffect
  <2>3. choice'[<<l, r>>] = IF e.active = "same" THEN choice[<<l, r>>] ELSE e.active
    BY <1>1, <1>2 DEF EditInv, TypeOK
  <2>4. ChoiceSound(l, r)'
    BY <1>1, <2>2, <2>3 DEF ChoiceSound, Chosen, IsCurated
  <2> QED BY <1>4, <2>4
<1> QED BY <1>3, <1>4

(* Every step keeps the default and the choices. *)
LEMMA NextEdits ==
  ASSUME EditInv, [Next]_vars
  PROVE  EditInv'
<1>0. TypeOK /\ SlotsSound /\ TypeOK' /\ SlotsSound'
  BY NextType, NextSlots DEF EditInv
<1>1. ASSUME UNCHANGED <<row, choice, contended>>,
             \A x \in Editor : InDefault(x)' => editor'[x] = editor[x]
      PROVE  EditInv'
  <2>1. DefaultSound' /\ \A x \in Editor : DefaultExists(x)'
    BY <1>1, QuietDefaults
  <2>2. \A l \in List, r \in Resource : ChoiceSound(l, r)'
    BY <1>1 DEF EditInv, ChoiceSound, IsCurated
  <2> QED BY <1>0, <2>1, <2>2 DEF EditInv
<1>2. CASE UNCHANGED vars \/ LoadStep
  BY <1>1, <1>2 DEF vars, LoadStep, LoadShared, ListActive, WriteEntry, LoadFails, Evict
<1>3. ASSUME NEW h \in Editor, NEW slot, editor' = [editor EXCEPT ![h] = slot],
             slot.pc \notin {"clear", "set"}
      PROVE  \A x \in Editor : InDefault(x)' => editor'[x] = editor[x]
  BY <1>0, <1>3 DEF InDefault, TypeOK
<1>4. ASSUME NEW h \in Editor, NEW lists \in Scope, NEW given \in [List -> SUBSET Resource],
             Sync(h, lists, given)
      PROVE  EditInv'
  BY <1>1, <1>3, <1>4 DEF Sync, Begin, IdleSlot
<1>5. ASSUME NEW h \in Editor, ScanKeys(h)
      PROVE  EditInv'
  <2>1. editor[h] \in Slot
    BY <1>0 DEF TypeOK
  <2> DEFINE slot == [editor[h] EXCEPT !.pc = "delete", !.scanned = {l \in List : entry[l] # NoValue}]
  <2>2. editor' = [editor EXCEPT ![h] = slot] /\ slot.pc = "delete"
    BY <1>5, <2>1 DEF ScanKeys, Slot
  <2> HIDE DEF slot
  <2> QED BY <1>1, <1>3, <1>5, <2>2 DEF ScanKeys
<1>6. ASSUME NEW h \in Editor, DeleteKeys(h) \/ EditorFails(h)
      PROVE  EditInv'
  BY <1>1, <1>3, <1>6 DEF DeleteKeys, EditorFails, IdleSlot
<1>7. ASSUME NEW h \in Editor, NEW l \in List, NEW r \in Resource, NEW e \in Edit,
             e.default # "on", UpdateRow(h, l, r, e)
      PROVE  EditInv'
  <2>1. <<l, r>> \in Key /\ row[<<l, r>>] \in Row /\ row[<<l, r>>].exists
    BY <1>0, <1>7 DEF Key, TypeOK, UpdateRow
  <2>2. row' = [row EXCEPT ![<<l, r>>] = Applied(row[<<l, r>>], e)]
    BY <1>7 DEF UpdateRow
  <2>3. \A m \in List, q \in Resource : <<m, q>> # <<l, r>> => row'[<<m, q>>] = row[<<m, q>>]
    BY <1>0, <2>2 DEF TypeOK, Key
  <2>4. row'[<<l, r>>] = Applied(row[<<l, r>>], e)
    BY <1>0, <2>1, <2>2 DEF TypeOK
  <2>5. \A m \in List, q \in Resource :
          /\ row'[<<m, q>>].default => row[<<m, q>>].default
          /\ row[<<m, q>>].exists => row'[<<m, q>>].exists
    <3> TAKE m \in List, q \in Resource
    <3>1. CASE <<m, q>> = <<l, r>>
      <4>1. /\ Applied(row[<<l, r>>], e).exists
            /\ Applied(row[<<l, r>>], e).default => row[<<l, r>>].default
        BY <1>7, <2>1, AppliedEffect
      <4> QED BY <2>4, <3>1, <4>1
    <3>2. CASE <<m, q>> # <<l, r>>
      BY <2>3, <3>2
    <3> QED BY <3>1, <3>2
  <2>6. \A x \in Editor : InDefault(x)' => editor'[x] = editor[x]
    BY <1>3, <1>7 DEF UpdateRow, Committed, IdleSlot
  <2>7. Committed(h, l, r, e) /\ contended' = contended
    BY <1>7 DEF UpdateRow
  <2>8. DefaultSound' /\ \A x \in Editor : DefaultExists(x)'
    BY <2>5, <2>6, <2>7, QuietDefaults
  <2>9. \A m \in List, q \in Resource : ChoiceSound(m, q)'
    BY <2>1, <2>3, <2>4, <2>7, ChoiceMade
  <2> QED BY <1>0, <2>8, <2>9 DEF EditInv
<1>8. ASSUME NEW h \in Editor, SyncList(h)
      PROVE  EditInv'
  <2> DEFINE l == First(editor[h].todo)
             listed == editor[h].upstream[l]
             slot == [editor[h] EXCEPT !.todo = editor[h].todo \ {l},
                        !.upstream = [editor[h].upstream EXCEPT ![l] = {}],
                        !.written = editor[h].written \union {l},
                        !.pc = IF editor[h].todo \ {l} = {} THEN "scan" ELSE "sync"]
  <2>1. editor' = [editor EXCEPT ![h] = slot] /\ contended' = contended
    BY <1>8 DEF SyncList
  <2>2. slot.pc \in {"scan", "sync"}
    BY <1>0 DEF TypeOK, Slot
  <2>3. /\ row' = [k \in Key |-> IF k[1] = l THEN Synced(l, k[2], k[2] \in listed) ELSE row[k]]
        /\ choice' = [k \in Key |-> IF k[1] = l /\ k[2] \notin listed THEN "same" ELSE choice[k]]
    BY <1>8 DEF SyncList
  <2> HIDE DEF l, listed, slot
  <2>4. ASSUME NEW m \in List, NEW q \in Resource
        PROVE  /\ row'[<<m, q>>] = IF m = l THEN Synced(m, q, q \in listed) ELSE row[<<m, q>>]
               /\ choice'[<<m, q>>] = IF m = l /\ q \notin listed THEN "same" ELSE choice[<<m, q>>]
    <3>1. <<m, q>> \in Key /\ <<m, q>>[1] = m /\ <<m, q>>[2] = q
      BY DEF Key
    <3> QED BY <2>3, <3>1
  <2>5. ASSUME NEW m \in List, NEW q \in Resource
        PROVE  LET rec == row[<<m, q>>] new == Synced(m, q, q \in listed) IN
               /\ new.default => rec.default
               /\ rec.exists => new.exists
               /\ rec.exists /\ rec.active /\ q \in listed => new.active
               /\ rec.exists /\ ~rec.active /\ new.active => IsCurated(m, q)
    <3> DEFINE b == q \in listed
    <3>1. b \in BOOLEAN
      OBVIOUS
    <3> HIDE DEF b
    <3>2. LET rec == row[<<m, q>>] new == Synced(m, q, b) IN
               /\ new.default => rec.default
               /\ rec.exists => new.exists
               /\ rec.exists /\ rec.active /\ b => new.active
               /\ rec.exists /\ ~rec.active /\ new.active => IsCurated(m, q)
      BY <1>0, <3>1, SyncedType, SyncedEffect
    <3> QED BY <3>2 DEF b
  <2>6. \A m \in List, q \in Resource :
          /\ row'[<<m, q>>].default => row[<<m, q>>].default
          /\ row[<<m, q>>].exists => row'[<<m, q>>].exists
    BY <2>4, <2>5
  <2>7. \A x \in Editor : InDefault(x)' => editor'[x] = editor[x]
    BY <1>3, <2>1, <2>2
  <2>8. DefaultSound' /\ \A x \in Editor : DefaultExists(x)'
    BY <2>1, <2>6, <2>7, QuietDefaults
  <2>9. ASSUME NEW m \in List, NEW q \in Resource
        PROVE  ChoiceSound(m, q)'
    <3>1. ChoiceSound(m, q)
      BY DEF EditInv
    <3>2. CASE m # l
      <4>1. row'[<<m, q>>] = row[<<m, q>>] /\ choice'[<<m, q>>] = choice[<<m, q>>]
        BY <2>4, <3>2
      <4> QED BY <3>1, <4>1, ChoiceLeftAlone
    <3>3. CASE m = l /\ q \notin listed
      <4>1. choice'[<<m, q>>] = "same"
        BY <2>4, <3>3
      <4> QED BY <4>1 DEF ChoiceSound
    <3>4. CASE m = l /\ q \in listed
      <4>1. row'[<<m, q>>] = Synced(m, q, q \in listed) /\ choice'[<<m, q>>] = choice[<<m, q>>]
        BY <2>4, <3>4
      <4> QED BY <2>5, <3>1, <3>4, <4>1 DEF ChoiceSound, IsCurated
    <3> QED BY <3>2, <3>3, <3>4
  <2> QED BY <1>0, <2>8, <2>9 DEF EditInv
<1>9. ASSUME NEW h \in Editor, NEW r \in Resource, NEW e \in Edit, BeginDefault(h, r, e)
      PROVE  EditInv'
  <2>1. /\ editor'[h].pc = "clear" /\ editor'[h].id = r /\ editor'[h].seen = Defaults \ {r}
        /\ editor'[h].alone <=> \A x \in Editor : ~InDefault(x)
    BY <1>9 DEF BeginDefault, IdleSlot
  <2>2. ASSUME NEW x \in Editor \ {h}
        PROVE  /\ editor'[x].pc = editor[x].pc /\ editor'[x].id = editor[x].id
               /\ InDefault(x) => ~editor'[x].alone
    <3>1. editor'[x] = IF InDefault(x) THEN [editor[x] EXCEPT !.alone = FALSE] ELSE editor[x]
      BY <1>9 DEF BeginDefault
    <3>2. editor[x] \in Slot
      BY <1>0 DEF TypeOK
    <3> QED BY ONLY <3>1, <3>2 DEF Slot
  <2>3. UNCHANGED <<row, choice, contended>> /\ row[<<"translations", r>>].exists
    BY <1>9 DEF BeginDefault
  <2>4. ASSUME NEW x \in Editor
        PROVE  OthersKnown(x)' /\ DefaultExists(x)'
    <3>1. CASE x = h
      <4>1. DefaultExists(h)'
        BY <2>1, <2>3 DEF DefaultExists
      <4>2. OthersKnown(h)'
        BY <2>1, <2>2, <2>3 DEF OthersKnown, InDefault, At, Defaults
      <4> QED BY <3>1, <4>1, <4>2
    <3>2. CASE x # h
      <4>1. DefaultExists(x)'
        BY <2>2, <2>3, <3>2 DEF EditInv, DefaultExists, InDefault
      <4>2. ~(InDefault(x)' /\ editor'[x].alone)
        BY <2>2, <3>2 DEF InDefault
      <4> QED BY <4>1, <4>2 DEF OthersKnown
    <3> QED BY <3>1, <3>2
  <2>5. contended' \/ \A q, s \in Defaults' : q = s
    BY <2>3 DEF EditInv, DefaultSound, Defaults
  <2>6. \A l \in List, q \in Resource : ChoiceSound(l, q)'
    BY <2>3 DEF EditInv, ChoiceSound, IsCurated
  <2> QED BY <1>0, <2>4, <2>5, <2>6 DEF EditInv, DefaultSound
<1>10. ASSUME NEW h \in Editor, ClearDefaults(h)
       PROVE  EditInv'
  <2>1. editor[h] \in Slot /\ At(h, "clear")
    BY <1>0, <1>10 DEF TypeOK, ClearDefaults
  <2>2. editor' = [editor EXCEPT ![h] = [editor[h] EXCEPT !.pc = "set",
                                           !.locked = editor[h].seen \intersect Defaults]]
    BY <1>10 DEF ClearDefaults
  <2>3. /\ editor'[h].pc = "set" /\ editor'[h].locked = editor[h].seen \intersect Defaults
        /\ editor'[h].id = editor[h].id /\ editor'[h].alone = editor[h].alone
    <3>1. editor'[h] = [editor[h] EXCEPT !.pc = "set", !.locked = editor[h].seen \intersect Defaults]
      BY <1>0, <2>2 DEF TypeOK
    <3> QED BY ONLY <2>1, <3>1 DEF Slot
  <2>4. \A x \in Editor \ {h} : editor'[x] = editor[x]
    BY <1>0, <2>2 DEF TypeOK
  <2>5. UNCHANGED <<row, choice, contended>>
    BY <1>10 DEF ClearDefaults
  <2>6. Defaults' = Defaults
    BY <2>5 DEF Defaults
  <2>7. OthersKnown(h)' /\ DefaultExists(h)'
    BY <2>1, <2>3, <2>4, <2>5, <2>6 DEF EditInv, DefaultSound, OthersKnown, DefaultExists, InDefault, At
  <2>8. ASSUME NEW x \in Editor \ {h}
        PROVE  OthersKnown(x)' /\ DefaultExists(x)'
    BY <2>1, <2>3, <2>4, <2>5, <2>6 DEF EditInv, DefaultSound, OthersKnown, DefaultExists, InDefault, At
  <2>9. contended' \/ \A q, s \in Defaults' : q = s
    BY <2>5, <2>6 DEF EditInv, DefaultSound
  <2>10. \A l \in List, q \in Resource : ChoiceSound(l, q)'
    BY <2>5 DEF EditInv, ChoiceSound, IsCurated
  <2> QED BY <1>0, <2>7, <2>8, <2>9, <2>10 DEF EditInv, DefaultSound
<1>11. ASSUME NEW h \in Editor, SetDefault(h)
       PROVE  EditInv'
  <2> DEFINE e == editor[h]
             k == <<"translations", e.id>>
  <2>1. /\ e \in Slot /\ e.id \in Resource /\ e.edit \in Edit /\ e.list = "translations"
        /\ "translations" \in List /\ k \in Key /\ InDefault(h) /\ At(h, "set")
    BY <1>0, <1>11, CatalogAssumption DEF TypeOK, Slot, SlotsSound, SetDefault, At, InDefault, Key
  <2>2. row' = [x \in Key |-> IF x = k THEN Applied(row[x], e.edit)
                              ELSE IF x[1] = "translations" /\ x[2] \in e.locked
                                   THEN [row[x] EXCEPT !.default = FALSE]
                              ELSE row[x]]
    BY <1>11, <2>1 DEF SetDefault
  <2>3. Committed(h, "translations", e.id, e.edit) /\ contended' = ~e.alone
    BY <1>11, <2>1 DEF SetDefault
  <2>4. row[k] \in Row /\ row[k].exists /\ row'[k] = Applied(row[k], e.edit)
    BY <1>0, <2>1, <2>2 DEF TypeOK, EditInv, DefaultExists
  <2>5. ASSUME NEW m \in List, NEW q \in Resource, <<m, q>> # k
        PROVE  /\ row'[<<m, q>>].exists = row[<<m, q>>].exists
               /\ row'[<<m, q>>].active = row[<<m, q>>].active
               /\ row'[<<m, q>>].default =>
                    row[<<m, q>>].default /\ ~(m = "translations" /\ q \in e.locked)
    <3>1. <<m, q>> \in Key /\ row[<<m, q>>] \in Row
      BY <1>0 DEF Key, TypeOK
    <3>2. row'[<<m, q>>] = IF m = "translations" /\ q \in e.locked
                           THEN [row[<<m, q>>] EXCEPT !.default = FALSE] ELSE row[<<m, q>>]
      BY <2>2, <2>5, <3>1
    <3> QED BY ONLY <3>1, <3>2 DEF Row
  <2> HIDE DEF k
  <2>6. \A m \in List, q \in Resource : ChoiceSound(m, q)'
    BY <2>1, <2>3, <2>4, <2>5, ChoiceMade DEF k
  <2>7. editor'[h].pc = "scan" /\ \A x \in Editor \ {h} : editor'[x] = editor[x]
    BY <1>0, <2>3 DEF Committed, IdleSlot, TypeOK
  <2>8. \A m \in List, q \in Resource : row[<<m, q>>].exists => row'[<<m, q>>].exists
    <3> TAKE m \in List, q \in Resource
    <3>1. CASE <<m, q>> = k
      BY <2>1, <2>4, <3>1, AppliedEffect
    <3>2. CASE <<m, q>> # k
      BY <2>5, <3>2
    <3> QED BY <3>1, <3>2
  <2>9. \A x \in Editor : DefaultExists(x)'
    <3> TAKE x \in Editor
    <3>1. CASE x = h
      BY <2>7, <3>1 DEF DefaultExists, InDefault
    <3>2. CASE x # h
      <4>1. editor[x].id \in Resource /\ editor'[x] = editor[x]
        BY <1>0, <2>7, <3>2 DEF TypeOK, Slot
      <4> QED BY <2>1, <2>8, <4>1 DEF DefaultExists, InDefault, EditInv
    <3> QED BY <3>1, <3>2
  <2>10. \A q \in Resource \ {e.id} : q \in Defaults' => q \in Defaults \ e.locked
    <3> TAKE q \in Resource \ {e.id}
    <3>1. <<"translations", q>> # k
      BY DEF k
    <3> QED BY <2>1, <2>5, <3>1 DEF Defaults
  <2>11. CASE e.alone
    <3>1. Defaults \ {e.id} \subseteq e.locked /\ \A x \in Editor \ {h} : ~InDefault(x)
      BY <2>1, <2>11 DEF EditInv, DefaultSound, OthersKnown
    <3>2. \A q \in Defaults' : q = e.id
      BY <2>10, <3>1 DEF Defaults
    <3>3. \A x \in Editor : ~InDefault(x)'
      BY <2>7, <3>1 DEF InDefault
    <3>4. DefaultSound'
      BY <3>2, <3>3 DEF DefaultSound, OthersKnown
    <3> QED BY <1>0, <2>6, <2>9, <3>4 DEF EditInv
  <2>12. CASE ~e.alone
    <3>1. \A x \in Editor : InDefault(x)' => x # h /\ InDefault(x) /\ editor'[x] = editor[x]
      BY <2>7 DEF InDefault
    <3>2. \A x \in Editor : ~(InDefault(x)' /\ editor'[x].alone)
      BY <2>1, <3>1 DEF EditInv, DefaultSound, OthersKnown
    <3>3. contended'
      BY <2>3, <2>12
    <3>4. DefaultSound'
      BY <3>2, <3>3 DEF DefaultSound, OthersKnown
    <3> QED BY <1>0, <2>6, <2>9, <3>4 DEF EditInv
  <2> QED BY <2>1, <2>11, <2>12 DEF Slot
<1> QED
  BY <1>2, <1>4, <1>5, <1>6, <1>7, <1>8, <1>9, <1>10, <1>11, EditsAreOfRows
     DEF Next, SyncStep, DropStep

LEMMA InitEdits == Init => EditInv
<1> SUFFICES ASSUME Init PROVE EditInv
  OBVIOUS
<1>1. TypeOK /\ SlotsSound /\ \A h \in Editor : ~InDefault(h)
  BY InitType DEF Init, SlotsSound, IdleSlot, At, InDefault
<1>2. \A r \in Resource : ~row[<<"translations", r>>].default
  <2> TAKE r \in Resource
  <2>1. <<"translations", r>> \in Key
    BY CatalogAssumption DEF Key
  <2> QED BY <2>1 DEF Init, NoRow, Created
<1>3. \A l \in List, r \in Resource : choice[<<l, r>>] = "same"
  BY DEF Init, Key
<1> QED BY <1>1, <1>2, <1>3 DEF EditInv, DefaultSound, OthersKnown, DefaultExists, ChoiceSound, Defaults

LEMMA EditsInvariance == Spec => []EditInv
BY InitEdits, NextEdits, PTL DEF Spec

(***************************************************************************)
(* However edits, syncs and settings of the default interleave, two        *)
(* translations are the default only when two were being set at once.      *)
(***************************************************************************)
THEOREM OneDefaultAtMost == Spec => []OneDefault
<1>1. EditInv => OneDefault
  <2> SUFFICES ASSUME EditInv, ~contended PROVE Cardinality(Defaults) <= 1
    BY DEF OneDefault
  <2>1. \A r, q \in Defaults : r = q
    BY DEF EditInv, DefaultSound
  <2>2. CASE Defaults = {}
    BY <2>2, FS_EmptySet
  <2>3. CASE Defaults # {}
    <3>1. PICK r : r \in Defaults
      BY <2>3
    <3>2. Defaults = {r}
      BY <2>1, <3>1
    <3> QED BY <3>2, FS_Singleton
  <2> QED BY <2>2, <2>3
<1> QED BY <1>1, EditsInvariance, PTL

(***************************************************************************)
(* What an administrator has switched on or off stays so through every     *)
(* sync that still lists it, but for curated translations coming back on.  *)
(***************************************************************************)
THEOREM ChoicesAlwaysStand == Spec => []ChoicesStand
<1>1. EditInv => ChoicesStand
  BY DEF EditInv, ChoiceSound, ChoicesStand
<1> QED BY <1>1, EditsInvariance, PTL

----------------------------------------------------------------------------
(* Pages: what is true of a command wherever it is.                        *)

RowValue == {l[p] : l \in Layout, p \in Page} \union {NoVerses}
Contents == RowValue \union PageRows

Job == [pc: JobPc, mushaf: Mushaf, clone: BOOLEAN, page: Page, payload: PageRows,
        seen: SUBSET Verse, alone: BOOLEAN, found: SUBSET Watched]

(* The types with the fields that PagesTypeOK says nothing of. *)
PagesTypes ==
  /\ PagesTypeOK
  /\ job \in [Runner -> Job]
  /\ cached \in [Watched -> [kind: {"none", "raw", "envelope"}, value: Contents]]
  /\ loading \in [Watched -> [pc: {"none", "read", "write"}, value: Contents]]

(* Each verse is on exactly one page. *)
Exact(l) ==
  \A v \in Verse : \E p \in Page :
    /\ v \in VersesOf(l[p])
    /\ \A q \in Page \ {p} : v \notin VersesOf(l[q])

AtWork(r) == r.pc \in {"fetch", "upsert", "cache", "check"}

(* The pages a command has fetched, has written, and has cached. *)
Fetched(r) == {q \in Page : q < r.page \/ (q = r.page /\ r.pc # "fetch")}
Put(r) == {q \in Page : q < r.page \/ (q = r.page /\ r.pc \in {"cache", "check"})}
Shown(r) == {q \in Page : q < r.page \/ (q = r.page /\ r.pc = "check")}

(* What a command holds: a crawl has seen the verses of the pages it has   *)
(* fetched, none of them on two; a clone that was alone holds an edition   *)
(* that is whole.                                                          *)
Sound(r) ==
  /\ r.pc = "source" => r.clone /\ r.page = 1
  /\ r.pc = "fetch" => ~r.clone
  /\ r.pc = "check" => r.page = PageCount
  /\ AtWork(r) /\ ~r.clone =>
       /\ r.seen = UNION {VersesOf(r.payload[q]) : q \in Fetched(r)}
       /\ \A p, q \in Fetched(r) :
            p # q => VersesOf(r.payload[p]) \intersect VersesOf(r.payload[q]) = {}
  /\ AtWork(r) /\ r.clone /\ r.alone => Exact(r.payload)

(* An entry says what the rows say, or is known to have been overtaken. *)
Current(k) ==
  k \in Watched \ overtaken => cached[k].kind = "none" \/ cached[k].value = RowOf(k)

(* What it has left in the rows and in the cache. *)
LeavesBehind(j) ==
  LET r == job[j]  m == r.mushaf IN
  /\ AtWork(r) /\ r.alone =>
       /\ \A q \in Put(r) : pageRow[m][q] = r.payload[q]
       /\ \A q \in Shown(r) : Current(<<"page", m, q>>)
  /\ AtWork(r) /\ Put(r) # {} => ~whole[m]
  /\ r.pc = "list" /\ whole[m] => r.payload = pageRow[m]

OnItsOwn(j) == job[j].pc # "idle" /\ job[j].alone => On(job[j].mushaf) = {j}

(* The command is still to replace or to drop an entry. *)
WillDrop(j, k) ==
  \/ k[1] = "list" /\ job[j].pc = "list"
  \/ k[1] = "verses" /\ job[j].pc \in {"list", "scan"}
  \/ k[1] = "verses" /\ job[j].pc = "delete" /\ k \in job[j].found

Served(k) ==
  whole[k[2]] => Current(k) \/ \E j \in On(k[2]) : WillDrop(j, k)

PagesInv ==
  /\ PagesTypes /\ WholeEditions
  /\ \A j \in Runner : Sound(job[j]) /\ LeavesBehind(j) /\ OnItsOwn(j)
  /\ \A k \in Watched : Served(k)
----------------------------------------------------------------------------
(* Pages: lemmas. *)

LEMMA PageBounds == Page \subseteq Nat /\ 1 \in Page /\ PageCount \in Page
BY PagesAssumption DEF Page

LEMMA RowTypes ==
  ASSUME PagesTypes
  PROVE  /\ \A p \in Page : upstream[p] \in RowValue
         /\ \A m \in Mushaf : pageRow[m] \in PageRows
         /\ \A m \in Mushaf, p \in Page : pageRow[m][p] \in RowValue
         /\ \A r \in Job, p \in Page : r.payload[p] \in RowValue
         /\ \A r \in Job, p \in Page : VersesOf(r.payload[p]) \subseteq Verse
<1>1. \A p \in Page : upstream[p] \in RowValue
  BY PagesAssumption DEF PagesTypes, PagesTypeOK, RowValue
<1>2. PageRows = [Page -> RowValue]
  BY DEF PageRows, RowValue
<1>3. \A s \in RowValue : s \in Seq(Verse)
  <2>1. ASSUME NEW l \in Layout, NEW p \in Page PROVE l[p] \in Seq(Verse)
    BY PagesAssumption
  <2>2. NoVerses \in Seq(Verse)
    BY DEF NoVerses
  <2> QED BY <2>1, <2>2 DEF RowValue
<1>4. \A s \in RowValue : VersesOf(s) \subseteq Verse
  BY <1>3 DEF VersesOf
<1> QED BY <1>1, <1>2, <1>4 DEF PagesTypes, PagesTypeOK, Job

LEMMA WatchedParts ==
  ASSUME NEW k \in Watched
  PROVE  /\ k[2] \in Mushaf /\ k[1] \in {"page", "verses", "list"}
         /\ k[1] # "list" => k[3] \in Page /\ k = <<k[1], k[2], k[3]>>
         /\ k[1] = "list" => k = <<"list", k[2], 0>>
<1>1. CASE k \in {"page", "verses"} \X Mushaf \X Page
  BY <1>1
<1>2. CASE k \in {"list"} \X Mushaf \X {0}
  BY <1>2
<1> QED BY <1>1, <1>2, PagesAssumption

LEMMA RowOfTyped ==
  ASSUME PagesTypes, NEW k \in Watched
  PROVE  RowOf(k) \in Contents
BY RowTypes, WatchedParts DEF RowOf, Contents

LEMMA IdleJobTyped == IdleJob \in Job /\ IdleJob.pc = "idle" /\ Sound(IdleJob)
<1>1. (CHOOSE m \in Mushaf : TRUE) \in Mushaf
  BY PagesAssumption
<1>2. [p \in Page |-> NoVerses] \in PageRows
  BY DEF PageRows
<1>3. IdleJob \in Job /\ IdleJob.pc = "idle"
  BY <1>1, <1>2, PageBounds DEF IdleJob, Job, JobPc
<1> QED BY <1>3 DEF Sound, AtWork

(* A row that other commands may have written is still what it was, where  *)
(* it matters; so is what a command says of it.                            *)
LEMMA LeavesBehindKept ==
  ASSUME PagesTypes, NEW i \in Runner, LeavesBehind(i),
         job'[i] \in {job[i], [job[i] EXCEPT !.alone = FALSE]},
         job'[i].alone /\ AtWork(job[i]) =>
           /\ pageRow'[job[i].mushaf] = pageRow[job[i].mushaf]
           /\ \A q \in Page : Current(<<"page", job[i].mushaf, q>>) =>
                              Current(<<"page", job[i].mushaf, q>>)',
         whole'[job[i].mushaf] =>
           whole[job[i].mushaf] /\ pageRow'[job[i].mushaf] = pageRow[job[i].mushaf]
  PROVE  LeavesBehind(i)'
<1>1. job[i] \in Job
  BY DEF PagesTypes
<1>2. /\ job'[i].pc = job[i].pc /\ job'[i].mushaf = job[i].mushaf /\ job'[i].page = job[i].page
      /\ job'[i].payload = job[i].payload /\ (job'[i].alone => job[i].alone)
  BY <1>1 DEF Job
<1>3. /\ Put(job'[i]) = Put(job[i]) /\ Shown(job'[i]) = Shown(job[i])
      /\ AtWork(job'[i]) = AtWork(job[i])
  BY <1>2 DEF Put, Shown, AtWork
<1>4. Put(job[i]) \subseteq Page /\ Shown(job[i]) \subseteq Page
  BY DEF Put, Shown
<1>5. ASSUME AtWork(job'[i]), job'[i].alone
      PROVE  /\ \A q \in Put(job'[i]) : pageRow'[job'[i].mushaf][q] = job'[i].payload[q]
             /\ \A q \in Shown(job'[i]) : Current(<<"page", job[i].mushaf, q>>)'
  BY <1>2, <1>3, <1>4, <1>5 DEF LeavesBehind
<1>6. AtWork(job'[i]) /\ Put(job'[i]) # {} => ~whole'[job'[i].mushaf]
  BY <1>2, <1>3 DEF LeavesBehind
<1>7. job'[i].pc = "list" /\ whole'[job'[i].mushaf] =>
        job'[i].payload = pageRow'[job'[i].mushaf]
  BY <1>2 DEF LeavesBehind
<1> QED BY <1>5, <1>6, <1>7 DEF LeavesBehind

LEMMA SoundKept ==
  ASSUME NEW r \in Job, Sound(r)
  PROVE  Sound([r EXCEPT !.alone = FALSE])
<1> DEFINE s == [r EXCEPT !.alone = FALSE]
<1>1. /\ s.pc = r.pc /\ s.clone = r.clone /\ s.page = r.page /\ s.seen = r.seen
      /\ s.payload = r.payload /\ s.alone = FALSE
  BY DEF Job
<1>2. Fetched(s) = Fetched(r) /\ AtWork(s) = AtWork(r)
  BY <1>1 DEF Fetched, AtWork
<1> HIDE DEF s
<1>3. Sound(s)
  BY <1>1, <1>2 DEF Sound
<1> QED BY <1>3 DEF s

(* What a step has to show that leaves rows and commands as they are.      *)
LEMMA ReadersKeep ==
  ASSUME PagesInv, PagesTypes', UNCHANGED <<pageRow, whole, job>>,
         \A k \in Watched : Current(k) => Current(k)'
  PROVE  PagesInv'
<1>1. WholeEditions'
  BY DEF PagesInv, WholeEditions
<1>2. ASSUME NEW m \in Mushaf, NEW q \in Page, Current(<<"page", m, q>>)
      PROVE  Current(<<"page", m, q>>)'
  <2>1. CASE <<"page", m, q>> \in Watched
    BY <1>2, <2>1
  <2>2. CASE <<"page", m, q>> \notin Watched
    BY <2>2 DEF Current
  <2> QED BY <2>1, <2>2
<1>3. ASSUME NEW i \in Runner
      PROVE  Sound(job'[i]) /\ LeavesBehind(i)' /\ OnItsOwn(i)'
  <2>1. job[i] \in Job /\ job'[i] = job[i]
    BY DEF PagesInv, PagesTypes
  <2>2. job[i].mushaf \in Mushaf
    BY <2>1 DEF Job
  <2>3. LeavesBehind(i)'
    BY <2>1, <2>2, <1>2, <1>3, LeavesBehindKept DEF PagesInv
  <2>4. Sound(job'[i])
    BY <2>1 DEF PagesInv
  <2>5. OnItsOwn(i)'
    BY DEF PagesInv, OnItsOwn, On
  <2> QED BY <2>3, <2>4, <2>5
<1>4. ASSUME NEW k \in Watched
      PROVE  Served(k)'
  <2>1. Served(k)
    BY DEF PagesInv
  <2> QED BY <2>1, <1>4 DEF Served, On, WillDrop
<1> QED BY <1>1, <1>3, <1>4 DEF PagesInv

(* What a step of command j has to show: it stays on its edition, and what *)
(* belongs to the others stays as true as it was.                          *)
LEMMA CommandKeeps ==
  ASSUME PagesInv, NEW j \in Runner, PagesTypes', WholeEditions',
         job[j].pc # "idle",
         \A i \in Runner \ {j} : job'[i] = job[i],
         job'[j].pc # "idle" => /\ job'[j].mushaf = job[j].mushaf
                                /\ job'[j].alone => job[j].alone,
         \A m \in Mushaf \ {job[j].mushaf} : pageRow'[m] = pageRow[m] /\ whole'[m] = whole[m],
         \/ job[j].alone \/ ~whole'[job[j].mushaf]
         \/ /\ whole'[job[j].mushaf] = whole[job[j].mushaf]
            /\ pageRow'[job[j].mushaf] = pageRow[job[j].mushaf],
         \A k \in Watched : k[2] # job[j].mushaf /\ Current(k) => Current(k)',
         Sound(job'[j]), LeavesBehind(j)',
         \A k \in Watched : k[2] = job[j].mushaf => Served(k)'
  PROVE  PagesInv'
<1>0. /\ \A i \in Runner : job[i] \in Job /\ job'[i] \in Job
      /\ \A i \in Runner : Sound(job[i]) /\ LeavesBehind(i) /\ OnItsOwn(i)
  BY DEF PagesInv, PagesTypes
<1>1. \A m \in Mushaf : On(m)' \subseteq On(m)
  BY <1>0 DEF On
<1>2. ASSUME NEW i \in Runner
      PROVE  OnItsOwn(i)'
  <2>1. SUFFICES ASSUME job'[i].pc # "idle", job'[i].alone
                 PROVE  On(job[i].mushaf)' = {i} /\ job'[i].mushaf = job[i].mushaf
    BY DEF OnItsOwn
  <2>2. job[i].pc # "idle" /\ job[i].alone /\ job'[i].mushaf = job[i].mushaf
    BY <2>1
  <2>3. On(job[i].mushaf) = {i}
    BY <2>2, <1>0 DEF OnItsOwn
  <2>4. i \in On(job[i].mushaf)'
    BY <2>1, <2>2 DEF On
  <2> QED BY <2>2, <2>3, <2>4, <1>1, <1>0 DEF Job
<1>3. ASSUME NEW m \in Mushaf \ {job[j].mushaf}, NEW q \in Page, Current(<<"page", m, q>>)
      PROVE  Current(<<"page", m, q>>)'
  <2>1. CASE <<"page", m, q>> \in Watched
    BY <1>3, <2>1
  <2>2. CASE <<"page", m, q>> \notin Watched
    BY <2>2 DEF Current
  <2> QED BY <2>1, <2>2
<1>4. ASSUME NEW i \in Runner \ {j}
      PROVE  LeavesBehind(i)'
  <2>1. job[i] \in Job /\ job'[i] = job[i] /\ LeavesBehind(i) /\ job[i].mushaf \in Mushaf
    BY <1>0 DEF Job
  <2>2. CASE job[i].mushaf # job[j].mushaf
    BY <2>1, <2>2, <1>3, LeavesBehindKept DEF PagesInv
  <2>3. CASE job[i].mushaf = job[j].mushaf /\ job[i].pc # "idle"
    <3>1. i \in On(job[j].mushaf) /\ j \in On(job[j].mushaf) /\ i # j
      BY <2>3 DEF On
    <3>2. ~job[j].alone /\ ~job[i].alone
      BY <3>1, <1>0, <2>3 DEF OnItsOwn
    <3>3. whole'[job[i].mushaf] => /\ whole[job[i].mushaf]
                                   /\ pageRow'[job[i].mushaf] = pageRow[job[i].mushaf]
      BY <3>2, <2>3
    <3> QED BY <2>1, <3>2, <3>3, LeavesBehindKept DEF PagesInv
  <2>4. CASE job[i].pc = "idle"
    BY <2>1, <2>4 DEF LeavesBehind, AtWork
  <2> QED BY <2>2, <2>3, <2>4
<1>5. ASSUME NEW k \in Watched
      PROVE  Served(k)'
  <2>1. CASE k[2] = job[j].mushaf
    BY <2>1
  <2>2. CASE k[2] # job[j].mushaf
    <3>1. k[2] \in Mushaf \ {job[j].mushaf} /\ Served(k)
      BY <2>2, WatchedParts DEF PagesInv
    <3>2. \A i \in On(k[2]) : i # j /\ i \in On(k[2])' /\ (WillDrop(i, k) => WillDrop(i, k)')
      BY <2>2 DEF On, WillDrop
    <3> QED BY <3>1, <3>2, <2>2 DEF Served
  <2> QED BY <2>1, <2>2
<1>6. \A i \in Runner : Sound(job'[i])
  BY <1>0
<1> QED BY <1>2, <1>4, <1>5, <1>6 DEF PagesInv

LEMMA UpstreamChangesKeeps ==
  ASSUME PagesInv, UpstreamChanges
  PROVE  PagesInv'
<1>1. PagesTypes'
  BY PagesAssumption DEF PagesInv, PagesTypes, PagesTypeOK, UpstreamChanges
<1>2. \A k \in Watched : Current(k) => Current(k)'
  BY DEF UpstreamChanges, Current, RowOf
<1> QED BY <1>1, <1>2, ReadersKeep DEF UpstreamChanges

(* A load that is under way changes nothing but itself. *)
LEMMA LoadMovesKeeps ==
  ASSUME PagesInv, NEW k \in Watched, LoadPage(k) \/ FindActivePages(k) \/ LoadPageFails(k)
  PROVE  PagesInv'
<1>1. RowOf(k) \in Contents
  BY RowOfTyped DEF PagesInv
<1>2. loading[k] \in [pc: {"none", "read", "write"}, value: Contents]
  BY DEF PagesInv, PagesTypes
<1>3. NotLoading \in [pc: {"none", "read", "write"}, value: Contents]
  BY DEF NotLoading, Contents, RowValue
<1>4. loading' \in [Watched -> [pc: {"none", "read", "write"}, value: Contents]]
  <2>1. PICK e \in [pc: {"none", "read", "write"}, value: Contents] :
          loading' = [loading EXCEPT ![k] = e]
    <3>1. CASE LoadPage(k)
      BY <3>1, <1>2 DEF LoadPage
    <3>2. CASE FindActivePages(k)
      BY <3>2, <1>1, <1>3 DEF FindActivePages
    <3>3. CASE LoadPageFails(k)
      BY <3>3, <1>3 DEF LoadPageFails
    <3> QED BY <3>1, <3>2, <3>3
  <2> QED BY <2>1 DEF PagesInv, PagesTypes
<1>5. UNCHANGED <<upstream, changes, pageRow, whole, job, runs, cached, overtaken>>
  BY DEF LoadPage, FindActivePages, LoadPageFails
<1>6. PagesTypes'
  BY <1>4, <1>5 DEF PagesInv, PagesTypes, PagesTypeOK
<1>7. \A w \in Watched : Current(w) => Current(w)'
  BY <1>5 DEF Current, RowOf
<1> QED BY <1>5, <1>6, <1>7, ReadersKeep

LEMMA EntryTypes ==
  /\ NoEntry \in [kind: {"none", "raw", "envelope"}, value: Contents]
  /\ \A v \in Contents : /\ [kind |-> "raw", value |-> v] \in [kind: {"none", "raw", "envelope"}, value: Contents]
                         /\ [kind |-> "envelope", value |-> v] \in [kind: {"none", "raw", "envelope"}, value: Contents]
BY DEF NoEntry, Contents, RowValue

(* What a load puts into the cache is what the rows say, or known not to be. *)
LEMMA WritePageKeeps ==
  ASSUME PagesInv, NEW k \in Watched, WritePage(k)
  PROVE  PagesInv'
<1>1. loading[k].value \in Contents /\ NotLoading \in [pc: {"none", "read", "write"}, value: Contents]
  BY DEF PagesInv, PagesTypes, NotLoading, Contents, RowValue
<1>2. PagesTypes'
  <2>1. cached' \in [Watched -> [kind: {"none", "raw", "envelope"}, value: Contents]]
    BY <1>1, EntryTypes DEF PagesInv, PagesTypes, WritePage
  <2>2. loading' \in [Watched -> [pc: {"none", "read", "write"}, value: Contents]]
    BY <1>1 DEF PagesInv, PagesTypes, WritePage
  <2>3. overtaken' \subseteq Watched
    BY DEF PagesInv, PagesTypes, PagesTypeOK, WritePage
  <2> QED BY <2>1, <2>2, <2>3 DEF PagesInv, PagesTypes, PagesTypeOK, WritePage
<1>3. ASSUME NEW w \in Watched, Current(w)
      PROVE  Current(w)'
  <2>1. RowOf(w)' = RowOf(w)
    BY DEF RowOf, WritePage
  <2>2. CASE w = k /\ loading[k].value = RowOf(k)
    <3>1. cached'[w].value = RowOf(w)
      BY <2>2 DEF PagesInv, PagesTypes, WritePage
    <3> QED BY <3>1, <2>1 DEF Current
  <2>3. CASE w = k /\ loading[k].value # RowOf(k)
    BY <2>3 DEF Current, WritePage
  <2>4. CASE w # k
    <3>1. cached'[w] = cached[w] /\ (w \in overtaken' <=> w \in overtaken)
      BY <2>4 DEF PagesInv, PagesTypes, WritePage
    <3> QED BY <3>1, <2>1, <1>3 DEF Current
  <2> QED BY <2>2, <2>3, <2>4
<1> QED BY <1>2, <1>3, ReadersKeep DEF WritePage

LEMMA EntryExpiresKeeps ==
  ASSUME PagesInv, NEW k \in Watched, EntryExpires(k)
  PROVE  PagesInv'
<1>1. PagesTypes'
  <2>1. cached' \in [Watched -> [kind: {"none", "raw", "envelope"}, value: Contents]]
    BY EntryTypes DEF PagesInv, PagesTypes, EntryExpires
  <2> QED BY <2>1 DEF PagesInv, PagesTypes, PagesTypeOK, EntryExpires
<1>2. ASSUME NEW w \in Watched, Current(w)
      PROVE  Current(w)'
  <2>1. CASE w = k
    BY <2>1 DEF Current, EntryExpires, NoEntry, PagesInv, PagesTypes
  <2>2. CASE w # k
    BY <2>2, <1>2 DEF Current, EntryExpires, RowOf, PagesInv, PagesTypes
  <2> QED BY <2>1, <2>2
<1> QED BY <1>1, <1>2, ReadersKeep DEF EntryExpires

(* A command that has just begun has fetched, written and cached nothing.  *)
LEMMA AtFirstPage ==
  ASSUME NEW r \in Job, r.page = 1
  PROVE  /\ r.pc = "fetch" => Fetched(r) = {}
         /\ r.pc \in {"source", "fetch", "upsert"} => Put(r) = {} /\ Shown(r) = {}
BY PageBounds DEF Fetched, Put, Shown, Page

LEMMA BeginKeeps ==
  ASSUME PagesInv, NEW j \in Runner, NEW m \in Mushaf, NEW c \in BOOLEAN, BeginCommand(j, m, c)
  PROVE  PagesInv'
<1>1. /\ job[j].pc = "idle" /\ runs' \in 0..MaxRuns
      /\ \A i \in Runner : job[i] \in Job /\ Sound(job[i]) /\ LeavesBehind(i) /\ OnItsOwn(i)
      /\ UNCHANGED <<upstream, changes, pageRow, whole, cached, loading, overtaken>>
  <2>1. runs' \in 0..MaxRuns
    <3>1. runs \in 0..MaxRuns
      BY DEF PagesInv, PagesTypes, PagesTypeOK
    <3>2. runs < MaxRuns /\ runs' = runs + 1
      BY DEF BeginCommand
    <3> QED BY <3>1, <3>2, PagesAssumption
  <2>2. \A i \in Runner : job[i] \in Job /\ Sound(job[i]) /\ LeavesBehind(i) /\ OnItsOwn(i)
    BY DEF PagesInv, PagesTypes
  <2> QED BY <2>1, <2>2 DEF BeginCommand
<1>2. PICK s : s = [IdleJob EXCEPT !.pc = IF c THEN "source" ELSE "fetch",
                        !.mushaf = m, !.clone = c, !.alone = On(m) = {}]
  OBVIOUS
<1>3. /\ s \in Job /\ s.pc = (IF c THEN "source" ELSE "fetch") /\ s.mushaf = m /\ s.clone = c
      /\ s.alone = (On(m) = {}) /\ s.page = 1 /\ s.seen = {} /\ s.pc # "idle"
  BY <1>2, IdleJobTyped DEF Job, JobPc, IdleJob
<1>4. /\ job'[j] = s
      /\ \A i \in Runner \ {j} :
           job'[i] = IF i \in On(m) THEN [job[i] EXCEPT !.alone = FALSE] ELSE job[i]
  BY <1>2 DEF BeginCommand
<1>5. \A i \in Runner \ {j} :
        /\ job'[i] \in Job /\ job'[i].pc = job[i].pc /\ job'[i].mushaf = job[i].mushaf
        /\ job'[i].found = job[i].found
        /\ job'[i].alone => job[i].alone /\ i \notin On(m)
        /\ job'[i] \in {job[i], [job[i] EXCEPT !.alone = FALSE]}
  <2>1. ASSUME NEW i \in Runner \ {j}, i \in On(m)
        PROVE  job'[i] = [job[i] EXCEPT !.alone = FALSE]
    BY <2>1, <1>4
  <2>2. ASSUME NEW i \in Runner \ {j}, i \notin On(m)
        PROVE  job'[i] = job[i]
    BY <2>2, <1>4
  <2>3. ASSUME NEW i \in Runner, NEW r \in Job, r = [job[i] EXCEPT !.alone = FALSE]
        PROVE  /\ r.pc = job[i].pc /\ r.mushaf = job[i].mushaf /\ r.found = job[i].found
               /\ r.alone = FALSE
    BY <2>3, <1>1 DEF Job
  <2>4. \A i \in Runner : [job[i] EXCEPT !.alone = FALSE] \in Job
    BY <1>1 DEF Job
  <2> QED BY <2>1, <2>2, <2>3, <2>4, <1>1
<1>6. PagesTypes'
  <2>1. \A i \in Runner : job'[i] \in Job
    BY <1>3, <1>4, <1>5
  <2>2. job' = [i \in Runner |-> job'[i]]
    BY DEF BeginCommand
  <2>3. job' \in [Runner -> Job]
    BY <2>1, <2>2
  <2>4. PagesTypeOK'
    BY <1>1, <2>1 DEF PagesInv, PagesTypes, PagesTypeOK, Job
  <2> QED BY <1>1, <2>3, <2>4 DEF PagesInv, PagesTypes
<1>7. WholeEditions'
  BY <1>1 DEF PagesInv, WholeEditions
<1>8. Sound(job'[j]) /\ LeavesBehind(j)'
  <2>1. (s.pc = "fetch" => Fetched(s) = {}) /\ Put(s) = {} /\ Shown(s) = {}
    BY <1>3, AtFirstPage
  <2>2. Sound(s)
    BY <1>3, <2>1 DEF Sound, AtWork
  <2>3. s.pc # "list"
    BY <1>3
  <2> QED BY <1>4, <2>1, <2>2, <2>3 DEF LeavesBehind
<1>9. \A k : Current(k) => Current(k)'
  BY <1>1 DEF Current, RowOf
<1>10. ASSUME NEW i \in Runner \ {j}
       PROVE  Sound(job'[i]) /\ LeavesBehind(i)'
  <2>1. Sound(job'[i])
    BY <1>1, <1>5, SoundKept
  <2>2. LeavesBehind(i)'
    <3>1. \A q \in Page : Current(<<"page", job[i].mushaf, q>>) =>
                            Current(<<"page", job[i].mushaf, q>>)'
      BY <1>9, <1>5
    <3> QED BY <1>1, <1>5, <1>9, LeavesBehindKept DEF PagesInv
  <2> QED BY <2>1, <2>2
<1>11. ASSUME NEW i \in Runner
       PROVE  OnItsOwn(i)'
  <2>1. CASE i = j
    <3>1. On(m) = {} => On(m)' = {j}
      BY <1>3, <1>4, <1>5, <1>1 DEF On
    <3> QED BY <2>1, <3>1, <1>3, <1>4 DEF OnItsOwn
  <2>2. CASE i # j
    <3>1. SUFFICES ASSUME job'[i].pc # "idle", job'[i].alone
                   PROVE  On(job[i].mushaf)' = {i} /\ job'[i].mushaf = job[i].mushaf
      BY DEF OnItsOwn
    <3>2. job[i].pc # "idle" /\ job[i].alone /\ job[i].mushaf # m
      BY <3>1, <2>2, <1>5 DEF On
    <3>3. On(job[i].mushaf) = {i}
      BY <3>2, <1>1 DEF OnItsOwn
    <3>4. On(job[i].mushaf)' = On(job[i].mushaf)
      BY <3>2, <2>2, <1>1, <1>3, <1>4, <1>5 DEF On
    <3> QED BY <3>3, <3>4, <2>2, <1>5
  <2> QED BY <2>1, <2>2
<1>12. ASSUME NEW k \in Watched
       PROVE  Served(k)'
  <2>1. Served(k)
    BY DEF PagesInv
  <2>2. \A i \in On(k[2]) : i # j /\ i \in On(k[2])' /\ (WillDrop(i, k) => WillDrop(i, k)')
    BY <1>1, <1>5 DEF On, WillDrop
  <2> QED BY <2>1, <2>2, <1>1, <1>9 DEF Served
<1> QED BY <1>6, <1>7, <1>8, <1>10, <1>11, <1>12 DEF PagesInv

(* A step of a command that leaves rows and cache as they are.             *)
LEMMA OnlyMovesKeeps ==
  ASSUME PagesInv, NEW j \in Runner, job[j].pc # "idle",
         job' = [job EXCEPT ![j] = job'[j]], job'[j] \in Job,
         UNCHANGED <<upstream, changes, pageRow, runs, cached, loading, overtaken>>,
         job'[j].pc # "idle" => /\ job'[j].mushaf = job[j].mushaf
                                /\ job'[j].alone => job[j].alone,
         \/ whole' = whole
         \/ /\ whole' = [whole EXCEPT ![job[j].mushaf] = whole'[job[j].mushaf]]
            /\ job[j].alone \/ ~whole'[job[j].mushaf]
            /\ whole'[job[j].mushaf] => Exact(pageRow[job[j].mushaf]),
         whole'[job[j].mushaf] \in BOOLEAN,
         Sound(job'[j]), LeavesBehind(j)',
         \A k \in Watched : k[2] = job[j].mushaf => Served(k)'
  PROVE  PagesInv'
<1>1. \A i \in Runner \ {j} : job'[i] = job[i]
  BY DEF PagesInv, PagesTypes
<1>2. job' \in [Runner -> Job] /\ job[j] \in Job /\ job[j].mushaf \in Mushaf
  BY DEF PagesInv, PagesTypes, Job
<1>3. whole' \in [Mushaf -> BOOLEAN] /\ \A m \in Mushaf \ {job[j].mushaf} : whole'[m] = whole[m]
  BY <1>2 DEF PagesInv, PagesTypes, PagesTypeOK
<1>4. \A i \in Runner : job'[i] \in Job
  BY <1>2
<1>5. PagesTypes'
  <2>1. \A i \in Runner : /\ job'[i].pc \in JobPc /\ job'[i].mushaf \in Mushaf /\ job'[i].page \in Page
                          /\ job'[i].payload \in PageRows
                          /\ job'[i].seen \subseteq Verse /\ job'[i].found \subseteq Watched
    BY <1>4 DEF Job
  <2>2. PagesTypeOK'
    BY <1>3, <2>1 DEF PagesInv, PagesTypes, PagesTypeOK
  <2> QED BY <1>2, <2>2 DEF PagesInv, PagesTypes
<1>6. WholeEditions'
  <2>1. \A m \in Mushaf : whole'[m] => Exact(pageRow[m])
    BY <1>3 DEF PagesInv, WholeEditions, Exact
  <2> QED BY <2>1 DEF WholeEditions, Exact
<1>7. \A k \in Watched : Current(k) => Current(k)'
  BY DEF Current, RowOf
<1>8. \A m \in Mushaf \ {job[j].mushaf} : pageRow'[m] = pageRow[m] /\ whole'[m] = whole[m]
  BY <1>3
<1>9. \/ job[j].alone \/ ~whole'[job[j].mushaf]
      \/ /\ whole'[job[j].mushaf] = whole[job[j].mushaf]
         /\ pageRow'[job[j].mushaf] = pageRow[job[j].mushaf]
  OBVIOUS
<1> QED BY <1>1, <1>5, <1>6, <1>7, <1>8, <1>9, CommandKeeps

(* What is served stays right when a command moves on that was not to drop *)
(* it, or is still to, or has.                                             *)
LEMMA ServedKept ==
  ASSUME PagesInv, NEW j \in Runner, NEW k \in Watched,
         \A i \in Runner \ {j} : job'[i] = job[i],
         whole'[k[2]] => whole[k[2]],
         Current(k) => Current(k)',
         j \in On(k[2]) /\ WillDrop(j, k) =>
           Current(k)' \/ ~whole'[k[2]] \/ (j \in On(k[2])' /\ WillDrop(j, k)')
  PROVE  Served(k)'
<1>1. Served(k)
  BY DEF PagesInv
<1>2. SUFFICES ASSUME whole'[k[2]], ~Current(k)'
               PROVE  \E i \in On(k[2])' : WillDrop(i, k)'
  BY DEF Served
<1>3. PICK i \in On(k[2]) : WillDrop(i, k)
  BY <1>1, <1>2 DEF Served
<1>4. CASE i = j
  BY <1>2, <1>3, <1>4
<1>5. CASE i # j
  BY <1>3, <1>5 DEF On, WillDrop
<1> QED BY <1>4, <1>5

LEMMA ReadSourceKeeps ==
  ASSUME PagesInv, NEW j \in Runner, ReadSource(j)
  PROVE  PagesInv'
<1>1. /\ job[j] \in Job /\ job[j].pc = "source" /\ job[j].clone /\ job[j].page = 1
      /\ job[j].mushaf \in Mushaf /\ Sound(job[j])
  BY DEF PagesInv, PagesTypes, ReadSource, Sound, Job
<1>2. UNCHANGED <<upstream, changes, pageRow, whole, runs, cached, loading, overtaken>>
  BY DEF ReadSource
<1>3. /\ job' = [job EXCEPT ![j] = job'[j]] /\ job'[j] \in Job
      /\ \/ job'[j] = IdleJob
         \/ /\ job'[j].pc = "upsert" /\ job'[j].mushaf = job[j].mushaf
            /\ job'[j].clone /\ job'[j].page = 1
            /\ job'[j].alone => job[j].alone /\ Exact(job'[j].payload)
  <2>1. PICK s \in Mushaf :
          \/ job' = [job EXCEPT ![j].pc = "upsert", ![j].payload = pageRow[s],
                       ![j].alone = @ /\ whole[s] /\ On(s) = {}]
          \/ job' = [job EXCEPT ![j] = IdleJob]
    BY DEF ReadSource
  <2>2. CASE job' = [job EXCEPT ![j] = IdleJob]
    BY <2>2, IdleJobTyped DEF PagesInv, PagesTypes
  <2>3. CASE job' = [job EXCEPT ![j].pc = "upsert", ![j].payload = pageRow[s],
                       ![j].alone = @ /\ whole[s] /\ On(s) = {}]
    <3>1. PICK a : a = (job[j].alone /\ whole[s] /\ On(s) = {})
      OBVIOUS
    <3>2. a \in BOOLEAN /\ (a => job[j].alone /\ whole[s])
      BY <3>1
    <3>3. job'[j] = [job[j] EXCEPT !.pc = "upsert", !.payload = pageRow[s], !.alone = a]
      BY <2>3, <3>1 DEF PagesInv, PagesTypes
    <3>4. pageRow[s] \in PageRows
      BY RowTypes DEF PagesInv
    <3>5. whole[s] => Exact(pageRow[s])
      BY DEF PagesInv, WholeEditions, Exact
    <3>6. job' = [job EXCEPT ![j] = job'[j]]
      BY <2>3 DEF PagesInv, PagesTypes
    <3>7. /\ job'[j].pc = "upsert" /\ job'[j].payload = pageRow[s]
          /\ job'[j].mushaf = job[j].mushaf /\ job'[j].page = job[j].page
      BY <1>1, <3>2, <3>3 DEF Job
    <3>9. (job'[j].alone => a) /\ job'[j].clone
      BY <1>1, <3>2, <3>3 DEF Job
    <3>8. job'[j] \in Job
      BY <1>1, <3>2, <3>3, <3>4 DEF Job, JobPc
    <3> QED BY <1>1, <3>2, <3>5, <3>6, <3>7, <3>8, <3>9
  <2> QED BY <2>1, <2>2, <2>3
<1>4. Sound(job'[j]) /\ LeavesBehind(j)'
  <2>1. CASE job'[j] = IdleJob
    BY <2>1, IdleJobTyped DEF LeavesBehind, AtWork
  <2>2. CASE job'[j].pc = "upsert" /\ job'[j].clone /\ job'[j].page = 1
             /\ (job'[j].alone => Exact(job'[j].payload))
    <3>1. Put(job'[j]) = {} /\ Shown(job'[j]) = {}
      BY <2>2, <1>3, AtFirstPage
    <3> QED BY <2>2, <3>1 DEF Sound, LeavesBehind
  <2> QED BY <1>3, <2>1, <2>2
<1>5. ASSUME NEW k \in Watched
      PROVE  Served(k)'
  <2>1. ~WillDrop(j, k)
    BY <1>1 DEF WillDrop
  <2>2. Current(k) => Current(k)'
    BY <1>2 DEF Current, RowOf
  <2>3. \A i \in Runner \ {j} : job'[i] = job[i]
    BY <1>3 DEF PagesInv, PagesTypes
  <2> QED BY <2>1, <2>2, <2>3, <1>2, ServedKept
<1>6. whole'[job[j].mushaf] \in BOOLEAN
  BY <1>1, <1>2 DEF PagesInv, PagesTypes, PagesTypeOK
<1>7. job'[j].pc # "idle" => job'[j].mushaf = job[j].mushaf /\ (job'[j].alone => job[j].alone)
  BY <1>3, IdleJobTyped
<1> QED BY <1>1, <1>2, <1>3, <1>4, <1>5, <1>6, <1>7, OnlyMovesKeeps

LEMMA CommandEndsKeeps ==
  ASSUME PagesInv, NEW j \in Runner, CommandEnds(j)
  PROVE  PagesInv'
<1>1. job[j] \in Job /\ job[j].pc # "idle" /\ job[j].mushaf \in Mushaf
  BY DEF PagesInv, PagesTypes, CommandEnds, Job
<1>2. UNCHANGED <<upstream, changes, pageRow, runs, cached, loading, overtaken>>
  BY DEF CommandEnds
<1>3. job' = [job EXCEPT ![j] = IdleJob] /\ job'[j] = IdleJob
  BY DEF CommandEnds, PagesInv, PagesTypes
<1>4. PICK w : w = (whole[job[j].mushaf] /\ job[j].pc \in {"source", "fetch"} /\ job[j].page = 1)
  OBVIOUS
<1>5. w \in BOOLEAN /\ (w => whole[job[j].mushaf] /\ job[j].pc \in {"source", "fetch"})
  BY <1>4
<1>6. whole' = [whole EXCEPT ![job[j].mushaf] = w] /\ whole'[job[j].mushaf] = w
  BY <1>1, <1>4 DEF CommandEnds, PagesInv, PagesTypes, PagesTypeOK
<1>7. Sound(job'[j]) /\ LeavesBehind(j)'
  BY <1>3, IdleJobTyped DEF LeavesBehind, AtWork
<1>8. whole[job[j].mushaf] => Exact(pageRow[job[j].mushaf])
  BY <1>1 DEF PagesInv, WholeEditions, Exact
<1>9. ASSUME NEW k \in Watched, k[2] = job[j].mushaf
      PROVE  Served(k)'
  <2>1. w => ~WillDrop(j, k)
    BY <1>5 DEF WillDrop
  <2>2. Current(k) => Current(k)'
    BY <1>2 DEF Current, RowOf
  <2>3. \A i \in Runner \ {j} : job'[i] = job[i]
    BY <1>3 DEF PagesInv, PagesTypes
  <2> QED BY <2>1, <2>2, <2>3, <1>5, <1>6, <1>9, ServedKept
<1>10. \A i \in Runner \ {j} : job'[i] = job[i]
  BY <1>3 DEF PagesInv, PagesTypes
<1>11. whole'[job[j].mushaf] = w /\ (w => whole[job[j].mushaf])
  BY <1>5, <1>6
<1>12. PagesTypes' /\ WholeEditions'
  <2>1. whole' \in [Mushaf -> BOOLEAN] /\ \A m \in Mushaf : whole'[m] => whole[m]
    BY <1>1, <1>5, <1>6 DEF PagesInv, PagesTypes, PagesTypeOK
  <2>2. job' \in [Runner -> Job]
    BY <1>3, IdleJobTyped DEF PagesInv, PagesTypes
  <2>3. \A i \in Runner : job'[i] \in Job
    BY <2>2
  <2>4. PagesTypeOK'
    BY <1>2, <2>1, <2>3 DEF PagesInv, PagesTypes, PagesTypeOK, Job
  <2> QED BY <1>2, <2>1, <2>2, <2>4 DEF PagesInv, PagesTypes, WholeEditions
<1>13. \A m \in Mushaf \ {job[j].mushaf} : pageRow'[m] = pageRow[m] /\ whole'[m] = whole[m]
  BY <1>2, <1>6, <1>1 DEF PagesInv, PagesTypes, PagesTypeOK
<1>14. \A k \in Watched : Current(k) => Current(k)'
  BY <1>2 DEF Current, RowOf
<1>15. \/ job[j].alone \/ ~whole'[job[j].mushaf]
       \/ /\ whole'[job[j].mushaf] = whole[job[j].mushaf]
          /\ pageRow'[job[j].mushaf] = pageRow[job[j].mushaf]
  BY <1>1, <1>2, <1>5, <1>11 DEF PagesInv, PagesTypes, PagesTypeOK
<1> QED BY <1>1, <1>3, <1>7, <1>9, <1>10, <1>12, <1>13, <1>14, <1>15, IdleJobTyped, CommandKeeps

(* What a page adds to a crawl: its verses are on no page before it.       *)
LEMMA FetchSound ==
  ASSUME NEW r \in Job, Sound(r), r.pc = "fetch", NEW verses \in RowValue,
         VersesOf(verses) \subseteq Verse, VersesOf(verses) \intersect r.seen = {},
         NEW s \in Job, s.pc = "upsert", s.clone = r.clone, s.page = r.page,
         s.payload = [r.payload EXCEPT ![r.page] = verses],
         s.seen = r.seen \union VersesOf(verses)
  PROVE  Sound(s) /\ Put(s) = Put(r) /\ Shown(s) = Shown(r) /\ \A q \in Put(r) : s.payload[q] = r.payload[q]
<1>1. r.page \in Page /\ r.page \in Nat /\ r.payload \in [Page -> RowValue] /\ ~r.clone
  <2>1. ~r.clone
    BY DEF Sound
  <2>2. r.payload \in PageRows /\ PageRows = [Page -> RowValue]
    BY DEF Job, PageRows, RowValue
  <2> QED BY <2>1, <2>2, PageBounds DEF Job
<1>2. /\ Fetched(r) = {q \in Page : q < r.page}
      /\ Fetched(s) = Fetched(r) \union {r.page} /\ r.page \notin Fetched(r)
  BY <1>1, PageBounds DEF Fetched
<1>3. s.payload[r.page] = verses /\ \A q \in Page \ {r.page} : s.payload[q] = r.payload[q]
  BY <1>1
<1>4. /\ r.seen = UNION {VersesOf(r.payload[q]) : q \in Fetched(r)}
      /\ \A p, q \in Fetched(r) :
           p # q => VersesOf(r.payload[p]) \intersect VersesOf(r.payload[q]) = {}
  BY <1>1 DEF Sound, AtWork
<1>5. Fetched(r) \subseteq Page
  BY DEF Fetched
<1>6. \A q \in Fetched(r) : s.payload[q] = r.payload[q] /\ VersesOf(r.payload[q]) \subseteq r.seen
  BY <1>2, <1>3, <1>4, <1>5
<1>7. s.seen = UNION {VersesOf(s.payload[q]) : q \in Fetched(s)}
  BY <1>2, <1>3, <1>4, <1>6
<1>8. \A p, q \in Fetched(s) :
        p # q => VersesOf(s.payload[p]) \intersect VersesOf(s.payload[q]) = {}
  <2>1. \A q \in Fetched(r) : VersesOf(s.payload[q]) \intersect VersesOf(verses) = {}
    BY <1>6
  <2> QED BY <2>1, <1>2, <1>3, <1>4, <1>6
<1>9. Sound(s)
  BY <1>1, <1>7, <1>8 DEF Sound, AtWork
<1>10. Put(r) = {q \in Page : q < r.page} /\ Put(s) = Put(r) /\ Shown(s) = Shown(r)
  BY DEF Put, Shown
<1> QED BY <1>2, <1>6, <1>9, <1>10

LEMMA FetchKeeps ==
  ASSUME PagesInv, NEW j \in Runner, FetchAllVersesForPage(j)
  PROVE  PagesInv'
<1>1. /\ job[j] \in Job /\ job[j].pc = "fetch" /\ job[j].mushaf \in Mushaf /\ job[j].page \in Page
      /\ Sound(job[j]) /\ LeavesBehind(j)
  BY DEF PagesInv, PagesTypes, FetchAllVersesForPage, Job
<1>2. UNCHANGED <<upstream, changes, pageRow, whole, runs, cached, loading, overtaken>>
  BY DEF FetchAllVersesForPage
<1>3. PICK verses \in RowValue : verses = upstream[job[j].page]
  BY <1>1, RowTypes DEF PagesInv
<1>4. VersesOf(verses) \subseteq Verse
  <2>1. verses \in Seq(Verse)
    BY <1>1, <1>3, PagesAssumption DEF PagesInv, PagesTypes, PagesTypeOK
  <2> QED BY <2>1 DEF VersesOf
<1>5. \/ job' = [job EXCEPT ![j] = IdleJob]
      \/ /\ VersesOf(verses) \intersect job[j].seen = {}
         /\ job' = [job EXCEPT ![j].pc = "upsert", ![j].payload[job[j].page] = verses,
                               ![j].seen = @ \union VersesOf(verses)]
  BY <1>3 DEF FetchAllVersesForPage
<1>6. CASE job' = [job EXCEPT ![j] = IdleJob]
  <2>1. /\ job'[j] = IdleJob /\ job' = [job EXCEPT ![j] = job'[j]]
        /\ \A i \in Runner \ {j} : job'[i] = job[i]
    BY <1>6 DEF PagesInv, PagesTypes
  <2>2. LeavesBehind(j)'
    BY <2>1, IdleJobTyped DEF LeavesBehind, AtWork
  <2>3. ASSUME NEW k \in Watched PROVE Served(k)'
    <3>1. ~WillDrop(j, k) /\ (Current(k) => Current(k)')
      BY <1>1, <1>2 DEF WillDrop, Current, RowOf
    <3> QED BY <3>1, <2>1, <1>2, ServedKept
  <2>4. whole'[job[j].mushaf] \in BOOLEAN
    BY <1>1, <1>2 DEF PagesInv, PagesTypes, PagesTypeOK
  <2> QED BY <1>1, <1>2, <2>1, <2>2, <2>3, <2>4, IdleJobTyped, OnlyMovesKeeps
<1>7. CASE /\ VersesOf(verses) \intersect job[j].seen = {}
           /\ job' = [job EXCEPT ![j].pc = "upsert", ![j].payload[job[j].page] = verses,
                                 ![j].seen = @ \union VersesOf(verses)]
  <2>1. PICK s : s = [job[j] EXCEPT !.pc = "upsert", !.payload[job[j].page] = verses,
                                    !.seen = @ \union VersesOf(verses)]
    OBVIOUS
  <2>2. [job[j].payload EXCEPT ![job[j].page] = verses] \in PageRows
    <3>1. job[j].payload \in [Page -> RowValue] /\ PageRows = [Page -> RowValue]
      BY <1>1 DEF Job, PageRows, RowValue
    <3> QED BY <3>1
  <2>3. /\ s.payload = [job[j].payload EXCEPT ![job[j].page] = verses]
        /\ s.pc = "upsert" /\ s.clone = job[j].clone /\ s.page = job[j].page
        /\ s.mushaf = job[j].mushaf /\ s.seen = job[j].seen \union VersesOf(verses)
    BY <1>1, <2>1 DEF Job
  <2>4. s.alone = job[j].alone
    BY <1>1, <2>1 DEF Job
  <2>5. s \in Job
    BY <1>1, <1>4, <2>1, <2>2 DEF Job, JobPc
  <2>6. /\ job'[j] = s /\ job' = [job EXCEPT ![j] = job'[j]]
        /\ \A i \in Runner \ {j} : job'[i] = job[i]
    <3>1. job' = [job EXCEPT ![j] = s]
      BY <1>7, <2>1
    <3> QED BY <3>1 DEF PagesInv, PagesTypes
  <2>7. /\ Sound(s) /\ Put(s) = Put(job[j]) /\ Shown(s) = Shown(job[j])
        /\ \A q \in Put(job[j]) : s.payload[q] = job[j].payload[q]
    BY <1>1, <1>4, <1>7, <2>3, <2>5, FetchSound
  <2>8. LeavesBehind(j)'
    <3>1. \A k : Current(k) => Current(k)'
      BY <1>2 DEF Current, RowOf
    <3>2. AtWork(job[j]) /\ AtWork(s)
      BY <1>1, <2>3 DEF AtWork
    <3>3. /\ s.alone => /\ \A q \in Put(s) : pageRow'[s.mushaf][q] = s.payload[q]
                        /\ \A q \in Shown(s) : Current(<<"page", job[j].mushaf, q>>)
          /\ Put(s) # {} => ~whole'[s.mushaf]
      BY <1>1, <1>2, <2>3, <2>4, <2>7, <3>2 DEF LeavesBehind
    <3>4. \A q \in Shown(s) : s.alone => Current(<<"page", s.mushaf, q>>)'
      BY <3>1, <3>3, <2>3
    <3> QED BY <2>3, <2>6, <3>3, <3>4 DEF LeavesBehind
  <2>9. ASSUME NEW k \in Watched PROVE Served(k)'
    <3>1. ~WillDrop(j, k) /\ (Current(k) => Current(k)')
      BY <1>1, <1>2 DEF WillDrop, Current, RowOf
    <3> QED BY <3>1, <2>6, <1>2, ServedKept
  <2>10. whole'[job[j].mushaf] \in BOOLEAN
    BY <1>1, <1>2 DEF PagesInv, PagesTypes, PagesTypeOK
  <2> QED BY <1>1, <1>2, <2>3, <2>4, <2>5, <2>6, <2>7, <2>8, <2>9, <2>10, OnlyMovesKeeps
<1> QED BY <1>5, <1>6, <1>7

(* A command that was alone and finds every page, and, when it crawled,    *)
(* as many verses as there are, has left an edition that is whole.         *)
LEMMA WholeWhenChecked ==
  ASSUME PagesInv, NEW j \in Runner, job[j].pc = "check", job[j].alone,
         job[j].clone \/ Cardinality(job[j].seen) = Cardinality(Verse)
  PROVE  Exact(pageRow[job[j].mushaf])
<1>1. PICK r \in Job : r = job[j] /\ Sound(r) /\ LeavesBehind(j)
  BY DEF PagesInv, PagesTypes
<1>2. r.page = PageCount /\ AtWork(r) /\ r.pc = "check"
  BY <1>1 DEF Sound, AtWork
<1>3. Fetched(r) = Page /\ Put(r) = Page
  BY <1>2, PageBounds DEF Fetched, Put, Page
<1>4. \A q \in Page : pageRow[r.mushaf][q] = r.payload[q]
  BY <1>1, <1>2, <1>3 DEF LeavesBehind
<1>5. Exact(r.payload)
  <2>1. CASE r.clone
    BY <2>1, <1>1, <1>2 DEF Sound
  <2>2. CASE ~r.clone
    <3>1. r.seen \subseteq Verse /\ Cardinality(r.seen) = Cardinality(Verse)
      BY <1>1, <2>2 DEF Job
    <3>2. r.seen = Verse
      BY <3>1, PagesAssumption, FS_Subset
    <3>3. /\ r.seen = UNION {VersesOf(r.payload[q]) : q \in Page}
          /\ \A p, q \in Page :
               p # q => VersesOf(r.payload[p]) \intersect VersesOf(r.payload[q]) = {}
      BY <1>1, <1>2, <1>3, <2>2 DEF Sound
    <3>4. ASSUME NEW v \in Verse
          PROVE  \E p \in Page : /\ v \in VersesOf(r.payload[p])
                                 /\ \A q \in Page \ {p} : v \notin VersesOf(r.payload[q])
      <4>1. PICK p \in Page : v \in VersesOf(r.payload[p])
        BY <3>2, <3>3
      <4> QED BY <4>1, <3>3
    <3> QED BY <3>4 DEF Exact
  <2> QED BY <2>1, <2>2
<1> QED BY <1>1, <1>4, <1>5 DEF Exact

LEMMA CheckKeeps ==
  ASSUME PagesInv, NEW j \in Runner, CheckIntegrity(j)
  PROVE  PagesInv'
<1>1. /\ job[j] \in Job /\ job[j].pc = "check" /\ job[j].mushaf \in Mushaf
      /\ Sound(job[j]) /\ LeavesBehind(j) /\ pageRow[job[j].mushaf] \in PageRows
  BY RowTypes DEF PagesInv, PagesTypes, CheckIntegrity, Job
<1>2. UNCHANGED <<upstream, changes, pageRow, runs, cached, loading, overtaken>>
  BY DEF CheckIntegrity
<1>3. PICK passed : passed = (/\ \A p \in Page : pageRow[job[j].mushaf][p] # NoVerses
                              /\ job[j].clone \/ Cardinality(job[j].seen) = Cardinality(Verse))
  OBVIOUS
<1>4. passed \in BOOLEAN /\ (passed => job[j].clone \/ Cardinality(job[j].seen) = Cardinality(Verse))
  BY <1>3
<1>5. /\ job' = IF ~passed THEN [job EXCEPT ![j] = IdleJob]
                ELSE [job EXCEPT ![j].pc = "list", ![j].payload = pageRow[job[j].mushaf]]
      /\ whole' = [whole EXCEPT ![job[j].mushaf] = passed /\ job[j].alone]
  BY <1>3 DEF CheckIntegrity
<1>6. PICK w : w = (passed /\ job[j].alone)
  OBVIOUS
<1>7. w \in BOOLEAN /\ (w => passed /\ job[j].alone)
  BY <1>6
<1>8. whole'[job[j].mushaf] = w /\ whole' = [whole EXCEPT ![job[j].mushaf] = whole'[job[j].mushaf]]
  BY <1>1, <1>5, <1>6 DEF PagesInv, PagesTypes, PagesTypeOK
<1>9. w => Exact(pageRow[job[j].mushaf])
  BY <1>1, <1>4, <1>7, WholeWhenChecked
<1>10. \A k : Current(k) => Current(k)'
  BY <1>2 DEF Current, RowOf
<1>11. CASE ~passed
  <2>1. /\ job'[j] = IdleJob /\ job' = [job EXCEPT ![j] = job'[j]]
    BY <1>5, <1>11 DEF PagesInv, PagesTypes
  <2>2. LeavesBehind(j)'
    BY <2>1, IdleJobTyped DEF LeavesBehind, AtWork
  <2>3. ~w
    BY <1>7, <1>11
  <2>4. \A k \in Watched : k[2] = job[j].mushaf => Served(k)'
    BY <1>8, <2>3 DEF Served
  <2> QED BY <1>1, <1>2, <1>7, <1>8, <2>1, <2>2, <2>3, <2>4, IdleJobTyped, OnlyMovesKeeps
<1>12. CASE passed
  <2>1. /\ job'[j] = [job[j] EXCEPT !.pc = "list", !.payload = pageRow[job[j].mushaf]]
        /\ job' = [job EXCEPT ![j] = job'[j]]
    BY <1>5, <1>12 DEF PagesInv, PagesTypes
  <2>2. /\ job'[j] \in Job /\ job'[j].pc = "list" /\ job'[j].mushaf = job[j].mushaf
        /\ job'[j].payload = pageRow[job[j].mushaf]
    BY <1>1, <2>1 DEF Job, JobPc
  <2>3. job'[j].alone = job[j].alone
    BY <1>1, <2>1 DEF Job
  <2>4. Sound(job'[j]) /\ LeavesBehind(j)'
    BY <1>2, <2>2 DEF Sound, LeavesBehind, AtWork
  <2>5. ASSUME NEW k \in Watched, k[2] = job[j].mushaf
        PROVE  Served(k)'
    <3>1. j \in On(k[2])'
      BY <2>2, <2>5 DEF On
    <3>2. CASE k[1] # "page"
      <4>1. WillDrop(j, k)'
        BY <2>2, <3>2, WatchedParts DEF WillDrop
      <4> QED BY <3>1, <4>1 DEF Served
    <3>3. CASE k[1] = "page" /\ w
      <4>1. k = <<"page", job[j].mushaf, k[3]>> /\ k[3] \in Page
        BY <3>3, <2>5, WatchedParts
      <4>2. Shown(job[j]) = Page
        BY <1>1, PageBounds DEF Sound, Shown, Page
      <4>3. AtWork(job[j])
        BY <1>1 DEF AtWork
      <4>4. Current(k)
        BY <1>1, <1>7, <3>3, <4>1, <4>2, <4>3 DEF LeavesBehind
      <4> QED BY <4>4, <1>10 DEF Served
    <3>4. CASE ~w
      BY <3>4, <1>8, <2>5 DEF Served
    <3> QED BY <3>2, <3>3, <3>4, <1>7
  <2> QED BY <1>1, <1>2, <1>7, <1>8, <1>9, <2>1, <2>2, <2>3, <2>4, <2>5, OnlyMovesKeeps
<1> QED BY <1>4, <1>11, <1>12

LEMMA ScanKeeps ==
  ASSUME PagesInv, NEW j \in Runner, ScanBundles(j)
  PROVE  PagesInv'
<1>1. /\ job[j] \in Job /\ job[j].pc = "scan" /\ job[j].mushaf \in Mushaf
  BY DEF PagesInv, PagesTypes, ScanBundles, Job
<1>2. UNCHANGED <<upstream, changes, pageRow, whole, runs, cached, loading, overtaken>>
  BY DEF ScanBundles
<1>3. PICK f : f = {k \in Watched : /\ k[1] = "verses" /\ cached[k].kind # "none"
                                    /\ job[j].mushaf \in {1, k[2]}}
  OBVIOUS
<1>4. /\ job'[j] = [job[j] EXCEPT !.pc = "delete", !.found = f]
      /\ job' = [job EXCEPT ![j] = job'[j]]
      /\ \A i \in Runner \ {j} : job'[i] = job[i]
  BY <1>3 DEF ScanBundles, PagesInv, PagesTypes
<1>5. f \subseteq Watched
  BY <1>3
<1>6. /\ job'[j] \in Job /\ job'[j].pc = "delete" /\ job'[j].mushaf = job[j].mushaf
      /\ job'[j].found = f
  BY <1>1, <1>4, <1>5 DEF Job, JobPc
<1>7. job'[j].alone = job[j].alone
  BY <1>1, <1>4 DEF Job
<1>8. Sound(job'[j]) /\ LeavesBehind(j)'
  BY <1>6 DEF Sound, LeavesBehind, AtWork
<1>9. ASSUME NEW k \in Watched, k[2] = job[j].mushaf
      PROVE  Served(k)'
  <2>1. Current(k) => Current(k)'
    BY <1>2 DEF Current, RowOf
  <2>2. ASSUME WillDrop(j, k) PROVE Current(k)' \/ (j \in On(k[2])' /\ WillDrop(j, k)')
    <3>1. k[1] = "verses"
      BY <2>2, <1>1 DEF WillDrop
    <3>2. j \in On(k[2])'
      BY <1>6, <1>9 DEF On
    <3>3. CASE cached[k].kind = "none"
      BY <3>3, <1>2 DEF Current
    <3>4. CASE cached[k].kind # "none"
      BY <3>1, <3>2, <3>4, <1>3, <1>6, <1>9 DEF WillDrop
    <3> QED BY <3>3, <3>4
  <2> QED BY <2>1, <2>2, <1>2, <1>4, ServedKept
<1>10. whole'[job[j].mushaf] \in BOOLEAN
  BY <1>1, <1>2 DEF PagesInv, PagesTypes, PagesTypeOK
<1> QED BY <1>1, <1>2, <1>4, <1>6, <1>7, <1>8, <1>9, <1>10, OnlyMovesKeeps

LEMMA UpsertKeeps ==
  ASSUME PagesInv, NEW j \in Runner, UpsertPage(j)
  PROVE  PagesInv'
<1>1. PICK r \in Job : r = job[j] /\ Sound(r)
  BY DEF PagesInv, PagesTypes
<1>2. /\ r.pc = "upsert" /\ r.mushaf \in Mushaf /\ r.page \in Page /\ r.page \in Nat
      /\ r.payload \in PageRows /\ LeavesBehind(j)
      /\ UNCHANGED <<upstream, changes, runs, cached, loading, overtaken>>
  BY <1>1, PageBounds DEF PagesInv, UpsertPage, Job
<1>3. /\ pageRow \in [Mushaf -> PageRows] /\ whole \in [Mushaf -> BOOLEAN] /\ job \in [Runner -> Job]
      /\ PageRows = [Page -> RowValue]
  BY DEF PagesInv, PagesTypes, PagesTypeOK, PageRows, RowValue
<1>4. /\ pageRow' = [pageRow EXCEPT ![r.mushaf][r.page] = r.payload[r.page]]
      /\ whole' = [whole EXCEPT ![r.mushaf] = FALSE]
      /\ job' = [job EXCEPT ![j].pc = "cache"]
  BY <1>1 DEF UpsertPage
<1>5. /\ pageRow' \in [Mushaf -> PageRows]
      /\ pageRow'[r.mushaf][r.page] = r.payload[r.page]
      /\ \A q \in Page \ {r.page} : pageRow'[r.mushaf][q] = pageRow[r.mushaf][q]
      /\ \A m \in Mushaf \ {r.mushaf} : pageRow'[m] = pageRow[m]
  <2>1. pageRow[r.mushaf] \in [Page -> RowValue] /\ r.payload[r.page] \in RowValue
    BY <1>2, <1>3
  <2>2. pageRow' = [pageRow EXCEPT ![r.mushaf] = [pageRow[r.mushaf] EXCEPT ![r.page] = r.payload[r.page]]]
    BY <1>4
  <2>3. [pageRow[r.mushaf] EXCEPT ![r.page] = r.payload[r.page]] \in PageRows
    BY <2>1, <1>2, <1>3
  <2>4. pageRow'[r.mushaf] = [pageRow[r.mushaf] EXCEPT ![r.page] = r.payload[r.page]]
    BY <1>2, <1>3, <2>2
  <2>5. pageRow' \in [Mushaf -> PageRows] /\ \A m \in Mushaf \ {r.mushaf} : pageRow'[m] = pageRow[m]
    BY <1>2, <1>3, <2>2, <2>3
  <2> QED BY <1>2, <2>1, <2>4, <2>5
<1>6. /\ whole' \in [Mushaf -> BOOLEAN] /\ ~whole'[r.mushaf]
      /\ \A m \in Mushaf \ {r.mushaf} : whole'[m] = whole[m]
  BY <1>2, <1>3, <1>4
<1>7. PICK s : s = [r EXCEPT !.pc = "cache"]
  OBVIOUS
<1>8. /\ s \in Job /\ s.pc = "cache" /\ s.mushaf = r.mushaf /\ s.clone = r.clone /\ s.page = r.page
      /\ s.payload = r.payload /\ s.seen = r.seen /\ s.alone = r.alone
  BY <1>1, <1>7 DEF Job, JobPc
<1>9. /\ job'[j] = s /\ job' \in [Runner -> Job] /\ \A i \in Runner \ {j} : job'[i] = job[i]
  BY <1>1, <1>3, <1>4, <1>7, <1>8
<1>10. PagesTypes'
  <2>1. \A i \in Runner : job'[i] \in Job
    BY <1>9
  <2>2. PagesTypeOK'
    BY <1>2, <1>5, <1>6, <2>1 DEF PagesInv, PagesTypes, PagesTypeOK, Job
  <2> QED BY <1>2, <1>9, <2>2 DEF PagesInv, PagesTypes
<1>11. WholeEditions'
  BY <1>5, <1>6 DEF PagesInv, WholeEditions
<1>12. Sound(s)
  <2>1. Fetched(s) = Fetched(r) /\ AtWork(s) /\ AtWork(r)
    BY <1>2, <1>8 DEF Fetched, AtWork
  <2> QED BY <1>1, <1>2, <1>8, <2>1 DEF Sound
<1>13. LeavesBehind(j)'
  <2>1. /\ Put(r) = {q \in Page : q < r.page} /\ Shown(r) = Put(r) /\ Shown(s) = Put(r)
        /\ Put(s) = Put(r) \union {r.page} /\ r.page \notin Put(r) /\ Put(r) \subseteq Page
    BY <1>2, <1>8 DEF Put, Shown
  <2>2. AtWork(r)
    BY <1>2 DEF AtWork
  <2>3. ASSUME s.alone PROVE \A q \in Put(s) : pageRow'[s.mushaf][q] = s.payload[q]
    BY <1>1, <1>2, <1>5, <1>8, <2>1, <2>2, <2>3 DEF LeavesBehind
  <2>4. ASSUME s.alone, NEW q \in Shown(s) PROVE Current(<<"page", r.mushaf, q>>)'
    <3>1. q \in Page \ {r.page}
      BY <2>1
    <3>2. Current(<<"page", r.mushaf, q>>)
      <4>1. r.alone /\ q \in Shown(r)
        BY <1>8, <2>1, <2>4
      <4>2. AtWork(job[j]) /\ job[j].alone =>
              \A p \in Shown(job[j]) : Current(<<"page", job[j].mushaf, p>>)
        BY <1>2 DEF LeavesBehind
      <4> QED BY <1>1, <2>2, <4>1, <4>2
    <3>3. RowOf(<<"page", r.mushaf, q>>)' = RowOf(<<"page", r.mushaf, q>>)
      BY <3>1, <1>5 DEF RowOf
    <3> QED BY <3>2, <3>3, <1>2 DEF Current
  <2> QED BY <1>6, <1>8, <1>9, <2>3, <2>4 DEF LeavesBehind
<1>14. \A k \in Watched : k[2] # job[j].mushaf /\ Current(k) => Current(k)'
  <2>1. ASSUME NEW k \in Watched, k[2] # r.mushaf PROVE RowOf(k)' = RowOf(k)
    BY <2>1, <1>5, WatchedParts DEF RowOf
  <2> QED BY <2>1, <1>1, <1>2 DEF Current
<1>15. \A k \in Watched : k[2] = job[j].mushaf => Served(k)'
  BY <1>1, <1>6 DEF Served
<1>16. job[j].pc # "idle"
  BY <1>1, <1>2
<1>17. \A m \in Mushaf \ {job[j].mushaf} : pageRow'[m] = pageRow[m] /\ whole'[m] = whole[m]
  BY <1>1, <1>5, <1>6
<1>18. Sound(job'[j])
  BY <1>9, <1>12
<1>19. \/ job[j].alone \/ ~whole'[job[j].mushaf]
       \/ /\ whole'[job[j].mushaf] = whole[job[j].mushaf]
          /\ pageRow'[job[j].mushaf] = pageRow[job[j].mushaf]
  BY <1>1, <1>6
<1>20. job[j].pc # "idle" /\ \A i \in Runner \ {j} : job'[i] = job[i]
  BY <1>9, <1>16
<1>21. job'[j].pc # "idle" => /\ job'[j].mushaf = job[j].mushaf
                              /\ job'[j].alone => job[j].alone
  BY <1>1, <1>8, <1>9
<1> QED BY <1>10, <1>11, <1>13, <1>14, <1>15, <1>17, <1>18, <1>19, <1>20, <1>21, CommandKeeps

LEMMA DeleteKeeps ==
  ASSUME PagesInv, NEW j \in Runner, DeleteBundles(j)
  PROVE  PagesInv'
<1>1. /\ job[j] \in Job /\ job[j].pc = "delete" /\ job[j].mushaf \in Mushaf
      /\ UNCHANGED <<upstream, changes, pageRow, whole, runs, loading>>
  BY DEF PagesInv, PagesTypes, DeleteBundles, Job
<1>2. /\ job'[j] = IdleJob /\ \A i \in Runner \ {j} : job'[i] = job[i]
      /\ job' \in [Runner -> Job]
  BY IdleJobTyped DEF DeleteBundles, PagesInv, PagesTypes
<1>3. /\ overtaken' \subseteq Watched
      /\ cached' \in [Watched -> [kind: {"none", "raw", "envelope"}, value: Contents]]
  BY EntryTypes DEF DeleteBundles, PagesInv, PagesTypes, PagesTypeOK
<1>4. PagesTypes'
  <2>1. \A i \in Runner : job'[i] \in Job
    BY <1>2
  <2>2. PagesTypeOK'
    BY <1>1, <1>3, <2>1 DEF PagesInv, PagesTypes, PagesTypeOK, Job
  <2> QED BY <1>1, <1>2, <1>3, <2>2 DEF PagesInv, PagesTypes
<1>5. WholeEditions'
  BY <1>1 DEF PagesInv, WholeEditions
<1>6. ASSUME NEW k \in Watched
      PROVE  (Current(k) => Current(k)') /\ (k \in job[j].found => Current(k)')
  <2>1. RowOf(k)' = RowOf(k)
    BY <1>1 DEF RowOf
  <2>2. CASE k \in job[j].found
    BY <2>2 DEF Current, DeleteBundles, NoEntry
  <2>3. CASE k \notin job[j].found
    BY <2>1, <2>3 DEF Current, DeleteBundles
  <2> QED BY <2>2, <2>3
<1>7. LeavesBehind(j)' /\ Sound(job'[j])
  BY <1>2, IdleJobTyped DEF LeavesBehind, AtWork
<1>8. ASSUME NEW k \in Watched PROVE Served(k)'
  <2>1. WillDrop(j, k) => k \in job[j].found
    BY <1>1 DEF WillDrop
  <2> QED BY <1>1, <1>2, <1>6, <2>1, ServedKept
<1> QED BY <1>1, <1>2, <1>4, <1>5, <1>6, <1>7, <1>8, IdleJobTyped, CommandKeeps

(* What the command puts into the cache is what it says from then on; the  *)
(* rest of the cache is as it was.                                         *)
LEMMA CachedRawTyped ==
  ASSUME PagesInv, NEW k, NEW v \in Contents,
         cached' = CachedRaw(k, v), overtaken' = overtaken \ {k}
  PROVE  /\ cached' \in [Watched -> [kind: {"none", "raw", "envelope"}, value: Contents]]
         /\ overtaken' \subseteq Watched
         /\ k \in Watched => cached'[k].value = v
         /\ \A w \in Watched \ {k} : cached'[w] = cached[w] /\ (w \in overtaken' <=> w \in overtaken)
<1>1. /\ cached \in [Watched -> [kind: {"none", "raw", "envelope"}, value: Contents]]
      /\ overtaken \subseteq Watched
  BY DEF PagesInv, PagesTypes, PagesTypeOK
<1>2. CASE k \in Watched
  <2>1. PICK e \in [kind: {"none", "raw", "envelope"}, value: Contents] :
          e = [kind |-> "raw", value |-> v]
    BY EntryTypes
  <2>2. cached' = [cached EXCEPT ![k] = e] /\ e.value = v
    BY <1>2, <2>1 DEF CachedRaw
  <2>3. cached' \in [Watched -> [kind: {"none", "raw", "envelope"}, value: Contents]]
    BY <1>1, <2>2
  <2>4. cached'[k] = e /\ \A w \in Watched \ {k} : cached'[w] = cached[w]
    BY <1>1, <1>2, <2>2
  <2> QED BY <1>1, <2>2, <2>3, <2>4
<1>3. CASE k \notin Watched
  BY <1>1, <1>3 DEF CachedRaw
<1> QED BY <1>2, <1>3

LEMMA CachePageDetailKeeps ==
  ASSUME PagesInv, NEW j \in Runner, CachePageDetail(j)
  PROVE  PagesInv'
<1>1. PICK r \in Job : r = job[j] /\ Sound(r)
  BY DEF PagesInv, PagesTypes
<1>2. /\ r.pc = "cache" /\ r.mushaf \in Mushaf /\ r.page \in Page /\ r.page \in 1..PageCount
      /\ LeavesBehind(j) /\ job \in [Runner -> Job]
      /\ UNCHANGED <<upstream, changes, pageRow, whole, runs, loading>>
  BY <1>1 DEF PagesInv, PagesTypes, CachePageDetail, Job, Page
<1>3. PICK k : k = <<"page", r.mushaf, r.page>>
  OBVIOUS
<1>4. PICK v \in Contents : v = r.payload[r.page]
  BY <1>2, RowTypes DEF PagesInv, Contents
<1>5. cached' = CachedRaw(k, v) /\ overtaken' = overtaken \ {k}
  BY <1>1, <1>3, <1>4 DEF CachePageDetail
<1>6. /\ cached' \in [Watched -> [kind: {"none", "raw", "envelope"}, value: Contents]]
      /\ overtaken' \subseteq Watched
      /\ k \in Watched => cached'[k].value = v
      /\ \A w \in Watched \ {k} : cached'[w] = cached[w] /\ (w \in overtaken' <=> w \in overtaken)
  BY <1>5, CachedRawTyped
<1>7. \A w : RowOf(w)' = RowOf(w)
  BY <1>2 DEF RowOf
<1>8. \A w : w # k /\ Current(w) => Current(w)'
  BY <1>6, <1>7 DEF Current
<1>9. pageRow[r.mushaf][r.page] = v => Current(k)'
  <2>1. RowOf(k) = pageRow[r.mushaf][r.page]
    BY <1>3 DEF RowOf
  <2> QED BY <1>6, <1>7, <2>1 DEF Current
<1>10. PICK s : /\ s = job'[j]
                /\ IF r.page < PageCount
                   THEN s = [r EXCEPT !.page = r.page + 1, !.pc = IF r.clone THEN "upsert" ELSE "fetch"]
                   ELSE s = [r EXCEPT !.pc = "check"]
  BY <1>1, <1>2 DEF CachePageDetail
<1>11. /\ s \in Job /\ s.mushaf = r.mushaf /\ s.clone = r.clone
       /\ s.payload = r.payload /\ s.seen = r.seen /\ s.alone = r.alone
       /\ IF r.page < PageCount
          THEN s.page = r.page + 1 /\ s.pc = IF r.clone THEN "upsert" ELSE "fetch"
          ELSE s.page = r.page /\ s.pc = "check"
  <2>1. CASE r.page < PageCount
    <3>1. r.page + 1 \in Page
      BY <1>2, <2>1, PagesAssumption DEF Page
    <3>2. PICK p \in Page : p = r.page + 1
      BY <3>1
    <3>3. s = [r EXCEPT !.page = p, !.pc = IF r.clone THEN "upsert" ELSE "fetch"]
      BY <1>10, <2>1, <3>2
    <3> QED BY <1>1, <2>1, <3>2, <3>3 DEF Job, JobPc
  <2>2. CASE ~(r.page < PageCount)
    <3>1. s = [r EXCEPT !.pc = "check"]
      BY <1>10, <2>2
    <3> QED BY <1>1, <2>2, <3>1 DEF Job, JobPc
  <2> QED BY <2>1, <2>2
<1>12. /\ job' \in [Runner -> Job] /\ \A i \in Runner \ {j} : job'[i] = job[i]
  BY <1>2, <1>10, <1>11 DEF CachePageDetail
<1>13. PagesTypes'
  <2>1. \A i \in Runner : job'[i] \in Job
    BY <1>12
  <2>2. PagesTypeOK'
    BY <1>2, <1>6, <2>1 DEF PagesInv, PagesTypes, PagesTypeOK, Job
  <2> QED BY <1>2, <1>6, <1>12, <2>2 DEF PagesInv, PagesTypes
<1>14. WholeEditions'
  BY <1>2 DEF PagesInv, WholeEditions
<1>15. AtWork(r) /\ AtWork(s)
  BY <1>2, <1>11 DEF AtWork
<1>16. /\ ~r.clone => Fetched(s) = Fetched(r)
       /\ Put(s) = Put(r) /\ Put(r) \subseteq Page /\ Shown(r) \subseteq Page
       /\ r.page \in Put(r) /\ Shown(s) = Shown(r) \union {r.page}
       /\ s.pc = "check" => s.page = PageCount
  <2>1. (\A q \in Page : q \in Int) /\ r.page \in Int /\ s.page \in Int /\ r.page <= PageCount
    BY <1>2, <1>11, PageBounds DEF Job
  <2>2. \A q \in Page : /\ q \in Fetched(r) <=> q <= r.page
                        /\ q \in Put(r) <=> q <= r.page
                        /\ q \in Shown(r) <=> q < r.page
    BY <1>2, <2>1 DEF Fetched, Put, Shown
  <2>3. /\ \A q \in Page : /\ ~r.clone => (q \in Fetched(s) <=> q <= r.page)
                           /\ q \in Put(s) <=> q <= r.page
                           /\ q \in Shown(s) <=> q <= r.page
        /\ s.pc = "check" => s.page = PageCount
    <3>1. CASE r.page < PageCount
      <4>1. s.page = r.page + 1 /\ s.pc \in {"upsert", "fetch"} /\ (~r.clone => s.pc = "fetch")
        BY <1>11, <3>1
      <4>2. \A q \in Page : q < s.page <=> q <= r.page
        BY <2>1, <4>1
      <4> QED BY <4>1, <4>2 DEF Fetched, Put, Shown
    <3>2. CASE ~(r.page < PageCount)
      <4>1. s.page = r.page /\ s.pc = "check" /\ r.page = PageCount
        BY <1>11, <2>1, <3>2, PageBounds
      <4> QED BY <2>1, <4>1 DEF Fetched, Put, Shown
    <3> QED BY <3>1, <3>2
  <2>4. /\ Fetched(r) \subseteq Page /\ Put(r) \subseteq Page /\ Shown(r) \subseteq Page
        /\ Fetched(s) \subseteq Page /\ Put(s) \subseteq Page /\ Shown(s) \subseteq Page
    BY DEF Fetched, Put, Shown
  <2>5. \A q \in Page : q <= r.page <=> q < r.page \/ q = r.page
    BY <2>1
  <2> QED BY <1>2, <2>2, <2>3, <2>4, <2>5
<1>17. Sound(s)
  BY <1>1, <1>2, <1>11, <1>15, <1>16 DEF Sound
<1>18. ~whole[r.mushaf] /\ (r.alone => \A q \in Put(r) : pageRow[r.mushaf][q] = r.payload[q])
  BY <1>1, <1>2, <1>15, <1>16 DEF LeavesBehind
<1>19. LeavesBehind(j)'
  <2>1. ASSUME s.alone, NEW q \in Shown(s) PROVE Current(<<"page", r.mushaf, q>>)'
    <3>1. CASE q = r.page
      BY <3>1, <2>1, <1>3, <1>4, <1>9, <1>11, <1>16, <1>18
    <3>2. CASE q # r.page
      <4>1. q \in Shown(r) /\ r.alone
        BY <2>1, <3>2, <1>11, <1>16
      <4>2. AtWork(job[j]) /\ job[j].alone =>
              \A p \in Shown(job[j]) : Current(<<"page", job[j].mushaf, p>>)
        BY <1>2 DEF LeavesBehind
      <4>3. Current(<<"page", r.mushaf, q>>)
        BY <1>1, <1>15, <4>1, <4>2
      <4>4. <<"page", r.mushaf, q>> # k
        BY <3>2, <1>3
      <4> QED BY <4>3, <4>4, <1>8
    <3> QED BY <3>1, <3>2
  <2>2. s.alone => \A q \in Put(s) : pageRow'[s.mushaf][q] = s.payload[q]
    BY <1>2, <1>11, <1>16, <1>18
  <2>3. s.pc # "list" /\ ~whole'[s.mushaf]
    BY <1>2, <1>11, <1>18
  <2> QED BY <1>10, <1>11, <2>1, <2>2, <2>3 DEF LeavesBehind
<1>20. \A w \in Watched : w[2] # job[j].mushaf /\ Current(w) => Current(w)'
  <2>1. \A w \in Watched : w[2] # r.mushaf => w # k
    BY <1>3
  <2> QED BY <2>1, <1>1, <1>8
<1>21. \A w \in Watched : w[2] = job[j].mushaf => Served(w)'
  BY <1>1, <1>2, <1>18 DEF Served
<1>22. \A m \in Mushaf \ {job[j].mushaf} : pageRow'[m] = pageRow[m] /\ whole'[m] = whole[m]
  BY <1>2
<1>23. job[j].pc # "idle" /\ Sound(job'[j])
  BY <1>1, <1>2, <1>10, <1>17
<1>24. job'[j].pc # "idle" => /\ job'[j].mushaf = job[j].mushaf
                              /\ job'[j].alone => job[j].alone
  BY <1>1, <1>10, <1>11
<1>25. \/ job[j].alone \/ ~whole'[job[j].mushaf]
       \/ /\ whole'[job[j].mushaf] = whole[job[j].mushaf]
          /\ pageRow'[job[j].mushaf] = pageRow[job[j].mushaf]
  BY <1>2
<1> QED BY <1>12, <1>13, <1>14, <1>19, <1>20, <1>21, <1>22, <1>23, <1>24, <1>25, CommandKeeps

LEMMA CachePagesListKeeps ==
  ASSUME PagesInv, NEW j \in Runner, CachePagesList(j)
  PROVE  PagesInv'
<1>1. PICK r \in Job : r = job[j]
  BY DEF PagesInv, PagesTypes
<1>2. /\ r.pc = "list" /\ r.mushaf \in Mushaf /\ r.payload \in Contents
      /\ LeavesBehind(j) /\ job \in [Runner -> Job]
      /\ UNCHANGED <<upstream, changes, pageRow, whole, runs, loading>>
  BY <1>1 DEF PagesInv, PagesTypes, CachePagesList, Job, Contents
<1>3. PICK k : k = <<"list", r.mushaf, 0>>
  OBVIOUS
<1>4. cached' = CachedRaw(k, r.payload) /\ overtaken' = overtaken \ {k}
  BY <1>1, <1>3 DEF CachePagesList
<1>5. /\ cached' \in [Watched -> [kind: {"none", "raw", "envelope"}, value: Contents]]
      /\ overtaken' \subseteq Watched
      /\ k \in Watched => cached'[k].value = r.payload
      /\ \A w \in Watched \ {k} : cached'[w] = cached[w] /\ (w \in overtaken' <=> w \in overtaken)
  BY <1>2, <1>4, CachedRawTyped
<1>6. \A w : RowOf(w)' = RowOf(w)
  BY <1>2 DEF RowOf
<1>7. \A w : w # k /\ Current(w) => Current(w)'
  BY <1>5, <1>6 DEF Current
<1>8. whole[r.mushaf] => Current(k)'
  <2>1. RowOf(k) = pageRow[r.mushaf]
    BY <1>3 DEF RowOf
  <2>2. whole[r.mushaf] => r.payload = pageRow[r.mushaf]
    BY <1>1, <1>2 DEF LeavesBehind
  <2> QED BY <1>5, <1>6, <2>1, <2>2 DEF Current
<1>9. PICK s : s = job'[j] /\ s = [r EXCEPT !.pc = "scan"]
  BY <1>1, <1>2 DEF CachePagesList
<1>10. s \in Job /\ s.pc = "scan" /\ s.mushaf = r.mushaf /\ s.alone = r.alone
  BY <1>9 DEF Job, JobPc
<1>11. job' \in [Runner -> Job] /\ \A i \in Runner \ {j} : job'[i] = job[i]
  BY <1>2, <1>9, <1>10 DEF CachePagesList
<1>12. PagesTypes'
  <2>1. \A i \in Runner : job'[i] \in Job
    BY <1>11
  <2>2. PagesTypeOK'
    BY <1>2, <1>5, <2>1 DEF PagesInv, PagesTypes, PagesTypeOK, Job
  <2> QED BY <1>2, <1>5, <1>11, <2>2 DEF PagesInv, PagesTypes
<1>13. WholeEditions'
  BY <1>2 DEF PagesInv, WholeEditions
<1>14. Sound(job'[j]) /\ LeavesBehind(j)'
  BY <1>9, <1>10 DEF Sound, LeavesBehind, AtWork
<1>15. \A w \in Watched : w[2] # job[j].mushaf /\ Current(w) => Current(w)'
  <2>1. \A w \in Watched : w[2] # r.mushaf => w # k
    BY <1>3
  <2> QED BY <2>1, <1>1, <1>7
<1>16. ASSUME NEW w \in Watched, w[2] = job[j].mushaf
       PROVE  Served(w)'
  <2>1. CASE w = k
    BY <2>1, <1>2, <1>8, <1>3 DEF Served
  <2>2. CASE w # k
    <3>1. w[1] # "list"
      BY <2>2, <1>1, <1>3, <1>16, WatchedParts
    <3>2. WillDrop(j, w) => j \in On(w[2])' /\ WillDrop(j, w)'
      BY <3>1, <1>1, <1>9, <1>10, <1>16 DEF WillDrop, On
    <3> QED BY <2>2, <3>2, <1>2, <1>7, <1>11, ServedKept
  <2> QED BY <2>1, <2>2
<1>17. \A m \in Mushaf \ {job[j].mushaf} : pageRow'[m] = pageRow[m] /\ whole'[m] = whole[m]
  BY <1>2
<1>18. job[j].pc # "idle"
  BY <1>1, <1>2
<1>19. job'[j].pc # "idle" => /\ job'[j].mushaf = job[j].mushaf
                              /\ job'[j].alone => job[j].alone
  BY <1>1, <1>9, <1>10
<1>20. \/ job[j].alone \/ ~whole'[job[j].mushaf]
       \/ /\ whole'[job[j].mushaf] = whole[job[j].mushaf]
          /\ pageRow'[job[j].mushaf] = pageRow[job[j].mushaf]
  BY <1>2
<1> QED BY <1>11, <1>12, <1>13, <1>14, <1>15, <1>16, <1>17, <1>18, <1>19, <1>20, CommandKeeps

LEMMA PagesInitSound == PagesInit => PagesInv
<1> SUFFICES ASSUME PagesInit PROVE PagesInv
  OBVIOUS
<1>1. /\ changes = 0 /\ runs = 0 /\ overtaken = {}
      /\ \A m \in Mushaf : ~whole[m]
      /\ \A i \in Runner : job[i] = IdleJob
  BY DEF PagesInit
<1>2. PagesTypes
  <2>1. /\ pageRow \in [Mushaf -> PageRows] /\ whole \in [Mushaf -> BOOLEAN]
        /\ upstream \in Layout /\ changes \in 0..MaxChanges /\ runs \in 0..MaxRuns
    BY PagesAssumption DEF PagesInit, PageRows
  <2>2. job \in [Runner -> Job]
    BY IdleJobTyped DEF PagesInit
  <2>3. cached \in [Watched -> [kind: {"none", "raw", "envelope"}, value: Contents]]
    BY EntryTypes DEF PagesInit
  <2>4. loading \in [Watched -> [pc: {"none", "read", "write"}, value: Contents]]
    BY DEF PagesInit, NotLoading, Contents, RowValue
  <2>5. \A i \in Runner : job[i] \in Job
    BY <2>2
  <2>6. PagesTypeOK
    BY <1>1, <2>1, <2>3, <2>4, <2>5 DEF PagesTypeOK, Job
  <2> QED BY <2>2, <2>3, <2>4, <2>6 DEF PagesTypes
<1>3. \A i \in Runner : Sound(job[i]) /\ LeavesBehind(i) /\ OnItsOwn(i)
  BY <1>1, IdleJobTyped DEF LeavesBehind, OnItsOwn, AtWork
<1>4. WholeEditions
  BY <1>1 DEF WholeEditions
<1>5. \A k \in Watched : Served(k)
  BY <1>1, WatchedParts DEF Served
<1> QED BY <1>2, <1>3, <1>4, <1>5 DEF PagesInv

LEMMA PagesNextKeeps == PagesInv /\ [PagesNext]_pagesVars => PagesInv'
<1> SUFFICES ASSUME PagesInv, [PagesNext]_pagesVars PROVE PagesInv'
  OBVIOUS
<1>1. ASSUME NEW j \in Runner, CommandStep(j) PROVE PagesInv'
  <2>1. CASE SyncMadaniPages(j) \/ CloneMadaniPagesFrom(j)
    BY <2>1, BeginKeeps DEF SyncMadaniPages, CloneMadaniPagesFrom
  <2>2. CASE ReadSource(j) \/ FetchAllVersesForPage(j) \/ CheckIntegrity(j) \/ ScanBundles(j) \/ CommandEnds(j)
    BY <2>2, ReadSourceKeeps, FetchKeeps, CheckKeeps, ScanKeeps, CommandEndsKeeps
  <2>3. CASE UpsertPage(j) \/ CachePageDetail(j) \/ CachePagesList(j) \/ DeleteBundles(j)
    BY <2>3, UpsertKeeps, CachePageDetailKeeps, CachePagesListKeeps, DeleteKeeps
  <2> QED BY <1>1, <2>1, <2>2, <2>3 DEF CommandStep
<1>2. ASSUME NEW k \in Watched, ReaderStep(k) PROVE PagesInv'
  BY <1>2, LoadMovesKeeps, WritePageKeeps, EntryExpiresKeeps DEF ReaderStep
<1>3. CASE UpstreamChanges
  BY <1>3, UpstreamChangesKeeps
<1>4. CASE UNCHANGED pagesVars
  <2>1. PagesTypes'
    BY <1>4 DEF pagesVars, PagesInv, PagesTypes, PagesTypeOK
  <2>2. \A k \in Watched : Current(k) => Current(k)'
    BY <1>4 DEF pagesVars, Current, RowOf
  <2> QED BY <2>1, <2>2, <1>4, ReadersKeep DEF pagesVars
<1> QED BY <1>1, <1>2, <1>3, <1>4 DEF PagesNext

LEMMA PagesInvariance == PagesSpec => []PagesInv
BY PagesInitSound, PagesNextKeeps, PTL DEF PagesSpec

(***************************************************************************)
(* For any editions, layouts and commands, at once or one after another,   *)
(* killed anywhere, and however upstream changes under a crawl: a command  *)
(* that is through and was alone on its edition leaves each verse on       *)
(* exactly one of its pages.                                               *)
(***************************************************************************)
THEOREM EditionsAreWhole == PagesSpec => []WholeEditions
<1>1. PagesInv => WholeEditions
  BY DEF PagesInv
<1> QED BY <1>1, PagesInvariance, PTL

(***************************************************************************)
(* For any editions, readers and commands: when a whole edition is at      *)
(* rest, its pages, bundles and list are cached as its rows are, but for   *)
(* what a load put there that the rows had overtaken.                      *)
(***************************************************************************)
THEOREM PagesAreServedCurrent == PagesSpec => []PagesServedAreCurrent
<1>1. PagesInv => PagesServedAreCurrent
  BY DEF PagesInv, Served, Current, PagesServedAreCurrent
<1> QED BY <1>1, PagesInvariance, PTL

----------------------------------------------------------------------------
(* The export: types, and what holds of a lane wherever it is. *)

LaneRecord == [pc: LanePc, at: Nat, tries: 0..MaxTries, renewed: BOOLEAN]

Wanted(p) == 1..Len(Pools[p].files)
FileAt(p, i) == Pools[p].files[i]

ExportTypes ==
  /\ file \in [File -> FileState] /\ part \in [File -> FileState]
  /\ lane \in [PoolIx -> [Lane -> LaneRecord]]
  /\ next \in [PoolIx -> Nat]
  /\ \A p \in PoolIx : next[p] \in 1..Len(Pools[p].files) + 1
  /\ phase \in NotRunning..Done
  /\ clean \in BOOLEAN /\ remote \in BOOLEAN /\ exports \in 0..MaxExports

(* A lane that has taken a file holds its number, until it takes the next. *)
Holding(r) == r.pc \in {"lookup", "check", "fetch", "recheck", "write", "rename", "failed"}

(* Texts and downloads that are named once: no piece of them stays.        *)
Mended == File \ (Copied \union Twice)

(* Lanes of a pool hold different numbers, each taken and in the pool; one *)
(* that has ended found none left; and one that renames has written, which *)
(* is undone only where a path is given twice, or copied to.               *)
LaneSound(p, l) ==
  /\ Holding(lane[p][l]) => lane[p][l].at \in 1..next[p] - 1
  /\ lane[p][l].at <= Len(Pools[p].files)
  /\ lane[p][l].pc = "ended" /\ l \in Lanes(p) => next[p] > Len(Pools[p].files)
  /\ lane[p][l].pc = "rename" => FileOf(p, l) \notin Mended \/ part[FileOf(p, l)] = "whole"
  /\ \A m \in Lane \ {l} : Holding(lane[p][l]) /\ Holding(lane[p][m]) => lane[p][l].at # lane[p][m].at

(* A pool whose turn has not come has not begun. *)
NotYet(p) == phase < p => next[p] = 1 /\ \A l \in Lane : lane[p][l].pc = "off"

(* Two pools have lanes under way only if they are of different steps.     *)
Live(p) == \E l \in Lane : lane[p][l].pc \notin {"off", "ended"}
Begun(p) == \E l \in Lane : lane[p][l].pc # "off"
Apart(p, q) == p < q /\ Live(p) /\ Begun(q) => \E r \in p..q : Pools[r].step # Pools[p].step

(* While nothing has failed, the files of the pools before that were not   *)
(* skipped are there, and those of this pool that were taken are there or  *)
(* held.                                                                   *)
Complete(p) ==
  clean => /\ p < phase /\ ~Skipped(p) => \A i \in Wanted(p) : file[FileAt(p, i)] # "none"
           /\ p = phase => \A i \in 1..next[p] - 1 :
                file[FileAt(p, i)] # "none" \/ \E l \in Lane : Holding(lane[p][l]) /\ lane[p][l].at = i

NoPieces == \A f \in Mended : file[f] # "piece"

ExportInv ==
  /\ ExportTypes /\ NoPieces
  /\ \A p \in PoolIx, l \in Lane : LaneSound(p, l)
  /\ \A p \in PoolIx : NotYet(p) /\ Complete(p)
  /\ \A p, q \in PoolIx : Apart(p, q)

LEMMA ExportNumbers ==
  /\ Len(Pools) \in Nat /\ PoolIx = 1..Len(Pools) /\ DOMAIN Pools = PoolIx
  /\ \A p \in PoolIx : /\ Len(Pools[p].files) \in Nat /\ DOMAIN Pools[p].files = Wanted(p)
                       /\ p \in Nat /\ Pools[p].way \in Way
                       /\ \A i \in Wanted(p) : i \in Nat /\ FileAt(p, i) \in File
  /\ NotRunning = -1 /\ Catalogs = 0 /\ Readme = Len(Pools) + 1 /\ Done = Len(Pools) + 2
  /\ MaxExports \in Nat /\ MaxTries \in Nat
<1>1. PICK Pool : Pool = [step: STRING, way: Way, files: Seq(File)]
  OBVIOUS
<1>2. Len(Pools) \in Nat /\ DOMAIN Pools = 1..Len(Pools) /\ \A p \in 1..Len(Pools) : Pools[p] \in Pool
  <2>1. Pools \in Seq(Pool)
    BY <1>1, ExportAssumption
  <2> QED BY <2>1
<1>3. ASSUME NEW p \in PoolIx
      PROVE  /\ Len(Pools[p].files) \in Nat /\ DOMAIN Pools[p].files = Wanted(p)
             /\ p \in Nat /\ Pools[p].way \in Way
             /\ \A i \in Wanted(p) : i \in Nat /\ FileAt(p, i) \in File
  <2>1. Pools[p].files \in Seq(File) /\ Pools[p].way \in Way
    BY <1>1, <1>2 DEF PoolIx
  <2> QED BY <1>2, <2>1 DEF PoolIx, Wanted, FileAt
<1> QED BY <1>2, <1>3, ExportAssumption DEF PoolIx, NotRunning, Catalogs, Readme, Done

LEMMA OffRecord ==
  /\ Off \in LaneRecord /\ Off.pc = "off" /\ Off.at = 0
  /\ \A pc \in LanePc : [Off EXCEPT !.pc = pc] \in LaneRecord /\ [Off EXCEPT !.pc = pc].pc = pc
                        /\ [Off EXCEPT !.pc = pc].at = 0
<1>1. 0 \in 0..MaxTries /\ "off" \in LanePc
  BY ExportNumbers DEF LanePc
<1>2. Off \in LaneRecord /\ Off.pc = "off" /\ Off.at = 0
  BY <1>1 DEF Off, LaneRecord
<1>3. ASSUME NEW pc \in LanePc
      PROVE  [Off EXCEPT !.pc = pc] \in LaneRecord /\ [Off EXCEPT !.pc = pc].pc = pc
             /\ [Off EXCEPT !.pc = pc].at = 0
  BY <1>2 DEF LaneRecord
<1> QED BY <1>2, <1>3

(* No pool has begun: so it is before a run, and while its catalogs come.  *)
Calm(ph) ==
  /\ \A p \in PoolIx, l \in Lane : lane[p][l] = Off
  /\ \A p \in PoolIx : next[p] = 1
  /\ ph \in {NotRunning, Catalogs}

LEMMA CalmIsSound ==
  ASSUME ExportTypes, NoPieces, Calm(phase)
  PROVE  ExportInv
<1>1. phase < 1 /\ \A p \in PoolIx : ~(p < phase) /\ p # phase
  BY ExportNumbers DEF Calm
<1>2. ASSUME NEW p \in PoolIx, NEW l \in Lane PROVE LaneSound(p, l)
  <2>1. lane[p][l].pc = "off" /\ lane[p][l].at = 0
    BY OffRecord DEF Calm
  <2> QED BY <2>1, ExportNumbers DEF LaneSound, Holding
<1>3. ASSUME NEW p \in PoolIx PROVE NotYet(p) /\ Complete(p) /\ ~Live(p)
  <2>1. \A l \in Lane : lane[p][l].pc = "off"
    BY OffRecord DEF Calm
  <2> QED BY <1>1, <2>1 DEF NotYet, Complete, Live, Calm
<1> QED BY <1>2, <1>3 DEF ExportInv, Apart

LEMMA ExportInitInv == ExportInit => ExportInv
<1> SUFFICES ASSUME ExportInit PROVE ExportInv
  OBVIOUS
<1>1. ExportTypes
  <2>1. lane \in [PoolIx -> [Lane -> LaneRecord]]
    BY OffRecord DEF ExportInit
  <2>2. next \in [PoolIx -> Nat] /\ \A p \in PoolIx : next[p] \in 1..Len(Pools[p].files) + 1
    BY ExportNumbers DEF ExportInit
  <2>3. phase \in NotRunning..Done /\ exports \in 0..MaxExports
    BY ExportNumbers DEF ExportInit
  <2> QED BY <2>1, <2>2, <2>3 DEF ExportInit, ExportTypes, FileState
<1>2. NoPieces
  BY DEF ExportInit, NoPieces, Mended
<1>3. Calm(phase)
  BY DEF ExportInit, Calm
<1> QED BY <1>1, <1>2, <1>3, CalmIsSound

(* Stopping, at any moment. *)
LEMMA StoppedIsSound ==
  ASSUME ExportInv, Stopped, file' \in [File -> FileState], part' \in [File -> FileState],
         \A f \in Mended : file'[f] # "piece", remote' = remote, exports' = exports
  PROVE  ExportInv'
<1>1. ExportTypes'
  <2>1. lane' \in [PoolIx -> [Lane -> LaneRecord]] /\ next' \in [PoolIx -> Nat]
        /\ \A p \in PoolIx : next'[p] \in 1..Len(Pools[p].files) + 1
    BY ExportNumbers, OffRecord DEF Stopped
  <2>2. phase' \in NotRunning..Done /\ clean' \in BOOLEAN /\ remote' \in BOOLEAN /\ exports' \in 0..MaxExports
    BY ExportNumbers DEF Stopped, ExportInv, ExportTypes
  <2> QED BY <2>1, <2>2 DEF ExportTypes
<1>2. NoPieces'
  BY DEF NoPieces, Mended, Copied, Twice
<1>3. Calm(phase)'
  BY DEF Stopped, Calm
<1>4. ExportTypes' /\ NoPieces' /\ Calm(phase)' => ExportInv'
  BY CalmIsSound, PTL
<1> QED BY <1>1, <1>2, <1>3, <1>4

----------------------------------------------------------------------------
(* A lane moves. *)

Others(p, l) == \A q \in PoolIx, m \in Lane : q # p \/ m # l => lane'[q][m] = lane[q][m]

LEMMA LanePut ==
  ASSUME ExportTypes, NEW p \in PoolIx, NEW l \in Lane, NEW r \in LaneRecord,
         lane' = [lane EXCEPT ![p][l] = r]
  PROVE  lane' \in [PoolIx -> [Lane -> LaneRecord]] /\ lane'[p][l] = r /\ Others(p, l)
BY DEF ExportTypes, Others

LEMMA GotoPut ==
  ASSUME ExportTypes, NEW p \in PoolIx, NEW l \in Lane, NEW pc \in LanePc, Goto(p, l, pc)
  PROVE  /\ lane' \in [PoolIx -> [Lane -> LaneRecord]] /\ Others(p, l)
         /\ lane'[p][l].pc = pc /\ lane'[p][l].at = lane[p][l].at
<1>1. PICK r : r = [Off EXCEPT !.pc = pc, !.at = lane[p][l].at]
  OBVIOUS
<1>2. lane[p][l] \in LaneRecord /\ Off \in LaneRecord
  BY OffRecord DEF ExportTypes
<1>3. r \in LaneRecord /\ r.pc = pc /\ r.at = lane[p][l].at
  BY <1>1, <1>2 DEF LaneRecord
<1>4. lane' = [lane EXCEPT ![p][l] = r]
  BY <1>1 DEF Goto, PutLane
<1> QED BY <1>3, <1>4, LanePut

(* What a lane may do: take the next file, or go on with the one it holds, *)
(* which is let go when it is there or when something has failed.          *)
LaneMove(p, l) ==
  /\ lane[p][l].pc \notin {"off", "ended"} /\ lane'[p][l].pc # "off"
  /\ lane' \in [PoolIx -> [Lane -> LaneRecord]] /\ Others(p, l)
  /\ lane'[p][l].at <= Len(Pools[p].files)
  /\ \/ /\ next' = next
        /\ Holding(lane'[p][l]) => Holding(lane[p][l]) /\ lane'[p][l].at = lane[p][l].at
     \/ /\ next' = [next EXCEPT ![p] = @ + 1] /\ next[p] <= Len(Pools[p].files)
        /\ lane'[p][l].at = next[p] /\ Holding(lane'[p][l]) /\ ~Holding(lane[p][l])
  /\ lane'[p][l].pc = "ended" => next[p] > Len(Pools[p].files) /\ next' = next
  /\ Holding(lane[p][l]) /\ ~Holding(lane'[p][l]) /\ clean'
       => file'[FileAt(p, lane[p][l].at)] # "none"

FilesMove ==
  /\ file' \in [File -> FileState] /\ part' \in [File -> FileState]
  /\ \A f \in File : file[f] # "none" => file'[f] # "none"
  /\ NoPieces'
  /\ UNCHANGED <<phase, remote, exports>> /\ clean' \in BOOLEAN /\ (clean' => clean)

Renaming == \A p \in PoolIx, l \in Lane :
              lane[p][l].pc = "rename" => FileOf(p, l) \notin Mended \/ part[FileOf(p, l)] = "whole"

(* Whether a pool is skipped, and so its lanes, hangs on the address alone. *)
LEMMA SkippedKept ==
  ASSUME remote' = remote
  PROVE  \A p \in PoolIx : (Skipped(p)' <=> Skipped(p)) /\ Lanes(p)' = Lanes(p)
<1>1. \A p \in PoolIx : Skipped(p)' <=> Skipped(p)
  BY DEF Skipped
<1>2. ASSUME NEW p \in PoolIx PROVE Lanes(p)' = Lanes(p)
  <2>1. CASE Skipped(p)
    BY <1>1, <2>1 DEF Lanes
  <2>2. CASE ~Skipped(p)
    BY <1>1, <2>2 DEF Lanes
  <2> QED BY <2>1, <2>2
<1> QED BY <1>1, <1>2

LEMMA NextMoves ==
  ASSUME ExportTypes, NEW p \in PoolIx, NEW l \in Lane, LaneMove(p, l)
  PROVE  /\ next' \in [PoolIx -> Nat]
         /\ \A q \in PoolIx : next'[q] \in 1..Len(Pools[q].files) + 1
         /\ \A q \in PoolIx \ {p} : next'[q] = next[q]
         /\ next[p] \in Nat /\ next'[p] \in Nat
         /\ next'[p] = next[p] \/ (next'[p] = next[p] + 1 /\ lane'[p][l].at = next[p] /\ Holding(lane'[p][l]))
<1>1. \A q \in PoolIx : Len(Pools[q].files) \in Nat
  BY ExportNumbers
<1>2. CASE next' = next
  BY <1>2 DEF ExportTypes
<1>3. CASE next' # next
  <2>1. next' = [next EXCEPT ![p] = next[p] + 1] /\ next[p] <= Len(Pools[p].files)
        /\ lane'[p][l].at = next[p] /\ Holding(lane'[p][l])
    BY <1>3 DEF LaneMove
  <2>2. next'[p] = next[p] + 1 /\ \A q \in PoolIx \ {p} : next'[q] = next[q]
    BY <2>1 DEF ExportTypes
  <2> QED BY <1>1, <2>1, <2>2 DEF ExportTypes
<1> QED BY <1>2, <1>3

LEMMA LaneStepsSound ==
  ASSUME ExportInv, NEW p \in PoolIx, NEW l \in Lane, LaneMove(p, l), FilesMove, Renaming'
  PROVE  ExportInv'
<1>1. ExportTypes /\ lane \in [PoolIx -> [Lane -> LaneRecord]] /\ next \in [PoolIx -> Nat]
  BY DEF ExportInv, ExportTypes
<1>2. /\ next' \in [PoolIx -> Nat]
      /\ \A q \in PoolIx : next'[q] \in 1..Len(Pools[q].files) + 1
      /\ \A q \in PoolIx \ {p} : next'[q] = next[q]
      /\ next[p] \in Nat /\ next'[p] \in Nat
      /\ next'[p] = next[p] \/ (next'[p] = next[p] + 1 /\ lane'[p][l].at = next[p] /\ Holding(lane'[p][l]))
  BY <1>1, NextMoves
<1>3. ExportTypes'
  BY <1>1, <1>2 DEF ExportTypes, LaneMove, FilesMove
<1>4. \A q \in PoolIx, m \in Lane : q # p \/ m # l => lane'[q][m] = lane[q][m]
  BY DEF LaneMove, Others
<1>5. \A q \in PoolIx, m \in Lane : LaneSound(q, m) /\ lane[q][m].at \in Nat /\ lane'[q][m].at \in Nat
  <2>1. lane' \in [PoolIx -> [Lane -> LaneRecord]]
    BY DEF LaneMove
  <2> QED BY <1>1, <2>1 DEF ExportInv, LaneRecord
<1>6. next[p] <= next'[p]
  BY <1>2
<1>7. ASSUME NEW q \in PoolIx, NEW m \in Lane PROVE LaneSound(q, m)'
  <2>1. Holding(lane'[q][m]) => lane'[q][m].at \in 1..next'[q] - 1
    <3>1. CASE q # p
      BY <1>2, <1>4, <1>5, <3>1 DEF LaneSound
    <3>2. CASE q = p /\ m # l
      BY <1>2, <1>4, <1>5, <1>6, <3>2 DEF LaneSound
    <3>3. CASE q = p /\ m = l
      <4>1. CASE next' = next
        <5>1. Holding(lane'[p][l]) => Holding(lane[p][l]) /\ lane'[p][l].at = lane[p][l].at
          BY <1>2, <4>1 DEF LaneMove
        <5> QED BY <1>2, <1>5, <3>3, <4>1, <5>1 DEF LaneSound
      <4>2. CASE next' # next
        <5>1. next' = [next EXCEPT ![p] = @ + 1] /\ lane'[p][l].at = next[p]
          BY <4>2 DEF LaneMove
        <5>2. next'[p] = next[p] + 1 /\ next[p] \in 1..Len(Pools[p].files) + 1
          BY <1>1, <5>1 DEF ExportTypes
        <5> QED BY <1>2, <3>3, <5>1, <5>2, ExportNumbers
      <4> QED BY <4>1, <4>2
    <3> QED BY <3>1, <3>2, <3>3
  <2>2. lane'[q][m].at <= Len(Pools[q].files)
    BY <1>4, <1>5 DEF LaneSound, LaneMove
  <2>3. lane'[q][m].pc = "ended" /\ m \in Lanes(q)' => next'[q] > Len(Pools[q].files)
    <3>1. Lanes(q)' = Lanes(q)
      BY SkippedKept DEF FilesMove
    <3>2. CASE q = p /\ m = l
      BY <3>2 DEF LaneMove
    <3>3. CASE ~(q = p /\ m = l)
      <4>1. lane[q][m].pc = "ended" /\ m \in Lanes(q) => next[q] > Len(Pools[q].files)
        BY <1>5 DEF LaneSound
      <4>2. next[q] <= next'[q] /\ next[q] \in Nat /\ next'[q] \in Nat /\ Len(Pools[q].files) \in Nat
        <5>1. next[q] \in Nat /\ next'[q] \in Nat /\ Len(Pools[q].files) \in Nat
          BY <1>1, <1>2, ExportNumbers
        <5>2. q # p => next'[q] = next[q]
          BY <1>2
        <5> QED BY <1>6, <5>1, <5>2
      <4> QED BY <1>4, <3>1, <3>3, <4>1, <4>2
    <3> QED BY <3>2, <3>3
  <2>4. lane'[q][m].pc = "rename" => FileOf(q, m)' \notin Mended' \/ part'[FileOf(q, m)'] = "whole"
    BY DEF Renaming, FileOf
  <2>5. ASSUME NEW n \in Lane \ {m}, Holding(lane'[q][m]), Holding(lane'[q][n])
        PROVE  lane'[q][m].at # lane'[q][n].at
    <3>1. CASE q # p \/ (m # l /\ n # l)
      BY <1>4, <1>5, <2>5, <3>1 DEF LaneSound
    <3>2. ASSUME NEW k \in Lane, k # l, Holding(lane[p][k]), Holding(lane'[p][l])
          PROVE  lane'[p][l].at # lane[p][k].at
      <4>1. lane[p][k].at \in 1..next[p] - 1
        BY <1>5, <3>2 DEF LaneSound
      <4>2. CASE next' = next
        <5>1. Holding(lane[p][l]) /\ lane'[p][l].at = lane[p][l].at
          BY <1>2, <3>2, <4>2 DEF LaneMove
        <5> QED BY <1>5, <3>2, <5>1 DEF LaneSound
      <4>3. CASE next' # next
        BY <1>2, <4>1, <4>3 DEF LaneMove
      <4> QED BY <4>2, <4>3
    <3>3. CASE q = p /\ m = l
      BY <1>4, <2>5, <3>2, <3>3
    <3>4. CASE q = p /\ n = l
      BY <1>4, <2>5, <3>2, <3>4
    <3> QED BY <3>1, <3>3, <3>4
  <2> QED BY <2>1, <2>2, <2>3, <2>4, <2>5 DEF LaneSound
<1>8. phase >= p /\ phase \in Int /\ phase' = phase
  <2>1. phase \in Int /\ phase' = phase /\ p \in Int
    BY <1>1, ExportNumbers DEF ExportTypes, FilesMove
  <2>2. lane[p][l].pc # "off" /\ NotYet(p)
    BY DEF LaneMove, ExportInv
  <2> QED BY <2>1, <2>2 DEF NotYet
<1>9. ASSUME NEW q \in PoolIx PROVE NotYet(q)'
  <2>1. NotYet(q) /\ q \in Int /\ p \in Int
    BY ExportNumbers DEF ExportInv
  <2>2. CASE q = p
    BY <1>8, <2>1, <2>2 DEF NotYet
  <2>3. CASE q # p
    BY <1>2, <1>4, <1>8, <2>1, <2>3 DEF NotYet
  <2> QED BY <2>2, <2>3
<1>10. \A f \in File : file[f] # "none" => file'[f] # "none"
  BY DEF FilesMove
<1>11. ASSUME NEW q \in PoolIx, clean' PROVE Complete(q)'
  <2>1. Complete(q) /\ clean /\ phase' = phase
    BY <1>11 DEF ExportInv, FilesMove
  <2>2. \A i \in Wanted(q) : FileAt(q, i) \in File
    BY ExportNumbers
  <2>3. q < phase /\ ~Skipped(q)' => \A i \in Wanted(q) : file'[FileAt(q, i)] # "none"
    <3>1. Skipped(q)' <=> Skipped(q)
      BY SkippedKept DEF FilesMove
    <3> QED BY <1>10, <2>1, <2>2, <3>1 DEF Complete
  <2>4. ASSUME q = phase, NEW i \in 1..next'[q] - 1
        PROVE  file'[FileAt(q, i)] # "none" \/ \E m \in Lane : Holding(lane'[q][m]) /\ lane'[q][m].at = i
    <3>1. i \in Wanted(q)
      BY <1>2, <2>4, ExportNumbers DEF Wanted
    <3>2. CASE i \in 1..next[q] - 1
      <4>1. file[FileAt(q, i)] # "none" \/ \E m \in Lane : Holding(lane[q][m]) /\ lane[q][m].at = i
        BY <2>1, <2>4, <3>2 DEF Complete
      <4>2. CASE file[FileAt(q, i)] # "none"
        BY <1>10, <2>2, <3>1, <4>2
      <4>3. ASSUME NEW m \in Lane, Holding(lane[q][m]), lane[q][m].at = i
            PROVE  file'[FileAt(q, i)] # "none" \/ \E n \in Lane : Holding(lane'[q][n]) /\ lane'[q][n].at = i
        <5>1. CASE q # p \/ m # l
          BY <1>4, <4>3, <5>1
        <5>2. CASE q = p /\ m = l
          <6>1. CASE Holding(lane'[p][l])
            <7>1. lane'[p][l].at = lane[p][l].at
              BY <4>3, <5>2, <6>1 DEF LaneMove
            <7> QED BY <4>3, <5>2, <6>1, <7>1
          <6>2. CASE ~Holding(lane'[p][l])
            BY <1>11, <4>3, <5>2, <6>2 DEF LaneMove
          <6> QED BY <6>1, <6>2
        <5> QED BY <5>1, <5>2
      <4> QED BY <4>1, <4>2, <4>3
    <3>3. CASE i \notin 1..next[q] - 1
      <4>1. q = p /\ i = next[p] /\ lane'[p][l].at = next[p] /\ Holding(lane'[p][l])
        <5>1. q = p
          BY <1>2, <2>4, <3>3
        <5>2. i \in 1..next'[p] - 1 /\ i \notin 1..next[p] - 1
          BY <2>4, <3>3, <5>1
        <5> QED BY <1>2, <5>1, <5>2
      <4> QED BY <4>1
    <3> QED BY <3>2, <3>3
  <2> QED BY <2>1, <2>3, <2>4 DEF Complete
<1>12. ASSUME NEW q \in PoolIx PROVE Complete(q)'
  <2>1. CASE clean'
    BY <1>11, <2>1
  <2>2. CASE ~clean'
    BY <2>2 DEF Complete
  <2> QED BY <2>1, <2>2
<1>13. \A q \in PoolIx : (Live(q)' => Live(q)) /\ (Begun(q)' => Begun(q))
  <2>1. lane[p][l].pc \notin {"off", "ended"}
    BY DEF LaneMove
  <2> QED BY <1>4, <2>1 DEF Live, Begun
<1>14. ASSUME NEW q \in PoolIx, NEW s \in PoolIx PROVE Apart(q, s)'
  BY <1>13 DEF Apart, ExportInv
<1> QED BY <1>3, <1>7, <1>9, <1>12, <1>14 DEF ExportInv, FilesMove

LEMMA SharedFiles ==
  ASSUME NEW a \in DOMAIN Pools, NEW b \in DOMAIN Pools,
         NEW i \in DOMAIN Pools[a].files, NEW j \in DOMAIN Pools[b].files,
         a < b, Pools[a].files[i] = Pools[b].files[j]
  PROVE  \A r \in a..b : Pools[r].step = Pools[a].step
BY ExportAssumption, Zenon

(* Two lanes that write or rename hold different files, but for those that *)
(* a pool names twice.                                                     *)
LEMMA FilesHeldApart ==
  ASSUME ExportInv, NEW p \in PoolIx, NEW q \in PoolIx, NEW l \in Lane, NEW m \in Lane,
         lane[p][l].pc \in {"write", "rename"}, lane[q][m].pc \in {"write", "rename"}, p # q \/ l # m
  PROVE  FileOf(p, l) # FileOf(q, m) \/ FileOf(p, l) \in Twice
<1>1. ASSUME NEW a \in PoolIx, NEW k \in Lane, lane[a][k].pc \in {"write", "rename"}
      PROVE  /\ Holding(lane[a][k]) /\ lane[a][k].at \in Wanted(a) /\ a \in Int
             /\ Live(a) /\ Begun(a) /\ DOMAIN Pools[a].files = Wanted(a) /\ a \in DOMAIN Pools
  <2>1. Holding(lane[a][k]) /\ Live(a) /\ Begun(a)
    BY <1>1 DEF Holding, Live, Begun
  <2>2. LaneSound(a, k) /\ next[a] \in Nat /\ lane[a][k].at \in Nat
    BY DEF ExportInv, ExportTypes, LaneRecord
  <2>3. lane[a][k].at \in Wanted(a)
    BY <2>1, <2>2, ExportNumbers DEF LaneSound, Wanted
  <2> QED BY <2>1, <2>3, ExportNumbers
<1>2. CASE p = q
  <2>1. lane[p][l].at # lane[p][m].at
    BY <1>1, <1>2 DEF ExportInv, LaneSound
  <2>2. PICK i, j : i = lane[p][l].at /\ j = lane[p][m].at
    OBVIOUS
  <2>3. i \in Wanted(p) /\ j \in Wanted(p) /\ i # j /\ FileAt(p, i) \in File
    BY <1>1, <1>2, <2>1, <2>2, ExportNumbers
  <2>4. FileAt(p, i) = FileAt(p, j) => FileAt(p, i) \in Twice
    BY <2>3 DEF Twice, Wanted, FileAt
  <2> QED BY <1>2, <2>2, <2>4 DEF FileOf, FileAt
<1>3. ASSUME NEW a \in PoolIx, NEW b \in PoolIx, NEW k \in Lane, NEW n \in Lane,
             lane[a][k].pc \in {"write", "rename"}, lane[b][n].pc \in {"write", "rename"}, a < b
      PROVE  FileOf(a, k) # FileOf(b, n)
  <2>1. \E r \in a..b : Pools[r].step # Pools[a].step
    BY <1>1, <1>3 DEF ExportInv, Apart
  <2>2. PICK i, j : i = lane[a][k].at /\ j = lane[b][n].at
    OBVIOUS
  <2>3. i \in DOMAIN Pools[a].files /\ j \in DOMAIN Pools[b].files /\ a \in DOMAIN Pools /\ b \in DOMAIN Pools
    BY <1>1, <1>3, <2>2
  <2>4. Pools[a].files[i] # Pools[b].files[j]
    BY <1>3, <2>1, <2>3, SharedFiles
  <2> QED BY <2>2, <2>4 DEF FileOf
<1>4. p < q \/ q < p \/ p = q
  BY <1>1
<1> QED BY <1>2, <1>3, <1>4

LEMMA HeldIsWanted ==
  ASSUME ExportInv, NEW p \in PoolIx, NEW l \in Lane, Holding(lane[p][l])
  PROVE  /\ lane[p][l].at \in Wanted(p) /\ FileOf(p, l) = FileAt(p, lane[p][l].at)
         /\ FileOf(p, l) \in File
         /\ lane[p][l].at <= Len(Pools[p].files)
<1>1. LaneSound(p, l) /\ next[p] \in 1..Len(Pools[p].files) + 1 /\ lane[p][l].at \in Nat
  BY DEF ExportInv, ExportTypes, LaneRecord
<1>2. lane[p][l].at \in Wanted(p)
  BY <1>1, ExportNumbers DEF LaneSound, Wanted
<1> QED BY <1>1, <1>2, ExportNumbers DEF FileOf, FileAt, LaneSound

LEMMA RenamingHolds ==
  ASSUME ExportInv
  PROVE  Renaming
BY DEF ExportInv, LaneSound, Renaming

(* A step of a lane that writes nothing, and does not come to a rename. *)
LEMMA QuietStep ==
  ASSUME ExportInv, NEW p \in PoolIx, NEW l \in Lane, LaneMove(p, l),
         UNCHANGED <<file, part, phase, remote, exports>>, clean' \in BOOLEAN, clean' => clean,
         lane'[p][l].pc # "rename"
  PROVE  ExportInv'
<1>1. FilesMove
  BY DEF FilesMove, ExportInv, ExportTypes, NoPieces, Mended, Copied, Twice
<1>2. Renaming'
  <2>1. ASSUME NEW q \in PoolIx, NEW m \in Lane, lane'[q][m].pc = "rename"
        PROVE  FileOf(q, m)' \notin Mended \/ part'[FileOf(q, m)'] = "whole"
    <3>1. lane'[q][m] = lane[q][m]
      BY <2>1 DEF LaneMove, Others
    <3>2. FileOf(q, m)' = FileOf(q, m)
      BY <3>1 DEF FileOf
    <3> QED BY <2>1, <3>1, <3>2, RenamingHolds DEF Renaming
  <2>2. Mended' = Mended
    BY DEF Mended, Copied, Twice
  <2> QED BY <2>1, <2>2 DEF Renaming
<1> QED BY <1>1, <1>2, LaneStepsSound

LEMMA KeptTypes ==
  ASSUME ExportInv
  PROVE  /\ ExportTypes /\ clean \in BOOLEAN
         /\ \A p \in PoolIx, l \in Lane : lane[p][l] \in LaneRecord /\ lane[p][l].at \in Nat
         /\ \A p \in PoolIx : next[p] \in 1..Len(Pools[p].files) + 1
BY DEF ExportInv, ExportTypes, LaneRecord

(* A lane that holds a file and goes on with it. *)
LEMMA GoesOn ==
  ASSUME ExportInv, NEW p \in PoolIx, NEW l \in Lane, Holding(lane[p][l]),
         NEW r \in LaneRecord, lane' = [lane EXCEPT ![p][l] = r], Holding(r), r.at = lane[p][l].at,
         next' = next
  PROVE  LaneMove(p, l) /\ lane'[p][l] = r /\ Others(p, l)
<1>1. lane' \in [PoolIx -> [Lane -> LaneRecord]] /\ lane'[p][l] = r /\ Others(p, l)
  BY LanePut, KeptTypes
<1> QED BY <1>1, HeldIsWanted DEF LaneMove, Holding

LEMMA TakeStep ==
  ASSUME ExportInv, NEW p \in PoolIx, NEW l \in Lane, Take(p, l)
  PROVE  ExportInv'
<1>1. lane[p][l].pc = "take" /\ UNCHANGED <<file, part, phase, clean, remote, exports>> /\ ~Holding(lane[p][l])
  BY DEF Take, LaneAt, Holding
<1>2. next[p] \in 1..Len(Pools[p].files) + 1 /\ clean \in BOOLEAN /\ Len(Pools[p].files) \in Nat
  BY KeptTypes, ExportNumbers
<1>3. CASE next[p] > Len(Pools[p].files)
  <2>1. PICK r : r = [Off EXCEPT !.pc = "ended"]
    OBVIOUS
  <2>2. r \in LaneRecord /\ r.pc = "ended" /\ r.at = 0
    BY <2>1, OffRecord DEF LanePc
  <2>3. lane' = [lane EXCEPT ![p][l] = r] /\ next' = next
    <3>1. ~(next[p] <= Len(Pools[p].files))
      BY <1>2, <1>3
    <3> QED BY <2>1, <3>1 DEF Take, PutLane
  <2>4. lane' \in [PoolIx -> [Lane -> LaneRecord]] /\ lane'[p][l] = r /\ Others(p, l)
    BY <2>2, <2>3, LanePut, KeptTypes
  <2>5. LaneMove(p, l)
    BY <1>1, <1>2, <1>3, <2>2, <2>3, <2>4 DEF LaneMove, Holding
  <2> QED BY <1>1, <1>2, <2>2, <2>4, <2>5, QuietStep
<1>4. CASE ~(next[p] > Len(Pools[p].files))
  <2>0. PICK pc \in {"lookup", "check"} : PutLane(p, l, [Off EXCEPT !.pc = pc, !.at = next[p]])
    BY <1>4 DEF Take
  <2>1. PICK r : r = [Off EXCEPT !.pc = pc, !.at = next[p]]
    OBVIOUS
  <2>2. r \in LaneRecord /\ r.pc \in {"lookup", "check"} /\ r.at = next[p]
    <3>1. Off \in LaneRecord /\ next[p] \in Nat /\ pc \in LanePc
      BY <1>2, OffRecord DEF LanePc
    <3> QED BY <2>1, <3>1 DEF LaneRecord
  <2>3. lane' = [lane EXCEPT ![p][l] = r] /\ next' = [next EXCEPT ![p] = @ + 1]
    BY <1>4, <2>0, <2>1 DEF Take, PutLane
  <2>4. lane' \in [PoolIx -> [Lane -> LaneRecord]] /\ lane'[p][l] = r /\ Others(p, l)
    BY <2>2, <2>3, LanePut, KeptTypes
  <2>5. LaneMove(p, l)
    BY <1>1, <1>2, <1>4, <2>2, <2>3, <2>4 DEF LaneMove, Holding
  <2> QED BY <1>1, <1>2, <2>2, <2>4, <2>5, QuietStep
<1> QED BY <1>3, <1>4

(* What a Goto of a lane that holds a file comes to. *)
LEMMA GoneTo ==
  ASSUME ExportInv, NEW p \in PoolIx, NEW l \in Lane, Holding(lane[p][l]), NEW pc \in LanePc,
         Goto(p, l, pc), pc \notin {"off", "unlisted", "ended"}, next' = next,
         pc = "take" /\ clean' => file'[FileOf(p, l)] # "none"
  PROVE  LaneMove(p, l) /\ lane'[p][l].pc = pc /\ lane'[p][l].at = lane[p][l].at /\ Others(p, l)
<1>1. /\ lane' \in [PoolIx -> [Lane -> LaneRecord]] /\ Others(p, l)
      /\ lane'[p][l].pc = pc /\ lane'[p][l].at = lane[p][l].at
  BY GotoPut, KeptTypes
<1>2. Holding(lane'[p][l]) \/ pc = "take"
  BY <1>1 DEF Holding, LanePc
<1>3. lane[p][l].at <= Len(Pools[p].files) /\ FileOf(p, l) = FileAt(p, lane[p][l].at)
  BY HeldIsWanted
<1>4. lane[p][l].pc \notin {"off", "ended"} /\ ~(pc = "take" /\ Holding(lane'[p][l]))
  BY <1>1 DEF Holding
<1> QED BY <1>1, <1>2, <1>3, <1>4 DEF LaneMove

LEMMA LookupStep ==
  ASSUME ExportInv, NEW p \in PoolIx, NEW l \in Lane, Lookup(p, l)
  PROVE  ExportInv'
<1>1. Holding(lane[p][l]) /\ UNCHANGED <<file, part, next, phase, clean, remote, exports>> /\ clean \in BOOLEAN
  BY KeptTypes DEF Lookup, LaneAt, Holding
<1>2. PICK pc \in {"check", "failed"} : Goto(p, l, pc)
  BY DEF Lookup
<1>3. LaneMove(p, l) /\ lane'[p][l].pc = pc
  BY <1>1, <1>2, GoneTo DEF LanePc
<1> QED BY <1>1, <1>3, QuietStep

(* A lane that goes on with its file, in a state it is put in as it was.   *)
LEMMA PutsOn ==
  ASSUME ExportInv, NEW p \in PoolIx, NEW l \in Lane, Holding(lane[p][l]),
         NEW r \in LaneRecord, PutLane(p, l, r), Holding(r), r.at = lane[p][l].at, r.pc # "rename",
         UNCHANGED <<file, part, next, phase, clean, remote, exports>>
  PROVE  ExportInv'
<1>1. LaneMove(p, l) /\ lane'[p][l] = r
  BY GoesOn DEF PutLane
<1> QED BY <1>1, KeptTypes, QuietStep

LEMMA ExistsStep ==
  ASSUME ExportInv, NEW p \in PoolIx, NEW l \in Lane, FileExistsNonEmpty(p, l)
  PROVE  ExportInv'
<1>1. Holding(lane[p][l]) /\ UNCHANGED <<file, part, next, phase, clean, remote, exports>> /\ clean \in BOOLEAN
  BY KeptTypes DEF FileExistsNonEmpty, LaneAt, Holding
<1>2. ASSUME NEW pc \in {"take", "write"}, Goto(p, l, pc), pc = "take" => file[FileOf(p, l)] # "none"
      PROVE  ExportInv'
  <2>1. LaneMove(p, l) /\ lane'[p][l].pc = pc
    BY <1>1, <1>2, GoneTo DEF LanePc
  <2> QED BY <1>1, <2>1, QuietStep
<1>3. CASE PutLane(p, l, [lane[p][l] EXCEPT !.pc = "fetch"])
  <2>1. PICK r : r = [lane[p][l] EXCEPT !.pc = "fetch"]
    OBVIOUS
  <2>2. lane[p][l] \in LaneRecord /\ "fetch" \in LanePc
    BY KeptTypes DEF LanePc
  <2>3. r \in LaneRecord /\ r.pc = "fetch" /\ r.at = lane[p][l].at
    BY <2>1, <2>2 DEF LaneRecord
  <2>4. Holding(r) /\ r.pc # "rename" /\ PutLane(p, l, r)
    BY <1>3, <2>1, <2>3 DEF Holding
  <2> QED BY <1>1, <2>3, <2>4, PutsOn
<1> QED BY <1>2, <1>3 DEF FileExistsNonEmpty

LEMMA FetchedStep ==
  ASSUME ExportInv, NEW p \in PoolIx, NEW l \in Lane, NextPage(p, l) \/ FetchedFile(p, l)
  PROVE  ExportInv'
<1>1. Holding(lane[p][l]) /\ UNCHANGED <<file, part, next, phase, clean, remote, exports>> /\ clean \in BOOLEAN
  BY KeptTypes DEF NextPage, FetchedFile, LaneAt, Holding
<1>2. PICK pc \in {"fetch", "write", "recheck"} : Goto(p, l, pc)
  BY DEF NextPage, FetchedFile
<1>3. LaneMove(p, l) /\ lane'[p][l].pc = pc
  BY <1>1, <1>2, GoneTo DEF LanePc
<1> QED BY <1>1, <1>3, QuietStep

LEMMA FailsHere ==
  ASSUME ExportInv, NEW p \in PoolIx, NEW l \in Lane, Holding(lane[p][l]), Goto(p, l, "failed"),
         UNCHANGED <<file, part, next, phase, clean, remote, exports>>
  PROVE  ExportInv'
<1>1. LaneMove(p, l) /\ lane'[p][l].pc = "failed"
  BY GoneTo DEF LanePc
<1> QED BY <1>1, KeptTypes, QuietStep

LEMMA RefusedStep ==
  ASSUME ExportInv, NEW p \in PoolIx, NEW l \in Lane, TokenRefused(p, l) \/ TryAgain(p, l)
  PROVE  ExportInv'
<1>1. /\ Holding(lane[p][l]) /\ UNCHANGED <<file, part, next, phase, clean, remote, exports>>
      /\ lane[p][l].pc = "fetch"
  BY DEF TokenRefused, TryAgain, LaneAt, Holding
<1>2. lane[p][l] \in LaneRecord /\ MaxTries \in Nat
  BY KeptTypes, ExportNumbers
<1>3. CASE Goto(p, l, "failed")
  BY <1>1, <1>3, FailsHere
<1>4. CASE PutLane(p, l, [lane[p][l] EXCEPT !.renewed = TRUE])
  <2>1. PICK r : r = [lane[p][l] EXCEPT !.renewed = TRUE]
    OBVIOUS
  <2>2. r \in LaneRecord /\ r.pc = "fetch" /\ r.at = lane[p][l].at
    BY <1>1, <1>2, <2>1 DEF LaneRecord
  <2>3. Holding(r) /\ r.pc # "rename" /\ PutLane(p, l, r)
    BY <1>4, <2>1, <2>2 DEF Holding
  <2> QED BY <1>1, <2>2, <2>3, PutsOn
<1>5. CASE TryAgain(p, l) /\ lane[p][l].tries < MaxTries
  <2>1. PICK pc \in {"check", "fetch"} : pc = IF Download(p) THEN "check" ELSE "fetch"
    OBVIOUS
  <2>2. PICK r : r = [lane[p][l] EXCEPT !.tries = lane[p][l].tries + 1, !.pc = pc]
    OBVIOUS
  <2>3. lane[p][l].tries + 1 \in 0..MaxTries /\ pc \in LanePc
    <3>1. lane[p][l].tries \in 0..MaxTries
      BY <1>2 DEF LaneRecord
    <3> QED BY <1>2, <1>5, <3>1 DEF LanePc
  <2>4. r \in LaneRecord /\ r.pc = pc /\ r.at = lane[p][l].at
    BY <1>2, <2>2, <2>3 DEF LaneRecord
  <2>5. PutLane(p, l, r)
    BY <1>2, <1>5, <2>1, <2>2 DEF TryAgain
  <2>6. Holding(r) /\ r.pc # "rename"
    BY <2>4 DEF Holding
  <2> QED BY <1>1, <2>4, <2>5, <2>6, PutsOn
<1> QED BY <1>3, <1>4, <1>5 DEF TokenRefused, TryAgain

LEMMA NothingStep ==
  ASSUME ExportInv, NEW p \in PoolIx, NEW l \in Lane, NothingComes(p, l)
  PROVE  ExportInv'
<1>1. Holding(lane[p][l]) /\ UNCHANGED <<file, part, next, phase, remote, exports>> /\ clean \in BOOLEAN
  BY KeptTypes DEF NothingComes, LaneAt, Holding
<1>2. CASE Goto(p, l, "failed") /\ UNCHANGED clean
  BY <1>1, <1>2, FailsHere
<1>3. CASE Goto(p, l, "take") /\ clean' = FALSE
  <2>1. LaneMove(p, l) /\ lane'[p][l].pc = "take"
    BY <1>1, <1>3, GoneTo DEF LanePc
  <2> QED BY <1>1, <1>3, <2>1, QuietStep
<1> QED BY <1>2, <1>3 DEF NothingComes

(* The file that is held may come to be whole; no other changes.           *)
OnlyFile(f, state) ==
  /\ file' \in [File -> FileState] /\ file'[f] = state /\ state \in {"piece", "whole"}
  /\ \A g \in File \ {f} : file'[g] = file[g]
  /\ state = "piece" => f \notin Mended

LEMMA OnlyFileMoves ==
  ASSUME ExportInv, NEW f \in File, NEW state, OnlyFile(f, state), part' \in [File -> FileState],
         UNCHANGED <<phase, clean, remote, exports>>
  PROVE  FilesMove
<1>1. NoPieces'
  <2>1. Mended' = Mended /\ Mended \subseteq File
    BY DEF Mended, Copied, Twice
  <2>2. \A g \in Mended : file'[g] # "piece"
    BY DEF OnlyFile, ExportInv, NoPieces, Mended
  <2> QED BY <2>1, <2>2 DEF NoPieces
<1> QED BY <1>1, KeptTypes DEF OnlyFile, FilesMove

(* The piece that a lane writes or renames is the doing of no other lane   *)
(* that renames, but for a file named twice.                               *)
LEMMA OthersRename ==
  ASSUME ExportInv, NEW p \in PoolIx, NEW l \in Lane, lane[p][l].pc \in {"write", "rename"}, Others(p, l),
         NEW f \in File, f = FileOf(p, l), \A g \in File \ {f} : part'[g] = part[g],
         lane'[p][l].pc = "rename" =>
           lane'[p][l].at = lane[p][l].at /\ (f \notin Mended \/ part'[f] = "whole")
  PROVE  Renaming'
<1>1. ASSUME NEW q \in PoolIx, NEW m \in Lane, lane'[q][m].pc = "rename"
      PROVE  FileOf(q, m)' \notin Mended \/ part'[FileOf(q, m)'] = "whole"
  <2>1. CASE q = p /\ m = l
    BY <1>1, <2>1 DEF FileOf
  <2>2. CASE ~(q = p /\ m = l)
    <3>1. lane'[q][m] = lane[q][m] /\ FileOf(q, m)' = FileOf(q, m)
      BY <2>2 DEF Others, FileOf
    <3>2. FileOf(q, m) \notin Mended \/ part[FileOf(q, m)] = "whole"
      BY <1>1, <3>1, RenamingHolds DEF Renaming
    <3>3. FileOf(q, m) \in File
      BY <1>1, <3>1, HeldIsWanted DEF Holding
    <3>4. FileOf(q, m) # f \/ FileOf(q, m) \notin Mended
      BY <1>1, <2>2, <3>1, FilesHeldApart DEF Mended
    <3> QED BY <3>1, <3>2, <3>3, <3>4
  <2> QED BY <2>1, <2>2
<1>2. Mended' = Mended
  BY DEF Mended, Copied, Twice
<1> QED BY <1>1, <1>2 DEF Renaming

LEMMA WriteStep ==
  ASSUME ExportInv, NEW p \in PoolIx, NEW l \in Lane, Write(p, l)
  PROVE  ExportInv'
<1>1. lane[p][l].pc = "write" /\ Holding(lane[p][l]) /\ UNCHANGED <<next, phase, clean, remote, exports>>
  BY DEF Write, LaneAt, Holding
<1>2. PICK f \in File : f = FileOf(p, l)
  BY <1>1, HeldIsWanted
<1>3. file \in [File -> FileState] /\ part \in [File -> FileState] /\ "whole" \in FileState
  BY KeptTypes DEF ExportTypes, FileState
<1>4. CASE InPlace(p) /\ file' = [file EXCEPT ![f] = "whole"] /\ Goto(p, l, "take") /\ part' = part
  <2>1. OnlyFile(f, "whole")
    BY <1>3, <1>4 DEF OnlyFile
  <2>2. LaneMove(p, l) /\ lane'[p][l].pc = "take" /\ Others(p, l)
    BY <1>1, <1>2, <1>4, <2>1, GoneTo DEF LanePc, OnlyFile
  <2>3. Renaming'
    BY <1>1, <1>2, <1>4, <2>2, OthersRename
  <2>4. FilesMove
    BY <1>1, <1>3, <1>4, <2>1, OnlyFileMoves
  <2> QED BY <2>2, <2>3, <2>4, LaneStepsSound
<1>5. CASE ~InPlace(p) /\ part' = [part EXCEPT ![f] = "whole"] /\ Goto(p, l, "rename") /\ file' = file
  <2>1. part' \in [File -> FileState] /\ part'[f] = "whole" /\ \A g \in File \ {f} : part'[g] = part[g]
    BY <1>3, <1>5
  <2>2. LaneMove(p, l) /\ lane'[p][l].pc = "rename" /\ lane'[p][l].at = lane[p][l].at /\ Others(p, l)
    BY <1>1, <1>5, GoneTo DEF LanePc
  <2>3. Renaming'
    BY <1>1, <1>2, <2>1, <2>2, OthersRename
  <2>4. FilesMove
    <3>1. NoPieces'
      BY <1>5 DEF NoPieces, Mended, Copied, Twice, ExportInv
    <3> QED BY <1>1, <1>3, <1>5, <2>1, <3>1, KeptTypes DEF FilesMove
  <2> QED BY <2>2, <2>3, <2>4, LaneStepsSound
<1>6. CASE /\ ~InPlace(p) /\ file[f] = "piece" /\ file' = [file EXCEPT ![f] = "whole"]
           /\ Goto(p, l, "rename") /\ part' = part
  <2>1. OnlyFile(f, "whole")
    BY <1>3, <1>6 DEF OnlyFile
  <2>2. LaneMove(p, l) /\ lane'[p][l].pc = "rename" /\ lane'[p][l].at = lane[p][l].at /\ Others(p, l)
    BY <1>1, <1>6, GoneTo DEF LanePc
  <2>0. f \notin Mended
    BY <1>6 DEF ExportInv, NoPieces
  <2>3. Renaming'
    BY <1>1, <1>2, <1>6, <2>0, <2>2, OthersRename
  <2>4. FilesMove
    BY <1>1, <1>3, <1>6, <2>1, OnlyFileMoves
  <2> QED BY <2>2, <2>3, <2>4, LaneStepsSound
<1> QED BY <1>2, <1>4, <1>5, <1>6 DEF Write

LEMMA WriteFailsStep ==
  ASSUME ExportInv, NEW p \in PoolIx, NEW l \in Lane, WriteFails(p, l)
  PROVE  ExportInv'
<1>1. /\ lane[p][l].pc \in {"write", "rename"} /\ Holding(lane[p][l]) /\ Goto(p, l, "failed")
      /\ UNCHANGED <<next, phase, clean, remote, exports>>
  BY DEF WriteFails, LaneAt, Holding
<1>2. PICK f \in File : f = FileOf(p, l)
  BY <1>1, HeldIsWanted
<1>3. file \in [File -> FileState] /\ part \in [File -> FileState] /\ "piece" \in FileState
  BY KeptTypes DEF ExportTypes, FileState
<1>4. LaneMove(p, l) /\ lane'[p][l].pc = "failed" /\ Others(p, l)
  BY <1>1, GoneTo DEF LanePc
<1>5. CASE UNCHANGED <<file, part>>
  BY <1>1, <1>5, FailsHere
<1>6. CASE InPlace(p) /\ file' = [file EXCEPT ![f] = "piece"] /\ part' = part
  <2>1. f \notin Mended
    <3>1. PICK i \in Wanted(p) : FileAt(p, i) = f
      BY <1>1, <1>2, HeldIsWanted
    <3> QED BY <1>6, <3>1 DEF Mended, Copied, InPlace, Wanted, FileAt
  <2>2. OnlyFile(f, "piece")
    BY <1>3, <1>6, <2>1 DEF OnlyFile
  <2>3. Renaming'
    BY <1>1, <1>2, <1>4, <1>6, OthersRename
  <2>4. FilesMove
    BY <1>1, <1>3, <1>6, <2>2, OnlyFileMoves
  <2> QED BY <1>4, <2>3, <2>4, LaneStepsSound
<1>7. CASE part' = [part EXCEPT ![f] = "piece"] /\ file' = file
  <2>1. part' \in [File -> FileState] /\ \A g \in File \ {f} : part'[g] = part[g]
    BY <1>3, <1>7
  <2>2. Renaming'
    BY <1>1, <1>2, <1>4, <2>1, OthersRename
  <2>3. FilesMove
    <3>1. NoPieces'
      BY <1>7 DEF NoPieces, Mended, Copied, Twice, ExportInv
    <3> QED BY <1>1, <1>3, <1>7, <2>1, <3>1, KeptTypes DEF FilesMove
  <2> QED BY <1>4, <2>2, <2>3, LaneStepsSound
<1> QED BY <1>2, <1>5, <1>6, <1>7 DEF WriteFails

LEMMA RenameStep ==
  ASSUME ExportInv, NEW p \in PoolIx, NEW l \in Lane, Rename(p, l)
  PROVE  ExportInv'
<1>1. /\ lane[p][l].pc = "rename" /\ Holding(lane[p][l]) /\ Goto(p, l, "take")
      /\ UNCHANGED <<next, phase, clean, remote, exports>>
  BY DEF Rename, LaneAt, Holding
<1>2. PICK f \in File : f = FileOf(p, l)
  BY <1>1, HeldIsWanted
<1>3. file \in [File -> FileState] /\ part \in [File -> FileState] /\ "none" \in FileState
  BY KeptTypes DEF ExportTypes, FileState
<1>4. PICK state : /\ file' = [file EXCEPT ![f] = state]
                   /\ state = part[f] \/ (state = "piece" /\ Overwritten(p, l))
  BY <1>2 DEF Rename
<1>5. part[f] # "none" /\ part' = [part EXCEPT ![f] = "none"]
  BY <1>2 DEF Rename
<1>6. state \in {"piece", "whole"}
  BY <1>3, <1>4, <1>5 DEF FileState
<1>7. ASSUME f \in Mended PROVE state = "whole"
  <2>1. part[f] = "whole"
    BY <1>1, <1>2, <1>7, RenamingHolds DEF Renaming
  <2>2. ~Overwritten(p, l)
    BY <1>1, <1>2, <1>7, FilesHeldApart DEF Overwritten, LaneAt, Mended
  <2> QED BY <1>4, <2>1, <2>2
<1>8. OnlyFile(f, state) /\ part' \in [File -> FileState] /\ \A g \in File \ {f} : part'[g] = part[g]
  <2>1. state \in FileState
    BY <1>6 DEF FileState
  <2> QED BY <1>3, <1>4, <1>5, <1>6, <1>7, <2>1 DEF OnlyFile
<1>9. LaneMove(p, l) /\ lane'[p][l].pc = "take" /\ Others(p, l)
  <2>1. file'[FileOf(p, l)] # "none"
    BY <1>2, <1>8 DEF OnlyFile
  <2> QED BY <1>1, <2>1, GoneTo DEF LanePc
<1>10. Renaming'
  BY <1>1, <1>2, <1>8, <1>9, OthersRename
<1>11. FilesMove
  BY <1>1, <1>8, OnlyFileMoves
<1> QED BY <1>9, <1>10, <1>11, LaneStepsSound

----------------------------------------------------------------------------
(* The run moves. *)

LEMMA WholeRest ==
  ASSUME ExportInv, UNCHANGED <<file, part>>
  PROVE  /\ file' \in [File -> FileState] /\ part' \in [File -> FileState]
         /\ \A f \in Mended : file'[f] # "piece"
BY KeptTypes DEF ExportTypes, ExportInv, NoPieces

LEMMA PoolLanes ==
  ASSUME NEW p \in PoolIx, StartPool(p), ExportTypes
  PROVE  /\ lane' \in [PoolIx -> [Lane -> LaneRecord]]
         /\ \A q \in PoolIx \ {p} : lane'[q] = lane[q]
         /\ \A l \in Lane : /\ lane'[p][l].at = 0
                            /\ lane'[p][l].pc \in {"take", "unlisted", "ended"}
                            /\ lane'[p][l].pc = "ended" => l \notin Lanes(p)
<1>1. p # Readme
  BY ExportNumbers
<1>2. PICK pc \in {"take", "unlisted"} :
        lane' = [lane EXCEPT ![p] = [l \in Lane |-> [Off EXCEPT !.pc = IF l \in Lanes(p) THEN pc ELSE "ended"]]]
  BY <1>1 DEF StartPool
<1>3. PICK r : r = [l \in Lane |-> [Off EXCEPT !.pc = IF l \in Lanes(p) THEN pc ELSE "ended"]]
               /\ lane' = [lane EXCEPT ![p] = r]
  BY <1>2
<1>4. ASSUME NEW l \in Lane
      PROVE  /\ r[l] \in LaneRecord /\ r[l].at = 0 /\ r[l].pc \in {"take", "unlisted", "ended"}
             /\ r[l].pc = "ended" => l \notin Lanes(p)
  <2>1. PICK c \in LanePc : c = (IF l \in Lanes(p) THEN pc ELSE "ended")
    BY DEF LanePc
  <2>2. r[l] = [Off EXCEPT !.pc = c]
    BY <1>3, <2>1
  <2>3. r[l] \in LaneRecord /\ r[l].at = 0 /\ r[l].pc = c
    BY <2>2, OffRecord
  <2>4. c \in {"take", "unlisted", "ended"} /\ (c = "ended" => l \notin Lanes(p))
    BY <2>1
  <2> QED BY <2>3, <2>4
<1>5. r \in [Lane -> LaneRecord]
  BY <1>3, <1>4
<1>6. lane'[p] = r /\ \A q \in PoolIx \ {p} : lane'[q] = lane[q]
  BY <1>3 DEF ExportTypes
<1>7. lane' \in [PoolIx -> [Lane -> LaneRecord]]
  BY <1>3, <1>5 DEF ExportTypes
<1> QED BY <1>4, <1>6, <1>7

LEMMA PhaseSet ==
  ASSUME ExportInv, UNCHANGED <<file, part, next>>, lane' \in [PoolIx -> [Lane -> LaneRecord]],
         phase' \in NotRunning..Done, clean' \in BOOLEAN, remote' \in BOOLEAN, exports' \in 0..MaxExports
  PROVE  ExportTypes' /\ NoPieces'
BY DEF ExportInv, ExportTypes, NoPieces, Mended, Copied, Twice

(* Nothing changes but the phase, or the address while no lane is there.   *)
LEMMA PhaseMoves ==
  ASSUME ExportInv, UNCHANGED <<file, part, lane, next>>, phase' \in NotRunning..Done,
         clean' \in BOOLEAN, remote' \in BOOLEAN, exports' \in 0..MaxExports,
         remote' = remote \/ \A p \in PoolIx, l \in Lane : lane[p][l].pc = "off",
         \A p \in PoolIx : phase' < p => phase < p, \A p \in PoolIx : Complete(p)'
  PROVE  ExportInv'
<1>1. ExportTypes' /\ NoPieces'
  BY PhaseSet, KeptTypes DEF ExportTypes
<1>2. ASSUME NEW p \in PoolIx, NEW l \in Lane PROVE LaneSound(p, l)'
  <2>1. LaneSound(p, l) /\ Mended' = Mended
    BY DEF ExportInv, Mended, Copied, Twice
  <2>2. Lanes(p)' = Lanes(p) \/ lane[p][l].pc = "off"
    BY SkippedKept
  <2> QED BY <2>1, <2>2 DEF LaneSound, FileOf
<1>3. ASSUME NEW p \in PoolIx PROVE NotYet(p)'
  <2>1. NotYet(p)
    BY DEF ExportInv
  <2> QED BY <2>1 DEF NotYet
<1>4. ASSUME NEW p \in PoolIx, NEW q \in PoolIx PROVE Apart(p, q)'
  <2>1. Apart(p, q)
    BY DEF ExportInv
  <2> QED BY <2>1 DEF Apart, Live, Begun
<1> QED BY <1>1, <1>2, <1>3, <1>4 DEF ExportInv

(* A pool begins, or what follows the last one. *)
LEMMA PoolStarts ==
  ASSUME ExportInv, NEW p \in 1..Readme, phase < p, StartPool(p),
         UNCHANGED <<file, part, next, remote, exports>>, clean' \in BOOLEAN,
         p \in PoolIx => \A q \in PoolIx : q < p /\ Live(q) => \E r \in q..p : Pools[r].step # Pools[q].step,
         clean' => \A q \in PoolIx : q < p /\ ~Skipped(q) => \A i \in Wanted(q) : file[FileAt(q, i)] # "none"
  PROVE  ExportInv'
<1>1. ExportTypes /\ phase \in Int /\ p \in Int /\ phase' = p /\ p \in NotRunning..Done
  BY ExportNumbers DEF StartPool, ExportInv, ExportTypes
<1>2. \A q \in PoolIx : q \in Int /\ q < Readme /\ Len(Pools[q].files) \in Nat
  BY ExportNumbers
<1>3. exports' \in 0..MaxExports /\ remote' \in BOOLEAN
  BY <1>1 DEF ExportTypes
<1>0. \A q \in PoolIx : (Skipped(q)' <=> Skipped(q)) /\ Lanes(q)' = Lanes(q)
  BY SkippedKept
<1>4. CASE p = Readme
  <2>1. lane' = lane
    BY <1>4 DEF StartPool
  <2>2. \A q \in PoolIx : Complete(q)'
    BY <1>0, <1>1, <1>2, <1>4 DEF Complete
  <2>3. \A q \in PoolIx : phase' < q => phase < q
    BY <1>1, <1>2, <1>4
  <2> QED BY <1>1, <1>3, <2>1, <2>2, <2>3, PhaseMoves
<1>5. CASE p \in PoolIx
  <2>1. /\ lane' \in [PoolIx -> [Lane -> LaneRecord]]
        /\ \A q \in PoolIx \ {p} : lane'[q] = lane[q]
        /\ \A l \in Lane : /\ lane'[p][l].at = 0
                           /\ lane'[p][l].pc \in {"take", "unlisted", "ended"}
                           /\ lane'[p][l].pc = "ended" => l \notin Lanes(p)
    BY <1>1, <1>5, PoolLanes
  <2>2. ExportTypes' /\ NoPieces'
    BY <1>1, <1>3, <2>1, PhaseSet
  <2>3. ASSUME NEW q \in PoolIx, NEW l \in Lane PROVE LaneSound(q, l)'
    <3>1. CASE q = p
      <4>1. ~Holding(lane'[p][l]) /\ lane'[p][l].pc # "rename"
        BY <2>1 DEF Holding
      <4> QED BY <1>0, <1>2, <2>1, <3>1, <4>1 DEF LaneSound
    <3>2. CASE q # p
      <4>1. LaneSound(q, l) /\ lane'[q] = lane[q] /\ Mended' = Mended
        BY <2>1, <3>2 DEF ExportInv, Mended, Copied, Twice
      <4> QED BY <1>0, <4>1 DEF LaneSound, FileOf
    <3> QED BY <3>1, <3>2
  <2>4. ASSUME NEW q \in PoolIx PROVE NotYet(q)' /\ Complete(q)'
    <3>1. NotYet(q) /\ NotYet(p) /\ next[p] = 1
      BY <1>5 DEF ExportInv, NotYet
    <3>2. NotYet(q)'
      BY <1>1, <1>2, <2>1, <3>1 DEF NotYet
    <3>3. Complete(q)'
      BY <1>0, <1>1, <1>2, <3>1 DEF Complete
    <3> QED BY <3>2, <3>3
  <2>5. ASSUME NEW q \in PoolIx, NEW s \in PoolIx PROVE Apart(q, s)'
    <3>1. Apart(q, s) /\ NotYet(s) /\ q \in Int /\ s \in Int
      BY <1>2 DEF ExportInv
    <3>2. CASE q # p /\ s # p
      BY <2>1, <3>1, <3>2 DEF Apart, Live, Begun
    <3>3. CASE q # p /\ s = p
      <4>1. Live(q)' => Live(q)
        BY <2>1, <3>3 DEF Live
      <4> QED BY <1>5, <3>3, <4>1 DEF Apart
    <3>4. CASE q = p
      <4>1. q < s => ~Begun(s)'
        BY <1>1, <2>1, <3>1, <3>4 DEF NotYet, Begun
      <4> QED BY <4>1 DEF Apart
    <3> QED BY <3>2, <3>3, <3>4
  <2> QED BY <2>2, <2>3, <2>4, <2>5 DEF ExportInv
<1> QED BY <1>4, <1>5, ExportNumbers

LEMMA LanesOfPool ==
  ASSUME NEW p \in PoolIx, ~Skipped(p)
  PROVE  \E l \in Lane : l \in Lanes(p)
<1>1. (CHOOSE l \in Lane : TRUE) \in Lane
  BY ExportAssumption
<1> QED BY <1>1 DEF Lanes

LEMMA CatalogsStep ==
  ASSUME ExportInv, FetchCatalogs
  PROVE  ExportInv'
<1>1. CASE Stopped
  BY <1>1, WholeRest, StoppedIsSound DEF FetchCatalogs
<1>2. CASE StartPool(1) /\ UNCHANGED <<next, clean>>
  <2>1. phase = 0 /\ UNCHANGED <<file, part, remote, exports>> /\ clean' \in BOOLEAN
    BY <1>2, KeptTypes, ExportNumbers DEF FetchCatalogs
  <2>2. 1 \in 1..Readme /\ \A q \in PoolIx : ~(q < 1)
    BY ExportNumbers
  <2> QED BY <1>2, <2>1, <2>2, PoolStarts
<1> QED BY <1>1, <1>2 DEF FetchCatalogs

LEMMA PoolEndsStep ==
  ASSUME ExportInv, PoolEnds
  PROVE  ExportInv'
<1>1. PICK p \in PoolIx : p = phase
  BY DEF PoolEnds
<1>2. /\ \A l \in Lane : lane[p][l].pc = "ended"
      /\ StartPool(p + 1) /\ UNCHANGED <<file, part, next, clean, remote, exports>>
  BY <1>1 DEF PoolEnds, LaneAt
<1>3. p \in Int /\ p + 1 \in 1..Readme /\ phase < p + 1
  BY <1>1, ExportNumbers
<1>4. \A q \in PoolIx : q \in Int /\ (q < p + 1 => q < p \/ q = p)
  BY <1>3, ExportNumbers
<1>5. Lane # {}
  BY ExportAssumption
<1>6. Begun(p) /\ ~Live(p) /\ (~Skipped(p) => next[p] > Len(Pools[p].files))
  <2>1. Begun(p) /\ ~Live(p)
    BY <1>2, <1>5 DEF Begun, Live
  <2>2. ASSUME ~Skipped(p) PROVE next[p] > Len(Pools[p].files)
    BY <1>2, <2>2, LanesOfPool DEF ExportInv, LaneSound
  <2> QED BY <2>1, <2>2
<1>7. ASSUME NEW q \in PoolIx, q < p + 1, Live(q) PROVE \E r \in q..p + 1 : Pools[r].step # Pools[q].step
  <2>1. q < p
    BY <1>4, <1>6, <1>7
  <2>2. PICK r \in q..p : Pools[r].step # Pools[q].step
    BY <1>6, <1>7, <2>1 DEF ExportInv, Apart
  <2>3. r \in q..p + 1
    BY <1>3, <1>4, <2>2
  <2> QED BY <2>2, <2>3
<1>8. ASSUME clean, NEW q \in PoolIx, q < p + 1, ~Skipped(q), NEW i \in Wanted(q) PROVE file[FileAt(q, i)] # "none"
  <2>1. CASE q < p
    BY <1>1, <1>8, <2>1 DEF ExportInv, Complete
  <2>2. CASE q = p
    <3>1. i \in 1..next[p] - 1
      BY <1>6, <1>8, <2>2, KeptTypes, ExportNumbers DEF Wanted
    <3>2. \A m \in Lane : ~Holding(lane[p][m])
      BY <1>2 DEF Holding
    <3>3. Complete(p)
      BY DEF ExportInv
    <3> QED BY <1>1, <1>8, <2>2, <3>1, <3>2, <3>3 DEF Complete
  <2> QED BY <1>4, <1>8, <2>1, <2>2
<1>9. clean' \in BOOLEAN /\ (clean' => clean)
  BY <1>2, KeptTypes
<1> QED BY <1>2, <1>3, <1>7, <1>8, <1>9, PoolStarts

----------------------------------------------------------------------------
(* The least of a set of numbers, which stands for induction here.         *)

Before == {p \in Nat \X Nat : p[1] < p[2]}

LEMMA BeforePairs == \A a, b \in Nat : a < b => <<a, b>> \in Before
BY DEF Before

LEMMA BeforeIsWellFounded == IsWellFoundedOn(Before, Nat)
<1>1. Before = OpToRel(<, Nat)
  BY Zenon DEF OpToRel, Before
<1> QED BY <1>1, NatLessThanWellFounded, Zenon

LEMMA LeastOf ==
  ASSUME NEW T, T \subseteq Nat, T # {}
  PROVE  \E x \in T : \A y \in T : x <= y
<1>1. PICK x \in T : \A y \in T : ~ (<<y, x>> \in Before)
  BY BeforeIsWellFounded, WFMin
<1>2. ASSUME NEW y \in T PROVE x <= y
  <2>1. x \in Nat /\ y \in Nat /\ ~(<<y, x>> \in Before)
    BY <1>1
  <2>2. ~(y < x)
    BY <2>1, BeforePairs
  <2> QED BY <2>1, <2>2
<1> QED BY <1>2

LEMMA AfterStepIs ==
  ASSUME NEW p \in PoolIx
  PROVE  /\ AfterStep(p) \in 1..Readme /\ p < AfterStep(p)
         /\ AfterStep(p) \in PoolIx => Pools[AfterStep(p)].step # Pools[p].step
<1>1. PICK later : later = {q \in p..Len(Pools) : Pools[q].step # Pools[p].step}
  OBVIOUS
<1>2. p \in Nat /\ p >= 1 /\ Len(Pools) \in Nat /\ Readme = Len(Pools) + 1 /\ p <= Len(Pools)
  BY ExportNumbers
<1>3. later \subseteq Nat /\ \A q \in later : q \in PoolIx /\ p < q /\ Pools[q].step # Pools[p].step
  BY <1>1, <1>2, ExportNumbers
<1>4. CASE later = {}
  BY <1>1, <1>2, <1>4, ExportNumbers DEF AfterStep
<1>5. CASE later # {}
  <2>1. \E q \in later : \A r \in later : q <= r
    BY <1>3, <1>5, LeastOf
  <2>2. PICK a : a = AfterStep(p)
    OBVIOUS
  <2>3. a \in later
    BY <1>1, <1>5, <2>1, <2>2 DEF AfterStep
  <2>4. a \in PoolIx /\ p < a /\ Pools[a].step # Pools[p].step
    BY <1>3, <2>3
  <2>5. a \in 1..Readme
    BY <1>2, <2>4, ExportNumbers
  <2> QED BY <2>2, <2>4, <2>5
<1> QED BY <1>4, <1>5

LEMMA StepFailsStep ==
  ASSUME ExportInv, StepFails
  PROVE  ExportInv'
<1>1. PICK p \in PoolIx : p = phase
  BY DEF StepFails
<1>2. CASE Stopped
  BY <1>2, WholeRest, StoppedIsSound DEF StepFails
<1>3. CASE StartPool(AfterStep(p)) /\ clean' = FALSE /\ UNCHANGED next
  <2>1. PICK a : a = AfterStep(p)
    OBVIOUS
  <2>2. a \in 1..Readme /\ p < a /\ (a \in PoolIx => Pools[a].step # Pools[p].step)
    BY <2>1, AfterStepIs
  <2>3. UNCHANGED <<file, part, remote, exports>> /\ Begun(p)
    BY <1>1 DEF StepFails, Begun
  <2>4. ASSUME a \in PoolIx, NEW q \in PoolIx, q < a, Live(q)
        PROVE  \E r \in q..a : Pools[r].step # Pools[q].step
    <3>1. q \in Int /\ p \in Int /\ a \in Int
      BY <2>2, ExportNumbers
    <3>2. q <= p
      <4>1. ~(phase < q)
        BY <2>4 DEF ExportInv, NotYet, Live
      <4> QED BY <1>1, <3>1, <4>1
    <3>3. CASE q = p
      BY <2>2, <2>4, <3>1, <3>3
    <3>4. CASE q < p
      <4>1. PICK r \in q..p : Pools[r].step # Pools[q].step
        BY <2>3, <2>4, <3>4 DEF ExportInv, Apart
      <4> QED BY <2>2, <3>1, <4>1
    <3> QED BY <3>1, <3>2, <3>3, <3>4
  <2> QED BY <1>1, <1>3, <2>1, <2>2, <2>3, <2>4, PoolStarts
<1> QED BY <1>1, <1>2, <1>3 DEF StepFails

LEMMA ReadmeStep ==
  ASSUME ExportInv, WriteReadme
  PROVE  ExportInv'
<1>0. CASE Stopped
  BY <1>0, WholeRest, StoppedIsSound DEF WriteReadme
<1> SUFFICES ASSUME ~Stopped PROVE ExportInv'
  BY <1>0
<1>1. phase = Readme /\ phase' = Done /\ UNCHANGED <<file, part, lane, next, clean, remote, exports>>
  BY DEF WriteReadme
<1>2. phase' \in NotRunning..Done /\ clean' \in BOOLEAN /\ remote' \in BOOLEAN /\ exports' \in 0..MaxExports
  BY <1>1, KeptTypes, ExportNumbers DEF ExportTypes
<1>3. \A p \in PoolIx : p < phase /\ ~(phase' < p) /\ p # phase'
  BY <1>1, ExportNumbers
<1>4. ASSUME NEW p \in PoolIx PROVE Complete(p)'
  <2>1. Complete(p) /\ (Skipped(p)' <=> Skipped(p))
    BY <1>1, SkippedKept DEF ExportInv
  <2> QED BY <1>1, <1>3, <2>1 DEF Complete
<1> QED BY <1>1, <1>2, <1>3, <1>4, PhaseMoves

LEMMA StartStep ==
  ASSUME ExportInv, StartRun
  PROVE  ExportInv'
<1>1. phase = NotRunning /\ phase' = Catalogs /\ clean' = TRUE /\ UNCHANGED <<file, part, lane, next>>
  BY DEF StartRun
<1>2. phase' \in NotRunning..Done /\ remote' \in BOOLEAN /\ exports' \in 0..MaxExports
  BY <1>1, KeptTypes, ExportNumbers DEF ExportTypes, StartRun
<1>3. \A p \in PoolIx : phase < p /\ ~(p < phase') /\ p # phase'
  BY <1>1, ExportNumbers
<1>4. \A p \in PoolIx : Complete(p)'
  BY <1>3 DEF Complete
<1>5. \A p \in PoolIx, l \in Lane : lane[p][l].pc = "off"
  BY <1>3 DEF ExportInv, NotYet
<1> QED BY <1>1, <1>2, <1>3, <1>4, <1>5, PhaseMoves

LEMMA KillStep ==
  ASSUME ExportInv, Kill
  PROVE  ExportInv'
<1>1. /\ file \in [File -> FileState] /\ part \in [File -> FileState] /\ "piece" \in FileState
      /\ \A f \in Mended : file[f] # "piece" /\ f \in File \ Copied
  BY KeptTypes DEF Mended, ExportTypes, FileState, ExportInv, NoPieces
<1>2. part' \in [File -> FileState] /\ file' \in [File -> FileState]
  BY <1>1 DEF Kill
<1>3. ASSUME NEW f \in Mended PROVE file'[f] # "piece"
  <2>1. ASSUME NEW p \in PoolIx, InPlace(p), Cut(p, f) PROVE FALSE
    <3>1. PICK l \in Lane : lane[p][l].pc = "write" /\ FileOf(p, l) = f
      BY <2>1 DEF Cut, LaneAt
    <3>2. PICK i \in 1..Len(Pools[p].files) : Pools[p].files[i] = f
      BY <3>1, HeldIsWanted DEF Holding, Wanted, FileAt
    <3>3. f \in Copied
      BY <2>1, <3>2 DEF Copied, InPlace
    <3> QED BY <1>1, <1>3, <3>3
  <2>2. file'[f] = file[f]
    BY <1>1, <1>3, <2>1 DEF Kill
  <2> QED BY <1>1, <1>3, <2>2
<1> QED BY <1>2, <1>3, StoppedIsSound DEF Kill

LEMMA ExportStep ==
  ASSUME ExportInv, [ExportNext]_exportVars
  PROVE  ExportInv'
<1>1. CASE UNCHANGED exportVars
  <2>1. UNCHANGED <<file, part, lane, next>> /\ UNCHANGED <<phase, clean, remote, exports>>
    BY <1>1 DEF exportVars
  <2>2. ASSUME NEW p \in PoolIx PROVE Complete(p)'
    <3>1. Complete(p) /\ (Skipped(p)' <=> Skipped(p))
      BY <2>1, SkippedKept DEF ExportInv
    <3> QED BY <2>1, <3>1 DEF Complete
  <2>3. phase' \in NotRunning..Done /\ clean' \in BOOLEAN /\ remote' \in BOOLEAN /\ exports' \in 0..MaxExports
    BY <2>1, KeptTypes DEF ExportTypes
  <2> QED BY <2>1, <2>2, <2>3, PhaseMoves
<1>2. ASSUME NEW p \in PoolIx, NEW l \in Lane, LaneStep(p, l) PROVE ExportInv'
  <2>1. CASE Take(p, l) \/ Lookup(p, l) \/ FileExistsNonEmpty(p, l)
    BY <2>1, TakeStep, LookupStep, ExistsStep
  <2>2. CASE NextPage(p, l) \/ FetchedFile(p, l) \/ TokenRefused(p, l) \/ TryAgain(p, l) \/ NothingComes(p, l)
    BY <2>2, FetchedStep, RefusedStep, NothingStep
  <2>3. CASE Write(p, l) \/ Rename(p, l) \/ WriteFails(p, l)
    BY <2>3, WriteStep, RenameStep, WriteFailsStep
  <2> QED BY <1>2, <2>1, <2>2, <2>3 DEF LaneStep
<1>3. CASE RunStep
  <2>1. CASE RunEnds
    BY <2>1, WholeRest, StoppedIsSound DEF RunEnds
  <2> QED BY <1>3, <2>1, CatalogsStep, PoolEndsStep, StepFailsStep, ReadmeStep DEF RunStep
<1> QED BY <1>1, <1>2, <1>3, StartStep, KillStep DEF ExportNext

LEMMA ExportInvIsWhole ==
  ASSUME ExportInv
  PROVE  ExportIsWhole
<1>1. \A f \in File \ (Copied \union Twice) : file[f] # "piece"
  BY DEF ExportInv, NoPieces, Mended
<1>2. ASSUME phase = Done, clean, NEW p \in PoolIx, ~Skipped(p), NEW i \in 1..Len(Pools[p].files)
      PROVE  file[Pools[p].files[i]] # "none"
  <2>1. p < phase
    BY <1>2, ExportNumbers
  <2> QED BY <1>2, <2>1 DEF ExportInv, Complete, Wanted, FileAt
<1> QED BY <1>1, <1>2 DEF ExportIsWhole

(* Whatever pools and lanes there are, wherever runs were killed, writes   *)
(* fail, and whatever lanes of failed steps still do: at the final path of *)
(* a text or a download that its pool names once is never a piece; and a   *)
(* run that ends without a failure, and without a text missing upstream,   *)
(* has left something at every path of the pools it did not skip.  Said of *)
(* neither: copied pages and recordings with two addresses, which may stay *)
(* as pieces, the pages skipped for want of an address, and what a path    *)
(* that two translations share, or a text that an empty page cuts short,   *)
(* should have held.                                                       *)
THEOREM TheExportIsWhole == ExportSpec => []ExportIsWhole
<1>1. ExportSpec => []ExportInv
  BY ExportInitInv, ExportStep, PTL DEF ExportSpec
<1> QED BY <1>1, ExportInvIsWhole, PTL

(* The rows of the mushafs, the jobs that crawl them and the cache of      *)
(* their pages keep to their types.                                        *)
THEOREM PagesTypeCorrect == PagesSpec => []PagesTypeOK
<1>1. PagesInv => PagesTypeOK
  BY DEF PagesInv, PagesTypes
<1> QED BY <1>1, PagesInvariance, PTL

(* The files of the export and the lanes of its pools keep to their types: *)
(* no lane takes a file beyond the end of its pool.                        *)
THEOREM ExportTypeCorrect == ExportSpec => []ExportTypeOK
<1>1. ExportInv => ExportTypeOK
  <2> SUFFICES ASSUME ExportInv PROVE ExportTypeOK
    OBVIOUS
  <2>1. ASSUME NEW p \in PoolIx, NEW l \in Lane
        PROVE  /\ lane[p][l].pc \in LanePc /\ lane[p][l].tries \in 0..MaxTries
               /\ lane[p][l].at \in 0..Len(Pools[p].files)
    <3>1. lane[p][l] \in LaneRecord
      BY DEF ExportInv, ExportTypes
    <3>2. lane[p][l].at <= Len(Pools[p].files) /\ Len(Pools[p].files) \in Nat
      BY ExportNumbers DEF ExportInv, LaneSound
    <3> QED BY <3>1, <3>2 DEF LaneRecord
  <2> QED BY <2>1 DEF ExportInv, ExportTypes, ExportTypeOK
<1>2. ExportSpec => []ExportInv
  BY ExportInitInv, ExportStep, PTL DEF ExportSpec
<1> QED BY <1>1, <1>2, PTL

----------------------------------------------------------------------------
(* The routes: what a key says of what is cached under it.                 *)

Below(q) == [p \in DOMAIN q \ {"_enc"} |-> q[p]]

(* The URLs in verses, and in the recordings, are normalised.              *)
Media(namespace, path) ==
  IF namespace = "verses" THEN path[1] \in {"verses", "quran"}
  ELSE namespace = "audio" /\ path[1] # "audio"

(* The parameters of a key that holds verses say what is merged.           *)
ContentOf(path, q, media) ==
  IF "_enc" \in DOMAIN q THEN Holds(path, Below(q), media, q["_enc"])
  ELSE Holds(path, q, media, <<>>)

Table(name) == Holds(name, NoParams, FALSE, <<>>)

PageMeaning(key) ==
  CASE Len(key) = 2 -> Table(<<"mushaf_pages", "1", key[2]>>)
    [] Len(key) = 3 -> Table(<<"mushaf_pages", key[2], key[3]>>)
    [] Len(key) = 4 -> ContentOf(<<"verses", "by_page", key[2]>>, key[4], TRUE)
    [] Len(key) = 5 -> ContentOf(<<"verses", "by_page", key[3]>>, key[5], TRUE)
CatalogMeaning(key) ==
  IF "language" \in DOMAIN key[3] THEN Table(<<key[2][2], key[3].language[1]>>)
  ELSE Table(<<"reciters", key[3].kind[1]>>)

Meaning(key) ==
  IF key[1] = "pages:list" THEN Table(<<"mushaf_pages", IF Len(key) = 1 THEN "1" ELSE key[2]>>)
  ELSE IF key[1] = "page" THEN PageMeaning(key)
  ELSE IF key[1] = "resources" /\ key[2][1] = "catalog" THEN CatalogMeaning(key)
  ELSE ContentOf(key[2], key[3], Media(key[1], key[2]))

AsKeyed(e) == e.holds = Meaning(e.key) /\ Len(e.holds.call) = 2 /\ e.holds.media \in BOOLEAN
AllKnown(entries) == \A e \in entries : AsKeyed(e)

LEMMA HoldsTyped ==
  ASSUME NEW path, NEW query, NEW media, NEW enc
  PROVE  Len(Holds(path, query, media, enc).call) = 2 /\ Holds(path, query, media, enc).media = media
BY DEF Holds

LEMMA HoldsAsKeyed ==
  ASSUME NEW e, NEW path, NEW query, NEW media \in BOOLEAN, NEW enc,
         e.holds = Holds(path, query, media, enc), Meaning(e.key) = Holds(path, query, media, enc)
  PROVE  AsKeyed(e)
<1>1. PICK h : h = Holds(path, query, media, enc) /\ Len(h.call) = 2 /\ h.media = media
  BY HoldsTyped
<1> QED BY <1>1 DEF AsKeyed

LEMMA MediaTyped == ASSUME NEW namespace, NEW path PROVE Media(namespace, path) \in BOOLEAN
<1>1. Media(namespace, path) = TRUE \/ Media(namespace, path) = FALSE
  BY DEF Media
<1> QED BY <1>1

LEMMA OverBelow ==
  ASSUME NEW q, q = [p \in DOMAIN q |-> q[p]], "_enc" \notin DOMAIN q, NEW enc
  PROVE  /\ "_enc" \in DOMAIN Over([_enc |-> enc], q) /\ Over([_enc |-> enc], q)["_enc"] = enc
         /\ Below(Over([_enc |-> enc], q)) = q
<1>1. PICK r : r = Over([_enc |-> enc], q)
  OBVIOUS
<1>2. DOMAIN r = {"_enc"} \union DOMAIN q /\ r["_enc"] = enc /\ \A p \in DOMAIN q : r[p] = q[p]
  BY <1>1 DEF Over
<1>3. Below(r) = [p \in DOMAIN q |-> q[p]]
  <2>1. DOMAIN r \ {"_enc"} = DOMAIN q
    BY <1>2
  <2> QED BY <1>2, <2>1 DEF Below
<1> QED BY <1>1, <1>2, <1>3

LEMMA OverDomain ==
  ASSUME NEW r, NEW s, NEW name, name \notin DOMAIN r, name \notin DOMAIN s
  PROVE  /\ name \notin DOMAIN Over(r, s)
         /\ Over(r, s) = [p \in DOMAIN Over(r, s) |-> Over(r, s)[p]]
BY DEF Over

LEMMA PickIsQuery ==
  ASSUME NEW q, NEW names, "_enc" \notin names
  PROVE  /\ Pick(q, names) = [p \in DOMAIN Pick(q, names) |-> Pick(q, names)[p]]
         /\ "_enc" \notin DOMAIN Pick(q, names)
BY DEF Pick, Only

(* What is merged is told apart, whatever the path. *)
LEMMA MergedContent ==
  ASSUME NEW q, q = [p \in DOMAIN q |-> q[p]], "_enc" \notin DOMAIN q, NEW enc, NEW path, NEW media
  PROVE  ContentOf(path, WithEnc(q, enc), media) = Holds(path, q, media, enc)
BY OverBelow DEF ContentOf, WithEnc

(* The namespaces of upstream content; the catalog shares one of them.     *)
Upstream(namespace, path) ==
  namespace \in {"verses", "chapters", "audio", "search", "resources"} /\ path[1] # "catalog"

LEMMA KnownContent ==
  ASSUME NEW namespace, NEW path, NEW q, NEW media, "_enc" \notin DOMAIN q,
         Upstream(namespace, path), media = Media(namespace, path)
  PROVE  AsKeyed(CachedContent(namespace, path, q, media))
<1>1. PICK key : key = CacheKey(namespace, path, q)
  OBVIOUS
<1>2. key[1] = namespace /\ key[2] = path /\ key[3] = q
  BY <1>1 DEF CacheKey
<1>3. key[1] # "pages:list" /\ key[1] # "page" /\ key[2][1] # "catalog"
  BY <1>2 DEF Upstream
<1>4. Meaning(key) = ContentOf(path, q, media)
  BY <1>2, <1>3 DEF Meaning
<1>5. ContentOf(path, q, media) = Holds(path, q, media, <<>>)
  BY DEF ContentOf
<1>6. CachedContent(namespace, path, q, media).key = key
      /\ CachedContent(namespace, path, q, media).holds = Holds(path, q, media, <<>>)
  BY <1>1 DEF CachedContent, CacheEntry
<1>7. media \in BOOLEAN
  BY MediaTyped
<1>8. PICK e : e = CachedContent(namespace, path, q, media)
  OBVIOUS
<1>9. e.holds = Holds(path, q, media, <<>>) /\ Meaning(e.key) = Holds(path, q, media, <<>>)
  BY <1>4, <1>5, <1>6, <1>8
<1> QED BY <1>7, <1>8, <1>9, HoldsAsKeyed

(* Verses, with or without what is merged into them. *)
LEMMA KnownVerses ==
  ASSUME NEW path, path[1] = "verses", NEW q
  PROVE  AsKeyed(CachedVerses(path, q))
<1>1. PICK query, enc : query = Pick(QfQuery(q, "translations"), VersesQuery) /\ enc = EncIds(TextOf(q, "translations"))
  OBVIOUS
<1>2. "_enc" \notin VersesQuery
  BY DEF VersesQuery, PaginationQuery, LanguageQuery
<1>3. query = [p \in DOMAIN query |-> query[p]] /\ "_enc" \notin DOMAIN query
  BY <1>1, <1>2, PickIsQuery
<1>4. PICK key : key = CacheKey("verses", path, WithEnc(query, enc))
  OBVIOUS
<1>5. key[1] = "verses" /\ key[2] = path /\ key[3] = WithEnc(query, enc)
  BY <1>4 DEF CacheKey
<1>6. Meaning(key) = ContentOf(path, WithEnc(query, enc), Media("verses", path))
  BY <1>5 DEF Meaning
<1>7. Media("verses", path) = TRUE
  BY DEF Media
<1>8. Meaning(key) = Holds(path, query, TRUE, enc)
  BY <1>3, <1>6, <1>7, MergedContent
<1>9. CachedVerses(path, q).key = key /\ CachedVerses(path, q).holds = Holds(path, query, TRUE, enc)
  BY <1>1, <1>4 DEF CachedVerses, CacheEntry
<1>10. PICK e : e = CachedVerses(path, q)
  OBVIOUS
<1>11. e.holds = Holds(path, query, TRUE, enc) /\ Meaning(e.key) = Holds(path, query, TRUE, enc)
  BY <1>8, <1>9, <1>10
<1> QED BY <1>10, <1>11, HoldsAsKeyed

(* The page of a mushaf with its verses: its key is one longer for another *)
(* mushaf than the usual one.                                              *)
LEMMA KnownPage ==
  ASSUME NEW n, NEW q
  PROVE  AsKeyed(PageBundle(n, q))
<1>1. PICK query, enc, mushaf :
        /\ query = VerseQueryWithPageDefaults(QfQuery(q, "translations"))
        /\ enc = EncIds(TextOf(q, "translations")) /\ mushaf = MushafOf(q)
  OBVIOUS
<1>2. query = [p \in DOMAIN query |-> query[p]] /\ "_enc" \notin DOMAIN query
  <2>1. "_enc" \notin VersesQuery
    BY DEF VersesQuery, PaginationQuery, LanguageQuery
  <2>2. \A r : "_enc" \notin DOMAIN Pick(r, VersesQuery)
    BY <2>1, PickIsQuery
  <2>3. "_enc" \notin DOMAIN PageDefaults
    BY DEF PageDefaults
  <2>4. PICK inner : inner = Over(Pick(QfQuery(q, "translations"), VersesQuery), PageDefaults)
    OBVIOUS
  <2>5. "_enc" \notin DOMAIN inner
    <3>1. PICK picked : picked = Pick(QfQuery(q, "translations"), VersesQuery)
      OBVIOUS
    <3>2. "_enc" \notin DOMAIN picked
      BY <2>2, <3>1
    <3> QED BY <2>3, <2>4, <3>1, <3>2, OverDomain
  <2>6. PICK outer : outer = [fields |-> MergeFields(TextOf(QfQuery(q, "translations"), "fields")),
                              mushaf |-> <<MushafOf(QfQuery(q, "translations"))>>]
    OBVIOUS
  <2>7. "_enc" \notin DOMAIN outer
    BY <2>6
  <2>8. query = Over(outer, inner)
    BY <1>1, <2>4, <2>6 DEF VerseQueryWithPageDefaults
  <2> QED BY <2>5, <2>7, <2>8, OverDomain
<1>3. ContentOf(<<"verses", "by_page", n>>, WithEnc(query, enc), TRUE)
        = Holds(<<"verses", "by_page", n>>, query, TRUE, enc)
  BY <1>2, MergedContent
<1>4. PICK key : key = PageVersesKey(n, mushaf, WithEnc(query, enc))
  OBVIOUS
<1>5. Meaning(key) = ContentOf(<<"verses", "by_page", n>>, WithEnc(query, enc), TRUE)
  <2>1. CASE mushaf = "1"
    <3>1. PageMetadataKey(n, mushaf) = <<"page", n>>
      BY <2>1 DEF PageMetadataKey
    <3>2. key = <<"page", n>> \o <<"verses", WithEnc(query, enc)>>
      BY <1>4, <3>1 DEF PageVersesKey
    <3>3. Len(key) = 4 /\ key[1] = "page" /\ key[2] = n /\ key[4] = WithEnc(query, enc)
      BY <3>2
    <3> QED BY <3>3 DEF Meaning, PageMeaning
  <2>2. CASE mushaf # "1"
    <3>1. PageMetadataKey(n, mushaf) = <<"page", mushaf, n>>
      BY <2>2 DEF PageMetadataKey
    <3>2. key = <<"page", mushaf, n>> \o <<"verses", WithEnc(query, enc)>>
      BY <1>4, <3>1 DEF PageVersesKey
    <3>3. Len(key) = 5 /\ key[1] = "page" /\ key[3] = n /\ key[5] = WithEnc(query, enc)
      BY <3>2
    <3> QED BY <3>3 DEF Meaning, PageMeaning
  <2> QED BY <2>1, <2>2
<1>6. /\ PageBundle(n, q).key = key
      /\ PageBundle(n, q).holds = Holds(<<"verses", "by_page", n>>, query, TRUE, enc)
  BY <1>1, <1>4 DEF PageBundle, CacheEntry
<1>7. PICK e, path : e = PageBundle(n, q) /\ path = <<"verses", "by_page", n>>
  OBVIOUS
<1>8. e.holds = Holds(path, query, TRUE, enc) /\ Meaning(e.key) = Holds(path, query, TRUE, enc)
  BY <1>3, <1>5, <1>6, <1>7
<1> QED BY <1>7, <1>8, HoldsAsKeyed

(* An ask that knows what its entries hold, and those it reads ahead. *)
AskKnown(a) ==
  /\ AllKnown(a.entries) /\ \A entries \in a.next : AllKnown(entries)
  /\ a.notes \in Notes \union {Nothing}

(* Rows are known that have the table their key says. *)
LEMMA KnownRows == ASSUME NEW key, NEW table, Meaning(key) = Table(table) PROVE AsKeyed(Rows(key, table))
<1>1. Rows(key, table).key = key /\ Rows(key, table).holds = Holds(table, NoParams, FALSE, <<>>)
  BY DEF Rows, CacheEntry
<1>2. PICK e : e = Rows(key, table)
  OBVIOUS
<1>3. e.holds = Holds(table, NoParams, FALSE, <<>>) /\ Meaning(e.key) = Holds(table, NoParams, FALSE, <<>>)
  BY <1>1, <1>2 DEF Table
<1> QED BY <1>2, <1>3, HoldsAsKeyed

LEMMA NothingAsked == ASSUME NEW route, NEW q PROVE AskKnown(RefusedAsk(route, q))
<1>1. RefusedAsk(route, q).entries = {} /\ RefusedAsk(route, q).next = {}
      /\ RefusedAsk(route, q).notes = Nothing
  BY DEF RefusedAsk, Ask
<1> QED BY <1>1 DEF AskKnown, AllKnown

LEMMA AskedFor ==
  ASSUME NEW route, NEW q, NEW entries
  PROVE  /\ AllKnown(entries) => AskKnown(Ask(route, q, entries))
         /\ \A r : AllKnown(entries) => AskKnown(OfEdition(route, q, r, entries))
         /\ \A note \in Notes : AllKnown(entries) => AskKnown([Ask(route, q, entries) EXCEPT !.notes = note])
         /\ \A more : AllKnown(entries) /\ (\A set \in more : AllKnown(set))
                       => AskKnown([Ask(route, q, entries) EXCEPT !.next = more])
<1>1. /\ Ask(route, q, entries).entries = entries /\ Ask(route, q, entries).next = {}
      /\ Ask(route, q, entries).notes = Nothing
  BY DEF Ask
<1>3. \A r : /\ OfEdition(route, q, r, entries).entries = entries /\ OfEdition(route, q, r, entries).next = {}
             /\ OfEdition(route, q, r, entries).notes = Nothing
  BY DEF OfEdition, Ask
<1>4. \A note : /\ [Ask(route, q, entries) EXCEPT !.notes = note].entries = entries
                /\ [Ask(route, q, entries) EXCEPT !.notes = note].next = {}
                /\ [Ask(route, q, entries) EXCEPT !.notes = note].notes = note
  BY DEF Ask
<1>5. \A more : /\ [Ask(route, q, entries) EXCEPT !.next = more].entries = entries
                /\ [Ask(route, q, entries) EXCEPT !.next = more].next = more
                /\ [Ask(route, q, entries) EXCEPT !.next = more].notes = Nothing
  BY DEF Ask
<1> QED BY <1>1, <1>3, <1>4, <1>5 DEF AskKnown, AllKnown

LEMMA FromUpstream ==
  ASSUME NEW route, NEW q, NEW namespace, NEW path, NEW query, NEW media,
         "_enc" \notin DOMAIN query, Upstream(namespace, path), media = Media(namespace, path)
  PROVE  /\ AskKnown(Ask(route, q, {CachedContent(namespace, path, query, media)}))
         /\ \A r : AskKnown(OfEdition(route, q, r, {CachedContent(namespace, path, query, media)}))
         /\ \A note \in Notes : AskKnown([Ask(route, q, {CachedContent(namespace, path, query, media)})
                                 EXCEPT !.notes = note])
<1>1. AllKnown({CachedContent(namespace, path, query, media)})
  BY KnownContent DEF AllKnown
<1> QED BY <1>1, AskedFor

LEMMA NoneMerged ==
  ASSUME NEW q
  PROVE  /\ "_enc" \notin DOMAIN NoParams /\ "_enc" \notin DOMAIN Segments
         /\ "_enc" \notin DOMAIN Pick(q, LanguageQuery) /\ "_enc" \notin DOMAIN Pick(q, PaginationQuery)
         /\ "_enc" \notin DOMAIN Pick(q, PageLookupQuery) /\ "_enc" \notin DOMAIN Pick(q, SearchQuery)
         /\ "_enc" \notin DOMAIN Pick(q, TimestampQuery) /\ "_enc" \notin DOMAIN Pick(q, ScriptQuery)
         /\ "_enc" \notin DOMAIN Pick(q, {"page", "per_page"})
<1>1. \A names : "_enc" \notin names => "_enc" \notin DOMAIN Pick(q, names)
  BY PickIsQuery
<1>2. /\ "_enc" \notin LanguageQuery /\ "_enc" \notin PaginationQuery /\ "_enc" \notin PageLookupQuery
      /\ "_enc" \notin SearchQuery /\ "_enc" \notin TimestampQuery /\ "_enc" \notin ScriptQuery
      /\ "_enc" \notin {"page", "per_page"}
  BY DEF LanguageQuery, PaginationQuery, PageLookupQuery, SearchQuery, TimestampQuery, ScriptQuery
<1>3. "_enc" \notin DOMAIN NoParams /\ "_enc" \notin DOMAIN Segments
  BY DEF NoParams, Segments
<1> QED BY <1>1, <1>2, <1>3

LEMMA VersesKnown == ASSUME NEW by, NEW c, NEW q PROVE AllKnown(VersesIn(by, c, q))
<1>1. <<"verses", by, c>>[1] = "verses"
  OBVIOUS
<1> QED BY <1>1, KnownVerses DEF VersesIn, AllKnown

LEMMA TextsKnown == ASSUME NEW a \in TextAsks PROVE AskKnown(a)
<1>1. CASE a \in Surahs
  <2>1. PICK rest \in {<<>>} \union {<<c>> : c \in Chapter} \union {<<c, "info">> : c \in Chapter},
             q \in Query(LanguageQuery) :
          a = SurahAsk(rest, q)
    BY <1>1 DEF Surahs
  <2>2. PICK path : path = <<"chapters">> \o rest
    OBVIOUS
  <2>3. path[1] = "chapters"
    BY <2>2
  <2>4. Upstream("chapters", path) /\ Media("chapters", path) = FALSE
    BY <2>3 DEF Upstream, Media
  <2> QED BY <2>1, <2>2, <2>4, FromUpstream, NoneMerged DEF SurahAsk
<1>2. CASE a \in AyahsBySurah
  <2>1. PICK c \in Chapter, q \in Query(VersesQuery) :
          a = [Ask(<<"ayahs", "by_chapter", c>>, q, VersesIn("by_chapter", c, q)) EXCEPT
                 !.next = {{}} \union NextPages(c, q)]
    BY <1>2 DEF AyahsBySurah
  <2>2. \A set \in {{}} \union NextPages(c, q) : AllKnown(set)
    <3>1. \A set \in NextPages(c, q) : AllKnown(set)
      BY VersesKnown DEF NextPages
    <3>2. AllKnown({})
      BY DEF AllKnown
    <3> QED BY <3>1, <3>2
  <2> QED BY <2>1, <2>2, VersesKnown, AskedFor
<1>3. CASE a \in AyahsByPart
  <2>1. PICK by, c, q : a = Ask(<<"ayahs", by, c>>, q, VersesIn(by, c, q))
    BY <1>3 DEF AyahsByPart
  <2> QED BY <2>1, VersesKnown, AskedFor
<1>4. CASE a \in AyahByKey
  <2>1. PICK route, c, q : a = VerseAsk(route, c, q)
    BY <1>4 DEF AyahByKey
  <2> QED BY <2>1, VersesKnown, AskedFor DEF VerseAsk, Notes
<1> QED BY <1>1, <1>2, <1>3, <1>4 DEF TextAsks

(* Rows of a mushaf: the usual one is not named in the key. *)
LEMMA MushafRows ==
  ASSUME NEW m, NEW n
  PROVE  /\ AsKeyed(Rows(PagesListKey(m), <<"mushaf_pages", m>>))
         /\ AsKeyed(Rows(PageMetadataKey(n, m), <<"mushaf_pages", m, n>>))
<1>1. Meaning(PagesListKey(m)) = Table(<<"mushaf_pages", m>>)
  <2>1. CASE m = "1"
    <3>1. PICK key : key = <<"pages:list">>
      OBVIOUS
    <3>2. key[1] = "pages:list" /\ Len(key) = 1
      BY <3>1
    <3> QED BY <2>1, <3>1, <3>2 DEF Meaning, PagesListKey
  <2>2. CASE m # "1"
    <3>1. PICK key : key = <<"pages:list", m>>
      OBVIOUS
    <3>2. key[1] = "pages:list" /\ Len(key) = 2 /\ key[2] = m
      BY <3>1
    <3> QED BY <2>2, <3>1, <3>2 DEF Meaning, PagesListKey
  <2> QED BY <2>1, <2>2
<1>2. Meaning(PageMetadataKey(n, m)) = Table(<<"mushaf_pages", m, n>>)
  <2>1. CASE m = "1"
    <3>1. PICK key : key = <<"page", n>>
      OBVIOUS
    <3>2. key[1] = "page" /\ Len(key) = 2 /\ key[2] = n
      BY <3>1
    <3> QED BY <2>1, <3>1, <3>2 DEF Meaning, PageMeaning, PageMetadataKey
  <2>2. CASE m # "1"
    <3>1. PICK key : key = <<"page", m, n>>
      OBVIOUS
    <3>2. key[1] = "page" /\ Len(key) = 3 /\ key[2] = m /\ key[3] = n
      BY <3>1
    <3> QED BY <2>2, <3>1, <3>2 DEF Meaning, PageMeaning, PageMetadataKey
  <2> QED BY <2>1, <2>2
<1> QED BY <1>1, <1>2, KnownRows

LEMMA PagesKnown == ASSUME NEW a \in PageAsks PROVE AskKnown(a)
<1>1. CASE a \in PartLists
  <2>1. PICK name \in {"juzs", "hizbs", "rub_el_hizbs", "rukus", "manzils"},
             rest \in {<<>>} \union {<<c>> : c \in Chapter} :
          a = PartAsk(name, rest)
    BY <1>1 DEF PartLists
  <2>2. PICK path : path = <<name>> \o rest
    OBVIOUS
  <2>3. path[1] = name
    BY <2>2
  <2>4. Upstream("chapters", path) /\ Media("chapters", path) = FALSE
    BY <2>3 DEF Upstream, Media
  <2> QED BY <2>1, <2>2, <2>4, FromUpstream, NoneMerged DEF PartAsk
<1>2. CASE a \in PagesLookup
  <2>1. Upstream("chapters", <<"pages", "lookup">>) /\ Media("chapters", <<"pages", "lookup">>) = FALSE
    BY DEF Upstream, Media
  <2>2. PICK q : a = Ask(<<"pages/lookup">>, q,
          {CachedContent("chapters", <<"pages", "lookup">>, Pick(q, PageLookupQuery), FALSE)})
    BY <1>2 DEF PagesLookup
  <2> QED BY <2>1, <2>2, FromUpstream, NoneMerged
<1>3. CASE a \in PageLists
  <2>1. PICK q : a = PageListAsk(q)
    BY <1>3 DEF PageLists
  <2>2. AllKnown({Rows(PagesListKey(MushafOf(q)), <<"mushaf_pages", MushafOf(q)>>)})
    BY MushafRows DEF AllKnown
  <2> QED BY <2>1, <2>2, AskedFor, NothingAsked DEF PageListAsk
<1>4. CASE a \in PageDetails
  <2>1. PICK n \in PageNumber, q \in Query({"mushaf"}) :
          a = PageAsk(n, q)
    BY <1>4 DEF PageDetails
  <2>2. AllKnown({Rows(PageMetadataKey(n, MushafOf(q)), <<"mushaf_pages", MushafOf(q), n>>)})
    BY MushafRows DEF AllKnown
  <2> QED BY <2>1, <2>2, AskedFor, NothingAsked DEF PageAsk
<1>5. CASE a \in PageVerses
  <2>1. PICK route \in {"page_verses", "ayahs_by_page"}, n \in PageNumber, q \in Query(VersesQuery) :
          a = PageVersesAsk(route, n, q)
    BY <1>5 DEF PageVerses
  <2>2. \A p : AllKnown({PageBundle(p, q)})
    BY KnownPage DEF AllKnown
  <2>3. PICK more : more = IF n < LastPage THEN {{PageBundle(n + 1, q)}} ELSE {}
    OBVIOUS
  <2>4. \A set \in more : AllKnown(set)
    BY <2>2, <2>3
  <2>5. a = [Ask(<<route, n>>, q, {PageBundle(n, q)}) EXCEPT !.next = more] \/ a = RefusedAsk(<<route, n>>, q)
    BY <2>1, <2>3 DEF PageVersesAsk
  <2>6. AskKnown([Ask(<<route, n>>, q, {PageBundle(n, q)}) EXCEPT !.next = more])
    BY <2>2, <2>4, AskedFor
  <2> QED BY <2>5, <2>6, NothingAsked
<1> QED BY <1>1, <1>2, <1>3, <1>4, <1>5 DEF PageAsks

LEMMA EditionKnown == ASSUME NEW r, NEW by, NEW c PROVE AsKeyed(EncRows(r, by, c))
<1>1. /\ Upstream("verses", <<"quranenc", r, by, c>>)
      /\ Media("verses", <<"quranenc", r, by, c>>) = FALSE
  BY DEF Upstream, Media
<1> QED BY <1>1, KnownContent, NoneMerged DEF EncRows

LEMMA EitherKnown ==
  ASSUME NEW r, NEW ofEdition, NEW ofFoundation, NEW route, NEW q,
         AllKnown(ofEdition), AllKnown(ofFoundation)
  PROVE  AskKnown(Translation(r, ofEdition, ofFoundation, route, q))
<1>1. CASE r \in EncKey
  <2>1. EncKey \intersect Numeric = {}
    BY RoutesAssumption
  <2>2. Translation(r, ofEdition, ofFoundation, route, q) = OfEdition(route, q, r, ofEdition)
    BY <1>1, <2>1 DEF Translation
  <2>3. AskKnown(OfEdition(route, q, r, ofEdition))
    BY AskedFor
  <2> QED BY <2>2, <2>3
<1>2. CASE r \notin EncKey
  BY <1>2, AskedFor, NothingAsked DEF Translation
<1> QED BY <1>1, <1>2

LEMMA ResourcesKnown == ASSUME NEW a \in ResourceAsks PROVE AskKnown(a)
<1>1. CASE a \in Languages
  <2>1. /\ Upstream("resources", <<"resources", "languages">>)
        /\ Media("resources", <<"resources", "languages">>) = FALSE
    BY DEF Upstream, Media
  <2>2. PICK q : a = Ask(<<"languages">>, q,
          {CachedContent("resources", <<"resources", "languages">>, Pick(q, LanguageQuery), FALSE)})
    BY <1>1 DEF Languages
  <2> QED BY <2>1, <2>2, FromUpstream, NoneMerged
<1>2. CASE a \in ScriptTexts
  <2>1. PICK s, q : a = ScriptAsk(s, q)
    BY <1>2 DEF ScriptTexts
  <2>2. /\ Upstream("verses", <<"quran", "verses", s>>)
        /\ Media("verses", <<"quran", "verses", s>>) = TRUE
    BY DEF Upstream, Media
  <2> QED BY <2>1, <2>2, FromUpstream, NoneMerged, NothingAsked DEF ScriptAsk
<1>3. CASE a \in Footnotes
  <2>1. PICK c : a = Ask(<<"footnotes", c>>, NoParams,
          {CachedContent("resources", <<"foot_notes", c>>, NoParams, FALSE)})
    BY <1>3 DEF Footnotes
  <2>2. Upstream("resources", <<"foot_notes", c>>) /\ Media("resources", <<"foot_notes", c>>) = FALSE
    BY DEF Upstream, Media
  <2> QED BY <2>1, <2>2, FromUpstream, NoneMerged
<1>4. CASE a \in Catalog
  <2>1. PICK kind, q : a = CatalogAsk(kind, q)
    BY <1>4 DEF Catalog
  <2>2. PICK key : key = CacheKey("resources", <<"catalog", kind>>, [language |-> <<CodeOf(q)>>])
    OBVIOUS
  <2>3. /\ key[1] = "resources" /\ key[2][1] = "catalog" /\ key[2][2] = kind
        /\ "language" \in DOMAIN key[3] /\ key[3].language[1] = CodeOf(q)
    BY <2>2 DEF CacheKey
  <2>4. Meaning(key) = Table(<<kind, CodeOf(q)>>)
    BY <2>3 DEF Meaning, CatalogMeaning
  <2>5. AsKeyed(Rows(key, <<kind, CodeOf(q)>>))
    BY <2>4, KnownRows
  <2>6. AllKnown({Rows(key, <<kind, CodeOf(q)>>)})
    BY <2>5 DEF AllKnown
  <2> QED BY <2>1, <2>2, <2>6, AskedFor DEF CatalogAsk
<1>5. CASE a \in TranslationInfo
  <2>1. PICK r : a = InfoAsk(r)
    BY <1>5 DEF TranslationInfo
  <2>2. /\ Upstream("resources", <<"resources", "translations", r, "info">>)
        /\ Media("resources", <<"resources", "translations", r, "info">>) = FALSE
    BY DEF Upstream, Media
  <2>3. AllKnown({CachedContent("resources", <<"resources", "translations", r, "info">>, NoParams, FALSE)})
    BY <2>2, KnownContent, NoneMerged DEF AllKnown
  <2>4. AllKnown({})
    BY DEF AllKnown
  <2> QED BY <2>1, <2>3, <2>4, EitherKnown DEF InfoAsk
<1>6. CASE a \in TranslationByAyah
  <2>1. PICK r, c : a = ByAyahAsk(r, c)
    BY <1>6 DEF TranslationByAyah
  <2>2. /\ Upstream("verses", <<"translations", r, "by_ayah", c>>)
        /\ Media("verses", <<"translations", r, "by_ayah", c>>) = FALSE
    BY DEF Upstream, Media
  <2>3. AllKnown({CachedContent("verses", <<"translations", r, "by_ayah", c>>, NoParams, FALSE)})
    BY <2>2, KnownContent, NoneMerged DEF AllKnown
  <2>4. AllKnown({EncRows(r, "by_ayah", c)})
    BY EditionKnown DEF AllKnown
  <2> QED BY <2>1, <2>3, <2>4, EitherKnown DEF ByAyahAsk
<1>7. CASE a \in TranslationByPart
  <2>1. PICK r, by, c, q : a = ByPartAsk(r, by, c, q)
    BY <1>7 DEF TranslationByPart
  <2>2. /\ Upstream("verses", <<"translations", r, by, c>>)
        /\ Media("verses", <<"translations", r, by, c>>) = FALSE
    BY DEF Upstream, Media
  <2>3. AllKnown({CachedContent("verses", <<"translations", r, by, c>>, Pick(q, PaginationQuery), FALSE)})
    BY <2>2, KnownContent, NoneMerged DEF AllKnown
  <2>4. Upstream("verses", <<"verses", by, c>>) /\ Media("verses", <<"verses", by, c>>) = TRUE
    BY DEF Upstream, Media
  <2>5. AsKeyed(CachedContent("verses", <<"verses", by, c>>, Pick(q, PaginationQuery), TRUE))
    BY <2>4, KnownContent, NoneMerged
  <2>6. AllKnown(EncOf(r, by, c, q))
    BY <2>5, EditionKnown DEF AllKnown, EncOf, EncScope
  <2> QED BY <2>1, <2>3, <2>6, EitherKnown DEF ByPartAsk
<1>8. CASE a \in TafsirInfo
  <2>1. PICK r : a = Ask(<<"tafsirs", r, "info">>, NoParams,
          {CachedContent("resources", <<"resources", "tafsirs", r, "info">>, NoParams, FALSE)})
    BY <1>8 DEF TafsirInfo
  <2>2. /\ Upstream("resources", <<"resources", "tafsirs", r, "info">>)
        /\ Media("resources", <<"resources", "tafsirs", r, "info">>) = FALSE
    BY DEF Upstream, Media
  <2> QED BY <2>1, <2>2, FromUpstream, NoneMerged
<1>9. CASE a \in TafsirByAyah
  <2>1. PICK r, c : a = TafsirVerseAsk(r, c)
    BY <1>9 DEF TafsirByAyah
  <2>2. /\ Upstream("verses", <<"tafsirs", r, "by_ayah", c>>)
        /\ Media("verses", <<"tafsirs", r, "by_ayah", c>>) = FALSE
    BY DEF Upstream, Media
  <2> QED BY <2>1, <2>2, FromUpstream, NoneMerged DEF TafsirVerseAsk
<1>10. CASE a \in TafsirByPart
  <2>1. PICK r, by, c, q : a = TafsirAsk(r, by, c, q)
    BY <1>10 DEF TafsirByPart
  <2>2. /\ Upstream("verses", <<"tafsirs", r, by, c>>)
        /\ Media("verses", <<"tafsirs", r, by, c>>) = FALSE
    BY DEF Upstream, Media
  <2> QED BY <2>1, <2>2, FromUpstream, NoneMerged DEF TafsirAsk
<1> QED
  BY <1>1, <1>2, <1>3, <1>4, <1>5, <1>6, <1>7, <1>8, <1>9, <1>10 DEF ResourceAsks

LEMMA AudioKnown == ASSUME NEW a \in AudioAsks PROVE AskKnown(a)
<1>1. CASE a \in ReciterLists
  <2>1. PICK route, q : a = RecitersAsk(route, q)
    BY <1>1 DEF ReciterLists
  <2>2. PICK key : key = CacheKey("resources", <<"catalog", route>>, [kind |-> <<KindOf(route)>>])
    OBVIOUS
  <2>3. /\ key[1] = "resources" /\ key[2][1] = "catalog"
        /\ "language" \notin DOMAIN key[3] /\ key[3].kind[1] = KindOf(route)
    BY <2>2 DEF CacheKey
  <2>4. Meaning(key) = Table(<<"reciters", KindOf(route)>>)
    BY <2>3 DEF Meaning, CatalogMeaning
  <2>5. AsKeyed(Rows(key, <<"reciters", KindOf(route)>>))
    BY <2>4, KnownRows
  <2>6. AllKnown({Rows(key, <<"reciters", KindOf(route)>>)})
    BY <2>5 DEF AllKnown
  <2> QED BY <2>1, <2>2, <2>6, AskedFor DEF RecitersAsk
<1>2. CASE a \in ChapterAudio
  <2>1. PICK r, rest : a = RecordingsAsk(r, rest)
    BY <1>2 DEF ChapterAudio
  <2>2. PICK path : path = <<"chapter_recitations", r>> \o rest
    OBVIOUS
  <2>3. path[1] = "chapter_recitations"
    BY <2>2
  <2>4. Upstream("audio", path) /\ Media("audio", path) = TRUE
    BY <2>3 DEF Upstream, Media
  <2> QED BY <2>1, <2>2, <2>4, FromUpstream, NoneMerged DEF RecordingsAsk
<1>3. CASE a \in AyahAudio
  <2>1. \A r, by, c : /\ Upstream("audio", <<"recitations", r, by, c>>)
                      /\ Media("audio", <<"recitations", r, by, c>>) = TRUE
    BY DEF Upstream, Media
  <2>2. \/ \E r, c : a = VerseRecordingAsk(r, c)
        \/ \E r, c, q : a = RecordingAsk(r, c, q)
    BY <1>3 DEF AyahAudio
  <2>3. \A r, c : AskKnown(VerseRecordingAsk(r, c))
    BY <2>1, FromUpstream, NoneMerged DEF VerseRecordingAsk
  <2>4. \A r, c, q : AskKnown(RecordingAsk(r, c, q))
    BY <2>1, FromUpstream, NoneMerged DEF RecordingAsk
  <2> QED BY <2>2, <2>3, <2>4
<1>4. CASE a \in Timestamps
  <2>1. PICK r, q : a = TimestampAsk(r, q)
    BY <1>4 DEF Timestamps
  <2>2. /\ Upstream("audio", <<"audio", "reciters", r, "timestamp">>)
        /\ Media("audio", <<"audio", "reciters", r, "timestamp">>) = FALSE
    BY DEF Upstream, Media
  <2> QED BY <2>1, <2>2, FromUpstream, NoneMerged DEF TimestampAsk
<1>5. CASE a \in Search
  <2>1. PICK q : a = SearchAsk(q)
    BY <1>5 DEF Search
  <2>2. Upstream("search", <<"search">>) /\ Media("search", <<"search">>) = FALSE
    BY DEF Upstream, Media
  <2> QED BY <2>1, <2>2, FromUpstream, NoneMerged DEF SearchAsk, Notes
<1> QED BY <1>1, <1>2, <1>3, <1>4, <1>5 DEF AudioAsks

LEMMA AllAsksKnown == ASSUME NEW a \in Asks PROVE AskKnown(a)
BY TextsKnown, PagesKnown, ResourcesKnown, AudioKnown DEF Asks

(* Every entry holds what its key says, and so answers every request that  *)
(* has its key.                                                            *)
ServedSound ==
  /\ activeEditions \subseteq EncKey
  /\ served.outcome \in Outcomes /\ served.noted \in Notes \union {Nothing}

RoutesInv == AllKnown(inCache) /\ AllKnown(ahead) /\ ServedSound /\ AnswersTheRequest

LEMMA OutcomeIs ==
  ASSUME NEW a, NEW outcome \in Outcomes, NEW answer, a.notes \in Notes \union {Nothing}
  PROVE  /\ Outcome(a, outcome, answer).outcome = outcome
         /\ Outcome(a, outcome, answer).noted \in Notes \union {Nothing}
BY DEF Outcome

LEMMA NobodyAsks == NoAsk.notes = Nothing
BY DEF NoAsk, Ask


LEMMA RoutesInvInit == ASSUME RoutesInit PROVE RoutesInv
<1>1. served.outcome = "none" /\ served.noted \in Notes \union {Nothing}
  BY NobodyAsks, OutcomeIs DEF RoutesInit, Outcomes
<1> QED BY <1>1 DEF RoutesInit, RoutesInv, AllKnown, AnswersTheRequest, ServedSound, Outcomes

LEMMA ServingIsKnown ==
  ASSUME NEW a, AskKnown(a), RoutesInv, Serve(a)
  PROVE  RoutesInv'
<1>1. AllKnown(Found(a)) /\ AllKnown(ToLoad(a.entries))
  BY DEF RoutesInv, AllKnown, AskKnown, Found, ToLoad
<1>2. AllKnown(inCache')
  BY <1>1 DEF Serve, AllKnown
<1>3. AllKnown(ahead')
  BY DEF Serve, AskKnown, AllKnown
<1>4. {e.holds : e \in Found(a) \union ToLoad(a.entries)} = {e.holds : e \in a.entries}
  <2>1. ASSUME NEW e \in Found(a) \union ToLoad(a.entries)
        PROVE  \E w \in a.entries : w.holds = e.holds
    <3>1. CASE e \in ToLoad(a.entries)
      BY <3>1 DEF ToLoad
    <3>2. CASE e \in Found(a)
      <4>1. PICK w \in a.entries : w.key = e.key
        BY <3>2 DEF Found
      <4>2. e.holds = Meaning(e.key) /\ w.holds = Meaning(w.key)
        BY <1>1, <3>2 DEF AskKnown, AllKnown, AsKeyed
      <4> QED BY <4>1, <4>2
    <3> QED BY <3>1, <3>2
  <2>2. ASSUME NEW w \in a.entries
        PROVE  \E e \in Found(a) \union ToLoad(a.entries) : w.holds = e.holds
    <3>1. CASE w \in ToLoad(a.entries)
      BY <3>1
    <3>2. CASE w \notin ToLoad(a.entries)
      <4>1. PICK e \in inCache : e.key = w.key
        BY <3>2 DEF ToLoad
      <4>2. e \in Found(a)
        BY <4>1 DEF Found
      <4>3. e.holds = Meaning(e.key) /\ w.holds = Meaning(w.key)
        BY <1>1, <4>2 DEF AskKnown, AllKnown, AsKeyed
      <4> QED BY <4>1, <4>2, <4>3
    <3> QED BY <3>1, <3>2
  <2> QED BY <2>1, <2>2
<1>5. served'.answer = served'.wanted
  <2>1. /\ served'.answer = {e.holds : e \in Found(a) \union ToLoad(a.entries)}
        /\ served'.wanted = {e.holds : e \in a.entries}
    BY DEF Serve, Outcome
  <2> QED BY <1>4, <2>1
<1>6. ServedSound'
  <2>1. "ok" \in Outcomes
    BY DEF Outcomes
  <2>2. served'.outcome \in Outcomes /\ served'.noted \in Notes \union {Nothing}
    BY <2>1, OutcomeIs DEF Serve, AskKnown
  <2> QED BY <2>2 DEF Serve, RoutesInv, ServedSound
<1> QED BY <1>2, <1>3, <1>5, <1>6 DEF RoutesInv, AnswersTheRequest

LEMMA RoutesInvStep == ASSUME RoutesInv, [RoutesNext]_routesVars PROVE RoutesInv'
<1>1. ASSUME NEW a \in Asks, Refuse(a) PROVE RoutesInv'
  <2>1. /\ served'.outcome # "ok" /\ served'.outcome \in Outcomes
        /\ served'.noted \in Notes \union {Nothing}
    BY <1>1, NobodyAsks, OutcomeIs DEF Refuse, Outcomes
  <2> QED BY <1>1, <2>1 DEF Refuse, RoutesInv, AllKnown, AnswersTheRequest, ServedSound
<1>2. ASSUME NEW a \in Asks, Serve(a) PROVE RoutesInv'
  BY <1>2, AllAsksKnown, ServingIsKnown
<1>3. ASSUME NEW a \in Asks, ServeFails(a) PROVE RoutesInv'
  <2>1. /\ served'.outcome # "ok" /\ served'.outcome \in Outcomes
        /\ served'.noted \in Notes \union {Nothing}
    BY <1>3, NobodyAsks, OutcomeIs DEF ServeFails, Outcomes
  <2> QED BY <1>3, <2>1 DEF ServeFails, RoutesInv, AllKnown, AnswersTheRequest, ServedSound
<1>4. ASSUME ReadAhead PROVE RoutesInv'
  <2>1. AllKnown(inCache')
    BY <1>4 DEF ReadAhead, RoutesInv, AllKnown, ToLoad
  <2> QED BY <1>4, <2>1 DEF ReadAhead, RoutesInv, AllKnown, AnswersTheRequest, ServedSound
<1>5. ASSUME SwitchEdition PROVE RoutesInv'
  BY <1>5 DEF SwitchEdition, RoutesInv, AllKnown, AnswersTheRequest, ServedSound
<1>6. ASSUME UNCHANGED routesVars PROVE RoutesInv'
  BY <1>6 DEF routesVars, RoutesInv, AllKnown, AnswersTheRequest, ServedSound
<1> QED BY <1>1, <1>2, <1>3, <1>4, <1>5, <1>6 DEF RoutesNext

(* Whatever was asked before and read ahead, each request is answered with *)
(* what its own upstream calls and rows hold, and with its own editions    *)
(* merged in: for every set of parameters, values, chapters, resources and *)
(* editions, and whatever is cached (cachedContent,                        *)
(* cachedVersesWithOptionalEnc and the page bundles of quran.service.ts).  *)
THEOREM EachRequestIsAnswered == RoutesSpec => []AnswersTheRequest
<1>1. RoutesInit => RoutesInv
  BY RoutesInvInit
<1>2. RoutesInv /\ [RoutesNext]_routesVars => RoutesInv'
  BY RoutesInvStep
<1>3. RoutesInv => AnswersTheRequest
  BY DEF RoutesInv
<1> QED BY <1>1, <1>2, <1>3, PTL DEF RoutesSpec

(* An entry is of a call with its query, and what was answered, noted and  *)
(* switched on is what there is of these.                                  *)
THEOREM RoutesTypeCorrect == RoutesSpec => []RoutesTypeOK
<1>1. RoutesInit => RoutesInv
  BY RoutesInvInit
<1>2. RoutesInv /\ [RoutesNext]_routesVars => RoutesInv'
  BY RoutesInvStep
<1>3. RoutesInv => RoutesTypeOK
  BY DEF RoutesInv, AllKnown, AsKeyed, ServedSound, RoutesTypeOK
<1> QED BY <1>1, <1>2, <1>3, PTL DEF RoutesSpec

----------------------------------------------------------------------------
(* Every part keeps to its types, while it is the one of the behaviour. *)
THEOREM PartsTypeCorrect == MCSpec => []PartsTypeOK
<1>1. MCInit => Init /\ PagesInit /\ RoutesInit /\ ExportInit /\ which \in {"catalog", "pages", "routes", "export"}
  BY DEF MCInit
<1>2. [MCNext]_allVars => /\ [Next]_vars /\ [PagesNext]_pagesVars /\ [RoutesNext]_routesVars
                          /\ [ExportNext]_exportVars /\ UNCHANGED which
  BY DEF MCNext, allVars
<1>3. MCSpec => Spec /\ PagesSpec /\ RoutesSpec /\ ExportSpec
  BY <1>1, <1>2, PTL DEF MCSpec, Spec, PagesSpec, RoutesSpec, ExportSpec
<1>4. MCSpec => [](which \in {"catalog", "pages", "routes", "export"})
  <2>1. which \in {"catalog", "pages", "routes", "export"} /\ UNCHANGED which
          => (which \in {"catalog", "pages", "routes", "export"})'
    OBVIOUS
  <2> QED BY <1>1, <1>2, <2>1, PTL DEF MCSpec
<1>5. TypeOK /\ PagesTypeOK /\ RoutesTypeOK /\ ExportTypeOK
        /\ which \in {"catalog", "pages", "routes", "export"} => PartsTypeOK
  BY DEF PartsTypeOK
<1>6. MCSpec => []TypeOK /\ []PagesTypeOK /\ []RoutesTypeOK /\ []ExportTypeOK
  BY <1>3, TypeCorrect, PagesTypeCorrect, RoutesTypeCorrect, ExportTypeCorrect
<1> QED BY <1>4, <1>5, <1>6, PTL
=============================================================================
