------------------------------ MODULE UserLists ------------------------------
(***************************************************************************)
(* The lists a user pages through, newest first: bookmarks and favorites,  *)
(* which he makes, changes and removes; notifications, which he marks as   *)
(* read; and the ayahs he opened lately, with the history of the openings. *)
(* A page is the rows after a cursor, the instant and identifier of the    *)
(* last row of the page before.  The lists have tables of their own, so    *)
(* that one behaviour is about one of them.                                *)
(***************************************************************************)
EXTENDS Integers, Sequences, FiniteSets

CONSTANTS
  RowId,      \* identifiers a row may draw, which are ordered
  VersesIn,   \* the number of verses of each chapter
  Editor,     \* requests being handled
  PageSize,   \* the limit of a page
  Filter,     \* filters a client may ask for
  LastTick,   \* bound on the time
  MaxEdits    \* bound on the requests that write

ASSUME ListsAssumption ==
  /\ RowId \subseteq Nat /\ RowId # {} /\ IsFiniteSet(RowId)
  /\ DOMAIN VersesIn \subseteq Nat \ {0} /\ VersesIn \in [DOMAIN VersesIn -> Nat \ {0}]
  /\ PageSize \in Nat \ {0} /\ LastTick \in Nat /\ MaxEdits \in Nat

VARIABLES
  list,     \* which of the lists
  rows,     \* its rows
  edit,     \* where each request is, and what it holds
  pointer,  \* ReadingProgress: when the open it shows began, and when that was committed
  page,     \* what a client that turns the pages has seen
  now,
  edits

listVars == <<list, rows, edit, pointer, page, now, edits>>

Instant == 0..LastTick
Absent == 0                  \* a number that is not given
Chapter == DOMAIN VersesIn
VerseNumber == UNION {1..VersesIn[c] : c \in Chapter}

Saved == {"bookmarks", "favorites"}
Read == {"recent", "history"}

\* a row that is no more is kept only as a bookmark
ListRow == [state: {"none", "active", "deleted"}, chapter: Chapter \union {Absent},
            verse: VerseNumber \union {Absent}, unread: BOOLEAN, at: Instant]
EmptyRow == [state |-> "none", chapter |-> Absent, verse |-> Absent, unread |-> FALSE, at |-> 0]

NoEdit == [pc |-> "idle", id |-> CHOOSE i \in RowId : TRUE, chapter |-> Absent, verse |-> Absent, at |-> 0]
NoFilter == [chapter |-> Absent, verse |-> Absent, unreadOnly |-> FALSE, from |-> 0, to |-> LastTick]
NoCursor == [at |-> LastTick + 1, id |-> 0]
NoPage == [pc |-> "idle", filter |-> NoFilter, cursor |-> NoCursor, shown |-> <<>>, stayed |-> {}]

ListsTypeOK ==
  /\ list \in Saved \union Read \union {"notifications"}
  /\ rows \in [RowId -> ListRow]
  /\ edit \in [Editor -> [pc: {"idle", "insert", "find", "write", "commit"}, id: RowId,
                          chapter: Chapter \union {Absent}, verse: VerseNumber \union {Absent}, at: Instant]]
  /\ pointer \in [began: Instant, committed: Instant]
  /\ page.stayed \subseteq RowId /\ page.shown \in Seq(RowId)
  /\ now \in Instant /\ edits \in 0..MaxEdits

ListsInit ==
  /\ list \in Saved \union Read \union {"notifications"}
  /\ rows = [i \in RowId |-> EmptyRow]
  /\ edit = [e \in Editor |-> NoEdit]
  /\ pointer = [began |-> 0, committed |-> 0]
  /\ page = NoPage
  /\ now = 0 /\ edits = 0

----------------------------------------------------------------------------
IsValidAyahCoordinate(c, v) == c \in Chapter /\ v \in 1..VersesIn[c]

Given(value, otherwise) == IF value # Absent THEN value ELSE otherwise

AskEdit(e, new) ==
  /\ edit[e].pc = "idle"
  /\ edits < MaxEdits /\ edits' = edits + 1
  /\ edit' = [edit EXCEPT ![e] = new]
  /\ UNCHANGED <<list, rows, pointer, page, now>>

EditEnds(e) == edit' = [edit EXCEPT ![e] = NoEdit]

\* what a list shows under a filter
Listed(r, f) ==
  /\ r.state = "active"
  /\ f.chapter \in {Absent, r.chapter} /\ f.verse \in {Absent, r.verse}
  /\ f.unreadOnly => r.unread
  /\ f.from <= r.at /\ r.at <= f.to

\* the rows change; `stayed` keeps those listed all along, in one place
PutRows(new) ==
  /\ rows' = new
  /\ page' = [page EXCEPT !.stayed = {i \in @ : Listed(new[i], page.filter) /\ new[i].at = rows[i].at}]

\* the unique indexes: of the favorites, and of the bookmarks that are not deleted
Taken(c, v, i) ==
  /\ list \in Saved
  /\ \E j \in RowId \ {i} : rows[j].state = "active" /\ rows[j].chapter = c /\ rows[j].verse = v

----------------------------------------------------------------------------
(* Making a row.  The instant of creation is taken before the row can be   *)
(* seen, so that rows appear in another order than their instants.         *)

AskCreate(e, c, v) ==
  /\ IsValidAyahCoordinate(c, v)
  /\ AskEdit(e, [NoEdit EXCEPT !.pc = "insert", !.chapter = c, !.verse = v, !.at = now])

CreateBookmark(e, c, v) == list = "bookmarks" /\ AskCreate(e, c, v)
CreateFavorite(e, c, v) == list = "favorites" /\ AskCreate(e, c, v)

Notify(e) ==
  /\ list = "notifications"
  /\ AskEdit(e, [NoEdit EXCEPT !.pc = "insert", !.at = now])

InsertRow(e, i) ==
  LET r == edit[e] IN
  /\ r.pc = "insert" /\ rows[i].state = "none"
  /\ IF Taken(r.chapter, r.verse, i) THEN UNCHANGED <<rows, page>>
     ELSE PutRows([rows EXCEPT ![i] = [state |-> "active", chapter |-> r.chapter, verse |-> r.verse,
                                       unread |-> list = "notifications", at |-> r.at]])
  /\ EditEnds(e)
  /\ UNCHANGED <<list, pointer, now, edits>>

----------------------------------------------------------------------------
(* Changing a row: it is read, the coordinates that are not given are      *)
(* taken from it and checked with the others, and a transaction then finds *)
(* the row again and writes all of them.                                   *)

\* mutant: only the coordinates that were given are written
WriteGiven(given, checked) == given

\* what is written of a coordinate: the one that was checked, given or not
WriteBack(given, checked) == checked

AskUpdate(e, i, c, v) ==
  LET chapter == Given(c, rows[i].chapter)
      verse == Given(v, rows[i].verse)
  IN
  /\ rows[i].state = "active"
  /\ IsValidAyahCoordinate(chapter, verse)
  /\ AskEdit(e, [NoEdit EXCEPT !.pc = "find", !.id = i,
                               !.chapter = WriteBack(c, chapter), !.verse = WriteBack(v, verse)])

\* a bookmark may have other fields changed alone
UpdateBookmark(e, i, c, v) == list = "bookmarks" /\ AskUpdate(e, i, c, v)
UpdateFavorite(e, i, c, v) ==
  list = "favorites" /\ <<c, v>> # <<Absent, Absent>> /\ AskUpdate(e, i, c, v)

FindOwnedActive(e) ==
  /\ edit[e].pc = "find"
  /\ IF rows[edit[e].id].state = "active" THEN edit' = [edit EXCEPT ![e].pc = "write"] ELSE EditEnds(e)
  /\ UNCHANGED <<list, rows, pointer, page, now, edits>>

\* by the identifier alone: a bookmark deleted meanwhile is written too
UpdateOwned(e) ==
  LET r == edit[e]
      i == r.id
      old == rows[i]
  IN
  /\ r.pc = "write"
  /\ IF \/ old.state = "active" /\ Taken(r.chapter, r.verse, i)
        \/ old.state = "deleted" /\ list = "favorites"
     THEN UNCHANGED <<rows, page>>
     ELSE PutRows([rows EXCEPT ![i].chapter = Given(r.chapter, old.chapter),
                               ![i].verse = Given(r.verse, old.verse)])
  /\ EditEnds(e)
  /\ UNCHANGED <<list, pointer, now, edits>>

RemoveRow(i) ==
  /\ rows[i].state = "active"
  /\ edits < MaxEdits /\ edits' = edits + 1
  /\ PutRows([rows EXCEPT ![i].state = "deleted"])
  /\ UNCHANGED <<list, edit, pointer, now>>

SoftDeleteOwned(i) == list = "bookmarks" /\ RemoveRow(i)
DeleteOwned(i) == list = "favorites" /\ RemoveRow(i)

MarkRead(some) ==
  /\ list = "notifications"
  /\ edits < MaxEdits /\ edits' = edits + 1
  /\ PutRows([i \in RowId |-> IF i \in some /\ rows[i].state = "active"
                              THEN [rows[i] EXCEPT !.unread = FALSE] ELSE rows[i]])
  /\ UNCHANGED <<list, edit, pointer, now>>

\* one notification, and all of them
MarkNotificationRead(i) == rows[i].unread /\ MarkRead({i})
MarkAllNotificationsRead == MarkRead(RowId)

----------------------------------------------------------------------------
(* Opening an ayah, whose instant is taken before the transaction: a row   *)
(* of the history, and the one of the verse moves to that instant.         *)

OpenAyah(e, c, v) ==
  /\ list \in Read /\ IsValidAyahCoordinate(c, v)
  /\ AskEdit(e, [NoEdit EXCEPT !.pc = "commit", !.chapter = c, !.verse = v, !.at = now])

OfVerse(c, v) == {i \in RowId : rows[i].state = "active" /\ rows[i].chapter = c /\ rows[i].verse = v}

\* mutant: the upsert of the pointer creates it and never updates it
PointerCreated(r) == IF \E j \in RowId : rows[j].state = "active" THEN pointer
                     ELSE [began |-> r.at, committed |-> now]

PointerTo(r) == [began |-> r.at, committed |-> now]

CommitOpened(e, i) ==
  LET r == edit[e] IN
  /\ r.pc = "commit"
  /\ IF list = "recent" /\ OfVerse(r.chapter, r.verse) # {} THEN i \in OfVerse(r.chapter, r.verse)
     ELSE rows[i].state = "none"
  /\ PutRows([rows EXCEPT ![i] = [state |-> "active", chapter |-> r.chapter, verse |-> r.verse,
                                  unread |-> FALSE, at |-> r.at]])
  /\ pointer' = PointerTo(r)
  /\ EditEnds(e)
  /\ UNCHANGED <<list, now, edits>>

----------------------------------------------------------------------------
(* Turning the pages. *)

\* newest first, and of one instant the greater identifier first
Precedes(i, j) == rows[i].at > rows[j].at \/ (rows[i].at = rows[j].at /\ i > j)

\* mutant: the cursor is the instant alone
OlderThanCursor(i, cursor) == rows[i].at < cursor.at

\* the predicate of the cursor
AfterCursor(i, cursor) == rows[i].at < cursor.at \/ (rows[i].at = cursor.at /\ i < cursor.id)

\* a verse needs its chapter
SavedFilter(f) == ~f.unreadOnly /\ (f.verse # Absent => IsValidAyahCoordinate(f.chapter, f.verse))
Unbounded(f) == f.from = 0 /\ f.to = LastTick
OfAnyVerse(f) == f.chapter = Absent /\ f.verse = Absent

BookmarkFilter(f) == SavedFilter(f) /\ f.from <= f.to
FavoriteFilter(f) == SavedFilter(f) /\ Unbounded(f)
NotificationFilter(f) == OfAnyVerse(f) /\ Unbounded(f)
HistoryFilter(f) == OfAnyVerse(f) /\ ~f.unreadOnly

FilterOK(f) ==
  \/ list = "bookmarks" /\ BookmarkFilter(f)
  \/ list = "favorites" /\ FavoriteFilter(f)
  \/ list = "notifications" /\ NotificationFilter(f)
  \/ list = "recent" /\ f = NoFilter
  \/ list = "history" /\ HistoryFilter(f)

StartListing(f) ==
  /\ page.pc = "idle" /\ FilterOK(f)
  /\ page' = [NoPage EXCEPT !.pc = "turning", !.filter = f,
                            !.stayed = {i \in RowId : Listed(rows[i], f)}]
  /\ UNCHANGED <<list, rows, edit, pointer, now, edits>>

CursorOf(i) == [at |-> rows[i].at, id |-> i]

\* one row more than the page holds tells that there is another page
ToKeysetPage(found) ==
  LET hasMore == Len(found) > PageSize
      shown == SubSeq(found, 1, IF hasMore THEN PageSize ELSE Len(found))
      last == shown[Len(shown)]
  IN page' = [page EXCEPT !.shown = @ \o shown,
                          !.pc = IF hasMore THEN "turning" ELSE "end",
                          !.cursor = IF hasMore THEN CursorOf(last) ELSE NoCursor]

\* the rows of a set, all of them, in that order
InOrder(set) ==
  CHOOSE s \in [1..Cardinality(set) -> set] :
    /\ \A i \in set : \E n \in DOMAIN s : s[n] = i
    /\ \A m, n \in DOMAIN s : m < n => Precedes(s[m], s[n])

TurnPage ==
  LET matching == {i \in RowId : Listed(rows[i], page.filter) /\ AfterCursor(i, page.cursor)}
      sorted == InOrder(matching)
  IN
  /\ page.pc = "turning"
  /\ ToKeysetPage(SubSeq(sorted, 1, IF Len(sorted) > PageSize THEN PageSize + 1 ELSE Len(sorted)))
  /\ UNCHANGED <<list, rows, edit, pointer, now, edits>>

ListBookmarks == list = "bookmarks" /\ TurnPage
ListFavorites == list = "favorites" /\ TurnPage
ListNotifications == list = "notifications" /\ TurnPage
GetRecent == list = "recent" /\ TurnPage
GetHistory == list = "history" /\ TurnPage

\* a statement that fails or a process that dies
EditFails(e) ==
  /\ edit[e].pc # "idle"
  /\ EditEnds(e)
  /\ UNCHANGED <<list, rows, pointer, page, now, edits>>

TimePasses ==
  /\ now < LastTick
  /\ now' = now + 1
  /\ UNCHANGED <<list, rows, edit, pointer, page, edits>>

ListsNext ==
  \/ \E e \in Editor, c \in Chapter, v \in VerseNumber :
       CreateBookmark(e, c, v) \/ CreateFavorite(e, c, v) \/ OpenAyah(e, c, v)
  \/ \E e \in Editor, i \in RowId, c \in Chapter \union {Absent}, v \in VerseNumber \union {Absent} :
       UpdateBookmark(e, i, c, v) \/ UpdateFavorite(e, i, c, v)
  \/ \E e \in Editor : Notify(e) \/ FindOwnedActive(e) \/ UpdateOwned(e) \/ EditFails(e)
  \/ \E e \in Editor, i \in RowId : InsertRow(e, i) \/ CommitOpened(e, i)
  \/ \E i \in RowId : SoftDeleteOwned(i) \/ DeleteOwned(i) \/ MarkNotificationRead(i)
  \/ MarkAllNotificationsRead
  \/ \E f \in Filter : StartListing(f)
  \/ ListBookmarks \/ ListFavorites \/ ListNotifications \/ GetRecent \/ GetHistory
  \/ TimePasses

ListsSpec == ListsInit /\ [][ListsNext]_listVars

----------------------------------------------------------------------------
(* Pages neither repeat nor skip: a row that stayed in the list and in its *)
(* place, while others came, went and moved, was shown at most once, and   *)
(* exactly once when there are no more pages.                              *)
PagesTellAll ==
  \A i \in page.stayed :
    LET times == Cardinality({n \in DOMAIN page.shown : page.shown[n] = i}) IN
    times <= 1 /\ (page.pc = "end" => times = 1)

(* A saved row is always at a verse of the Quran: changes of chapter and   *)
(* verse that overlap never leave the chapter of one with the verse of the *)
(* other.                                                                  *)
SavedAyahsExist ==
  list \in Saved =>
    \A i \in RowId : rows[i].state # "none" => IsValidAyahCoordinate(rows[i].chapter, rows[i].verse)

(* The continue pointer may show the older of two opens that overlapped,   *)
(* but never one that was committed before another, recorded, open began.  *)
ContinueIsRecent ==
  list \in Read =>
    \A i \in RowId : rows[i].state = "active" => rows[i].at <= pointer.committed
=============================================================================
