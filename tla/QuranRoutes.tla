----------------------------- MODULE QuranRoutes -----------------------------
(***************************************************************************)
(* What each route of the Quran API answers with, and under which keys     *)
(* that is cached.  An ask is an HTTP request with the cache entries it is *)
(* answered from.  An entry holds what it was loaded with: an upstream     *)
(* call or rows of the database, whether the media URLs in it are          *)
(* normalised, and the QuranEnc editions merged into it.  Many routes      *)
(* share one cache, and some of them one entry.                            *)
(*                                                                         *)
(* The text of a parameter is the sequence of its comma-separated parts.   *)
(* canonicalizeQuery joins name=value pairs with & and escapes neither, so *)
(* that it tells apart only values that contain neither: those of Values.  *)
(***************************************************************************)
EXTENDS Integers, Sequences, SequencesExt

CONSTANTS
  Values,        \* what readers send for each parameter, once the DTO has let it through
  Chapter,       \* chapters, and the other numbered parts of the Qur'an
  PageNumber,    \* page numbers readers ask for
  LastPage,      \* MADANI_MUSHAF_PAGE_COUNT
  ResourceId,      \* resource ids readers ask for
  Numeric,       \* those that are numbers
  EncKey,        \* QURANENC_ALLOWED_TRANSLATION_KEYS
  Script,        \* scripts readers ask for
  MaxParams,     \* bound on the parameters of a query
  LanguageCode   \* the code of each language that has one: LANGUAGE_CODE_MAP

ASSUME RoutesAssumption ==
  /\ LastPage \in Nat /\ MaxParams \in Nat
  /\ Numeric \subseteq ResourceId /\ EncKey \intersect Numeric = {}

VARIABLES
  inCache,    \* the entries that are cached
  ahead,   \* the entries being read ahead
  activeEditions,   \* the editions of QuranEnc that are active in the catalog
  served   \* the last ask and what became of it

routesVars == <<inCache, ahead, activeEditions, served>>

----------------------------------------------------------------------------
(* Queries. *)

NoParams == <<>>
Empty == <<>>  \* the text of a parameter that is there and empty

Only(q, names) == [p \in DOMAIN q \intersect names |-> q[p]]

\* the parameters of both, those of the first before those of the second; TLC's @@ is this
Over(q, r) == [p \in DOMAIN q \union DOMAIN r |-> IF p \in DOMAIN q THEN q[p] ELSE r[p]]

\* the queries that have some of the parameters
Query(names) ==
  UNION { {q \in [s -> UNION {Values[p] : p \in s}] : \A p \in s : q[p] \in Values[p]} :
            s \in UNION {kSubset(n, names \intersect DOMAIN Values) : n \in 0..MaxParams} }

\* parameters that are missing or empty are not passed on
Pick(q, names) == Only(q, {p \in names \intersect DOMAIN q : q[p] # Empty})

LanguageQuery == {"language"}
PaginationQuery == LanguageQuery \union {"page", "per_page"}
VersesQuery == PaginationQuery \union {"translations", "tafsirs", "words", "audio", "fields",
  "word_fields", "translation_fields", "tafsir_fields", "mushaf"}
PageLookupQuery == {"mushaf", "chapter_number", "juz_number", "page_number", "from", "to"}
SearchQuery == {"query", "mode", "page", "size", "translation_ids", "navigationalResultsNumber",
  "versesResultsNumber", "exact_matches_only"}
TimestampQuery == {"chapter_number", "verse_key", "verse_id", "word"}
ScriptQuery == {"verse_key", "chapter_number", "juz_number", "page_number", "hizb_number",
  "rub_el_hizb_number", "ruku_number", "manzil_number"}

\* split-translation-ids: numbers go to Quran.Foundation, the rest to QuranEnc or nowhere
QfIds(text) == SelectSeq(text, LAMBDA t : t \in Numeric)
EncIds(text) ==
  FoldLeft(LAMBDA ids, t : IF t \in EncKey /\ ~Contains(ids, t) THEN Append(ids, t) ELSE ids,
           <<>>, text)
TextOf(q, name) == IF name \in DOMAIN q THEN q[name] ELSE Empty

\* a query whose ids are those for Quran.Foundation
QfQuery(q, name) ==
  IF name \in DOMAIN q THEN Pick([q EXCEPT ![name] = QfIds(@)], DOMAIN q) ELSE q

----------------------------------------------------------------------------
(* Entries of the cache. *)

Holds(path, query, media, enc) == [call |-> <<path, query>>, media |-> media, merged |-> enc]
CacheEntry(key, holds) == [key |-> key, holds |-> holds]
CacheKey(namespace, path, query) == <<namespace, path, query>>

CachedContent(namespace, path, query, media) ==
  CacheEntry(CacheKey(namespace, path, query), Holds(path, query, media, <<>>))

\* mutant: what is merged into the verses is not in the key
WithoutEnc(query, enc) == query

\* the parameters of a key tell apart what is merged into the verses
WithEnc(query, enc) == IF enc = <<>> THEN query ELSE Over([_enc |-> enc], query)

CachedVerses(path, q) ==
  LET query == Pick(QfQuery(q, "translations"), VersesQuery)
      enc == EncIds(TextOf(q, "translations"))
  IN CacheEntry(CacheKey("verses", path, WithEnc(query, enc)), Holds(path, query, TRUE, enc))

\* rows of the database
Rows(key, table) == CacheEntry(key, Holds(table, NoParams, FALSE, <<>>))

----------------------------------------------------------------------------
(* Asks. *)

Nothing == ""
Ask(route, q, entries) ==
  [route |-> route, query |-> q, entries |-> entries,
   refused |-> FALSE, edition |-> Nothing, notes |-> Nothing, next |-> {}]
RefusedAsk(route, q) == [Ask(route, q, {}) EXCEPT !.refused = TRUE]
NoAsk == Ask(<<>>, NoParams, {})

\* chapters, and the information about one
SurahAsk(rest, q) ==
  Ask(<<"surahs">> \o rest, q,
      {CachedContent("chapters", <<"chapters">> \o rest, Pick(q, LanguageQuery), FALSE)})
Surahs ==
  { SurahAsk(rest, q) :
    rest \in {<<>>} \union {<<c>> : c \in Chapter} \union {<<c, "info">> : c \in Chapter},
    q \in Query(LanguageQuery) }

VersesIn(by, c, q) == {CachedVerses(<<"verses", by, c>>, q)}

\* verses of a chapter, whose next page is read ahead if upstream says that there is one
NextPages(c, q) == {VersesIn("by_chapter", c, Over([page |-> v], q)) : v \in Values["page"] \ {TextOf(q, "page")}}
AyahsBySurah ==
  { [Ask(<<"ayahs", "by_chapter", c>>, q, VersesIn("by_chapter", c, q)) EXCEPT
       !.next = {{}} \union NextPages(c, q)] : c \in Chapter, q \in Query(VersesQuery) }

\* verses of a juz, a hizb, a rub, a ruku or a manzil
AyahsByPart ==
  { Ask(<<"ayahs", by, c>>, q, VersesIn(by, c, q)) :
    by \in {"by_juz", "by_hizb", "by_rub", "by_rub_el_hizb", "by_ruku", "by_manzil"},
    c \in Chapter, q \in Query(VersesQuery) }

\* one verse, which is recorded as opened; and the verse of the day, which is not
VerseAsk(route, c, q) ==
  [Ask(<<"ayahs", route, c>>, q, VersesIn("by_key", c, q)) EXCEPT
     !.notes = IF route = "daily" THEN "DAILY_AYAH" ELSE "AYAH_OPEN"]
AyahByKey ==
  { VerseAsk(route, c, q) :
    route \in {"by_key", "daily"}, c \in Chapter, q \in Query(VersesQuery) }

\* juzs, hizbs, rubs, rukus and manzils
PartAsk(name, rest) ==
  Ask(<<name>> \o rest, NoParams, {CachedContent("chapters", <<name>> \o rest, NoParams, FALSE)})
PartLists ==
  { PartAsk(name, rest) :
    name \in {"juzs", "hizbs", "rub_el_hizbs", "rukus", "manzils"},
    rest \in {<<>>} \union {<<c>> : c \in Chapter} }

PagesLookup ==
  { Ask(<<"pages/lookup">>, q,
        {CachedContent("chapters", <<"pages", "lookup">>, Pick(q, PageLookupQuery), FALSE)}) :
    q \in Query(PageLookupQuery) }

\* QF_MUSHAF_RESOURCES, DEFAULT_MUSHAF_ID
MushafIds == {"1", "2", "3", "4", "5", "6", "7", "10", "19", "1405"}
MushafOf(q) == IF "mushaf" \in DOMAIN q THEN q.mushaf[1] ELSE "1"

PageMetadataKey(n, m) == IF m = "1" THEN <<"page", n>> ELSE <<"page", m, n>>
PagesListKey(m) == IF m = "1" THEN <<"pages:list">> ELSE <<"pages:list", m>>

PageListAsk(q) ==
  IF MushafOf(q) \in MushafIds
  THEN Ask(<<"pages">>, q, {Rows(PagesListKey(MushafOf(q)), <<"mushaf_pages", MushafOf(q)>>)})
  ELSE RefusedAsk(<<"pages">>, q)
PageLists == { PageListAsk(q) : q \in Query({"mushaf"}) }

PageAsk(n, q) ==
  IF n \in 1..LastPage /\ MushafOf(q) \in MushafIds
  THEN Ask(<<"pages", n>>, q,
           {Rows(PageMetadataKey(n, MushafOf(q)), <<"mushaf_pages", MushafOf(q), n>>)})
  ELSE RefusedAsk(<<"pages", n>>, q)
PageDetails == { PageAsk(n, q) : n \in PageNumber, q \in Query({"mushaf"}) }

\* DEFAULT_PAGE_VERSE_FIELDS, DEFAULT_PAGE_WORDS, DEFAULT_PAGE_VERSE_PER_PAGE
DefaultFields == <<"text_uthmani", "verse_key">>
PageDefaults == [words |-> <<"true">>, per_page |-> <<"50">>]
MergeFields(text) == DefaultFields \o SelectSeq(text, LAMBDA f : ~Contains(DefaultFields, f))

VerseQueryWithPageDefaults(q) ==
  Over([fields |-> MergeFields(TextOf(q, "fields")), mushaf |-> <<MushafOf(q)>>],
       Over(Pick(q, VersesQuery), PageDefaults))

\* a page with all its verses, and the next page with all of its
PageVersesKey(n, m, query) == PageMetadataKey(n, m) \o <<"verses", query>>
PageBundle(n, q) ==
  LET query == VerseQueryWithPageDefaults(QfQuery(q, "translations"))
      enc == EncIds(TextOf(q, "translations"))
  IN CacheEntry(PageVersesKey(n, MushafOf(q), WithEnc(query, enc)),
           Holds(<<"verses", "by_page", n>>, query, TRUE, enc))

PageVersesAsk(route, n, q) ==
  IF n \in 1..LastPage /\ MushafOf(q) \in MushafIds
  THEN [Ask(<<route, n>>, q, {PageBundle(n, q)}) EXCEPT
         !.next = IF n < LastPage THEN {{PageBundle(n + 1, q)}} ELSE {}]
  ELSE RefusedAsk(<<route, n>>, q)

PageVerses ==
  { PageVersesAsk(route, n, q) :
    route \in {"page_verses", "ayahs_by_page"}, n \in PageNumber, q \in Query(VersesQuery) }

Languages ==
  { Ask(<<"languages">>, q,
        {CachedContent("resources", <<"resources", "languages">>, Pick(q, LanguageQuery), FALSE)}) :
    q \in Query(LanguageQuery) }

\* QF_SCRIPT_WHITELIST
Scripts == {"uthmani", "uthmani_tajweed", "uthmani_simple", "imlaei", "indopak",
  "indopak_nastaleeq", "code_v1", "code_v2", "qpc_hafs"}

ScriptAsk(s, q) ==
  IF s \in Scripts
  THEN Ask(<<"scripts", s>>, q,
           {CachedContent("verses", <<"quran", "verses", s>>, Pick(q, ScriptQuery), TRUE)})
  ELSE RefusedAsk(<<"scripts", s>>, q)
ScriptTexts == { ScriptAsk(s, q) : s \in Script, q \in Query(ScriptQuery) }

Footnotes ==
  { Ask(<<"footnotes", c>>, NoParams,
        {CachedContent("resources", <<"foot_notes", c>>, NoParams, FALSE)}) : c \in Chapter }

----------------------------------------------------------------------------
(* Translations, tafsirs, reciters, audio and search. *)

\* the local catalog, by the code of the language, or all of it
CodeOf(q) ==
  LET text == TextOf(q, "language")
  IN IF text # Empty /\ text[1] \in DOMAIN LanguageCode THEN LanguageCode[text[1]] ELSE ""
CatalogAsk(kind, q) ==
  Ask(<<kind>>, q, {Rows(CacheKey("resources", <<"catalog", kind>>, [language |-> <<CodeOf(q)>>]),
                         <<kind, CodeOf(q)>>)})
Catalog == { CatalogAsk(kind, q) : kind \in {"translations", "tafsirs"}, q \in Query(LanguageQuery) }

\* by their kind, whatever the language
KindOf(route) == IF route = "recitations" THEN "AYAH" ELSE "CHAPTER"
RecitersAsk(route, q) ==
  Ask(<<route>>, q, {Rows(CacheKey("resources", <<"catalog", route>>, [kind |-> <<KindOf(route)>>]),
                          <<"reciters", KindOf(route)>>)})
ReciterLists ==
  { RecitersAsk(route, q) : route \in {"recitations", "chapterReciters"}, q \in Query(LanguageQuery) }

\* an edition of QuranEnc is served from its own rows, and only while it is active
OfEdition(route, q, r, entries) == [Ask(route, q, entries) EXCEPT !.edition = r]
EncRows(r, by, c) == CachedContent("verses", <<"quranenc", r, by, c>>, NoParams, FALSE)

\* what has this id: an edition, a translation of Quran.Foundation, or nothing
Translation(r, ofEdition, ofFoundation, route, q) ==
  CASE r \in EncKey -> OfEdition(route, q, r, ofEdition)
    [] r \in Numeric -> Ask(route, q, ofFoundation)
    [] OTHER -> RefusedAsk(route, q)

InfoAsk(r) ==
  Translation(r, {},
    {CachedContent("resources", <<"resources", "translations", r, "info">>, NoParams, FALSE)},
    <<"translations", r, "info">>, NoParams)
TranslationInfo == { InfoAsk(r) : r \in ResourceId \union EncKey }

ByAyahAsk(r, c) ==
  Translation(r, {EncRows(r, "by_ayah", c)},
    {CachedContent("verses", <<"translations", r, "by_ayah", c>>, NoParams, FALSE)},
    <<"translations", r, "by_ayah", c>>, NoParams)
TranslationByAyah == { ByAyahAsk(r, c) : r \in ResourceId \union EncKey, c \in Chapter }

\* the edition's rows of a juz or a page are those of the verses Quran.Foundation has there: of
\* the chapters in it, which is one chapter here
EncScope(r, by, c, query) ==
  {CachedContent("verses", <<"verses", by, c>>, query, TRUE), EncRows(r, "by_chapter", c)}

EncOf(r, by, c, q) ==
  IF by = "by_chapter" THEN {EncRows(r, by, c)} ELSE EncScope(r, by, c, Pick(q, PaginationQuery))

ByPartAsk(r, by, c, q) ==
  Translation(r, EncOf(r, by, c, q),
    {CachedContent("verses", <<"translations", r, by, c>>, Pick(q, PaginationQuery), FALSE)},
    <<"translations", r, by, c>>, q)
TranslationByPart ==
  { ByPartAsk(r, by, c, q) :
    r \in ResourceId \union EncKey, by \in {"by_chapter", "by_juz", "by_page"}, c \in Chapter,
    q \in Query(PaginationQuery) }

TafsirAsk(r, by, c, q) ==
  Ask(<<"tafsirs", r, by, c>>, q,
      {CachedContent("verses", <<"tafsirs", r, by, c>>, Pick(q, PaginationQuery), FALSE)})
TafsirByPart ==
  { TafsirAsk(r, by, c, q) :
    r \in Numeric, by \in {"by_chapter", "by_juz", "by_page"}, c \in Chapter,
    q \in Query(PaginationQuery) }

TafsirInfo ==
  { Ask(<<"tafsirs", r, "info">>, NoParams,
        {CachedContent("resources", <<"resources", "tafsirs", r, "info">>, NoParams, FALSE)}) :
    r \in Numeric }
TafsirVerseAsk(r, c) ==
  Ask(<<"tafsirs", r, "by_ayah", c>>, NoParams,
      {CachedContent("verses", <<"tafsirs", r, "by_ayah", c>>, NoParams, FALSE)})
TafsirByAyah == { TafsirVerseAsk(r, c) : r \in Numeric, c \in Chapter }

Segments == [segments |-> <<"true">>]

\* the recordings of a reciter, by chapter or by verse; their URLs are normalised
RecordingsAsk(r, rest) ==
  Ask(<<"audio", "chapter-reciters", r>> \o rest, NoParams,
      {CachedContent("audio", <<"chapter_recitations", r>> \o rest,
                     IF rest = <<>> THEN NoParams ELSE Segments, TRUE)})
ChapterAudio ==
  { RecordingsAsk(r, rest) :
    r \in Numeric, rest \in {<<>>} \union {<<c>> : c \in Chapter} }
RecordingAsk(r, c, q) ==
  Ask(<<"audio", "recitations", r, "by_chapter", c>>, q,
      {CachedContent("audio", <<"recitations", r, "by_chapter", c>>,
                     Pick(q, {"page", "per_page"}), TRUE)})
VerseRecordingAsk(r, c) ==
  Ask(<<"audio", "recitations", r, "by_ayah", c>>, NoParams,
      {CachedContent("audio", <<"recitations", r, "by_ayah", c>>, NoParams, TRUE)})
AyahAudio ==
  { VerseRecordingAsk(r, c) : r \in Numeric, c \in Chapter }
  \union { RecordingAsk(r, c, q) : r \in Numeric, c \in Chapter, q \in Query(PaginationQuery) }
TimestampAsk(r, q) ==
  Ask(<<"audio", "reciters", r, "timestamp">>, q,
      {CachedContent("audio", <<"audio", "reciters", r, "timestamp">>, Pick(q, TimestampQuery), FALSE)})
Timestamps == { TimestampAsk(r, q) : r \in Numeric, q \in Query(TimestampQuery) }

\* search knows nothing of QuranEnc, and a search is tracked once it is answered
SearchAsk(q) ==
  [Ask(<<"search">>, q, {CachedContent("search", <<"search">>,
     Pick(QfQuery(q, "translation_ids"), SearchQuery), FALSE)}) EXCEPT !.notes = "SEARCH"]
Search == { SearchAsk(q) : q \in {s \in Query(SearchQuery) : "query" \in DOMAIN s} }

\* the groups of routes of the controller
TextAsks == Surahs \union AyahsBySurah \union AyahsByPart \union AyahByKey
PageAsks == PartLists \union PagesLookup \union PageLists \union PageDetails \union PageVerses
ResourceAsks ==
  Languages \union ScriptTexts \union Footnotes \union Catalog \union TranslationInfo
  \union TranslationByAyah \union TranslationByPart \union TafsirInfo \union TafsirByAyah
  \union TafsirByPart
AudioAsks == ReciterLists \union ChapterAudio \union AyahAudio \union Timestamps \union Search
Asks == TextAsks \union PageAsks \union ResourceAsks \union AudioAsks

----------------------------------------------------------------------------
(* Serving them. *)

Notes == {"AYAH_OPEN", "DAILY_AYAH", "SEARCH"}
Outcomes == {"none", "ok", "badRequest", "notFound", "failed"}

RoutesTypeOK ==
  /\ \A e \in inCache \union ahead : Len(e.holds.call) = 2 /\ e.holds.media \in BOOLEAN
  /\ activeEditions \subseteq EncKey
  /\ served.outcome \in Outcomes /\ served.noted \in Notes \union {Nothing}

\* what became of an ask, and what should have been answered
Outcome(a, outcome, answer) ==
  [route |-> a.route, outcome |-> outcome, answer |-> answer,
   wanted |-> {e.holds : e \in a.entries}, noted |-> IF outcome = "ok" THEN a.notes ELSE Nothing]

RoutesInit ==
  /\ inCache = {} /\ ahead = {}
  /\ activeEditions \in SUBSET EncKey
  /\ served = Outcome(NoAsk, "none", {})

\* the entries an ask finds, and those it loads
Found(a) == {e \in inCache : \E w \in a.entries : w.key = e.key}
ToLoad(wanted) == {w \in wanted : ~\E e \in inCache : e.key = w.key}

Refuse(a) ==
  /\ a.refused \/ a.edition \notin activeEditions \union {Nothing}
  /\ served' = Outcome(NoAsk, IF a.refused THEN "badRequest" ELSE "notFound", {})
  /\ UNCHANGED <<inCache, ahead, activeEditions>>

\* other entries make room: a request meets those of the last one, and what was read ahead
Serve(a) ==
  /\ ahead = {} /\ ~a.refused /\ a.edition \in activeEditions \union {Nothing}
  /\ inCache' = Found(a) \union ToLoad(a.entries)
  /\ served' = Outcome(a, "ok", {e.holds : e \in Found(a) \union ToLoad(a.entries)})
  /\ ahead' \in IF a.next = {} THEN {{}} ELSE a.next
  /\ UNCHANGED activeEditions

ServeFails(a) ==
  /\ ~a.refused /\ a.edition \in activeEditions \union {Nothing} /\ ToLoad(a.entries) # {}
  /\ served' = Outcome(NoAsk, "failed", {})
  /\ UNCHANGED <<inCache, ahead, activeEditions>>

\* in the background; a failure is not noticed
ReadAhead ==
  /\ ahead # {}
  /\ inCache' \in {inCache, inCache \union ToLoad(ahead)}
  /\ ahead' = {}
  /\ UNCHANGED <<activeEditions, served>>

\* an administrator switches editions on and off
SwitchEdition ==
  /\ activeEditions' \in SUBSET EncKey
  /\ UNCHANGED <<inCache, ahead, served>>

RoutesNext ==
  \/ \E a \in Asks : Refuse(a) \/ Serve(a) \/ ServeFails(a)
  \/ ReadAhead
  \/ SwitchEdition

RoutesSpec == RoutesInit /\ [][RoutesNext]_routesVars

----------------------------------------------------------------------------
(* Properties. *)

\* Whichever requests came before, and whatever was read ahead, a request is answered with what
\* its own upstream calls and rows hold, processed as its route processes them: no two requests
\* share a key and differ in what they should get.
AnswersTheRequest == served.outcome = "ok" => served.answer = served.wanted
=============================================================================
