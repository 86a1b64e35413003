\* Two lists of two rows, two editors, two edits and syncs, readers of one list;
\* two editions of two pages and three verses, two commands, readers of a page and of its verses;
\* each route, with queries of up to two parameters; five files, two lanes and two runs.
CONSTANTS
  r1 = r1
  r2 = r2
  h1 = h1
  h2 = h2
  NoValue = NoValue
  List = {"translations", "reciters"}
  Asked = {"translations"}
  Resource = {r1, r2}
  Curated = {r1}
  Editor = {h1, h2}
  MaxEdits = 2
  Mushaf = {1, 4}
  OwnLayout = {}
  PageCount = 2
  Verse = {1, 2, 3}
  Layout <- MCLayout
  Watched <- MCWatched
  Runner = {"j1", "j2"}
  MaxRuns = 2
  MaxChanges = 1
  Values <- MCValues
  Chapter = {1}
  PageNumber = {1, 2}
  LastPage = 2
  ResourceId = {"131", "junk"}
  Numeric = {"131"}
  EncKey = {"ky"}
  Script = {"uthmani", "braille"}
  MaxParams = 2
  LanguageCode <- MCLanguageCode
  File <- MCFile
  Pools <- MCPools
  Lane = {"l1", "l2"}
  Fatal = {"scripts"}
  MaxTries = 1
  MaxExports = 2
SPECIFICATION MCSpec
SYMMETRY Symmetry
INVARIANTS
  PartsTypeOK
  ListsCatchUp
  OneDefault
  ChoicesStand
  WholeEditions
  PagesServedAreCurrent
  AnswersTheRequest
  ExportIsWhole
\* commands and runs are bounded
CHECK_DEADLOCK FALSE
