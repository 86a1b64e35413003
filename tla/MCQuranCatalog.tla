---------------------------- MODULE MCQuranCatalog ----------------------------
(***************************************************************************)
(* What the Quran module stores and serves from stores: the catalogs, the  *)
(* pages, the cached answers of its routes and the exported files.  None   *)
(* reads the state of another in these models, so that a behaviour here is *)
(* one of one of them.                                                     *)
(***************************************************************************)
EXTENDS ResourceCatalog, MushafPages, QuranRoutes, LocalExport

VARIABLE which  \* the part that is being checked

allVars == <<vars, pagesVars, routesVars, exportVars, which>>

\* the parts that are not being checked stay in one of their initial states
MCInit ==
  /\ which \in {"catalog", "pages", "routes", "export"}
  /\ Init /\ PagesInit /\ RoutesInit /\ ExportInit
  /\ which # "catalog" => row = [k \in Key |-> NoRow]
  /\ which # "pages" => upstream = CHOOSE l \in Layout : TRUE
  /\ which # "routes" => activeEditions = {}

\* readers of a page on its own are there beside one command, readers of its verses beside two
PagesBound ==
  LET k == <<"page", 1, 2>> IN
  \/ loading'[k].pc = "none" /\ cached'[k].kind # "envelope"
  \/ runs' <= 1 /\ job'["j2"].pc = "idle"

\* one step fails in a run; its lanes go on beside the later steps in the first of two runs
ExportBound ==
  /\ Cardinality({p \in PoolIx : \E l \in Lane : lane'[p][l].pc \in {"failed", "unlisted"}}) <= 1
  /\ exports' > 1 => \A p \in PoolIx, l \in Lane :
       p < phase' => lane'[p][l].pc \in {"off", "unlisted", "ended", "failed"}

MCNext ==
  /\ UNCHANGED which
  /\ \/ which = "catalog" /\ Next /\ UNCHANGED <<pagesVars, routesVars, exportVars>>
     \/ which = "pages" /\ PagesNext /\ PagesBound /\ UNCHANGED <<vars, routesVars, exportVars>>
     \/ which = "routes" /\ RoutesNext /\ UNCHANGED <<vars, pagesVars, exportVars>>
     \/ which = "export" /\ ExportNext /\ ExportBound /\ UNCHANGED <<vars, pagesVars, routesVars>>

MCSpec == MCInit /\ [][MCNext]_allVars

\* Every part keeps to its types.
PartsTypeOK ==
  CASE which = "catalog" -> TypeOK
    [] which = "pages" -> PagesTypeOK
    [] which = "routes" -> RoutesTypeOK
    [] which = "export" -> ExportTypeOK

Symmetry == Permutations(Editor)

MCLayout == {<<<<1>>, <<2, 3>>>>, <<<<1, 2>>, <<3>>>>}
MCWatched == {<<"verses", 1, 2>>, <<"page", 1, 2>>}
MCValues == [
  language |-> {<<"kg">>, <<"kyrgyz">>},
  page |-> {<<"2">>},
  translations |-> {<<"131">>, <<"131", "ky">>},
  translation_ids |-> {<<"131", "ky">>},
  query |-> {<<"mercy">>},
  mushaf |-> {<<"4">>}]
MCLanguageCode == [kg |-> "ky", kyrgyz |-> "ky"]
\* a recording that has two addresses; two pages, of which one can be copied
MCPools == <<
  [step |-> "scripts", way |-> "session", files |-> <<"script 1">>],
  [step |-> "translations", way |-> "public", files |-> <<"translation 1">>],
  [step |-> "audio", way |-> "audio", files |-> <<"audio 1", "audio 1">>],
  [step |-> "mushafs", way |-> "copy", files |-> <<"page 1">>],
  [step |-> "mushafs", way |-> "binary", files |-> <<"page 1", "page 2">>]>>
MCFile == {"script 1", "translation 1", "audio 1", "page 1", "page 2"}
=============================================================================
