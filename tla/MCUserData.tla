----------------------------- MODULE MCUserData -----------------------------
(***************************************************************************)
(* What a user keeps and is shown: his reminder switches, and the lists he *)
(* pages through.  Neither reads the state of the other, so that a         *)
(* behaviour here is one of one of them.                                   *)
(***************************************************************************)
EXTENDS ReminderPreferences, UserLists, TLC

VARIABLE which  \* the part that is being checked

allVars == <<prefVars, listVars, which>>

\* the other part stays in one of its initial states
MCInit ==
  /\ which \in {"preferences", "lists"}
  /\ PrefInit /\ ListsInit
  /\ which # "preferences" => \A u \in User : ~settings[u].exists /\ ~pref[u].exists /\ account[u].writeToPm
  /\ which # "lists" => list = "bookmarks"

MCNext ==
  /\ UNCHANGED which
  /\ \/ which = "preferences" /\ PrefNext /\ UNCHANGED listVars
     \/ which = "lists" /\ ListsNext /\ UNCHANGED prefVars

MCSpec == MCInit /\ [][MCNext]_allVars

\* Every part keeps to its types.
PartsTypeOK == PrefTypeOK /\ ListsTypeOK

\* two chapters, of one verse and of two
MCVersesIn == <<1, 2>>
MCFilter == {NoFilter, [NoFilter EXCEPT !.chapter = 2], [NoFilter EXCEPT !.unreadOnly = TRUE],
             [NoFilter EXCEPT !.from = 1]}

Symmetry == Permutations(Actor) \union Permutations(Editor)
=============================================================================
