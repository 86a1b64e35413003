---------------------------- MODULE MCQuranContent ----------------------------
(***************************************************************************)
(* What the Quran module fetches and how long it keeps it: requests with   *)
(* their tokens, and verses with what is merged into them.  Neither reads  *)
(* the state of the other, so that a behaviour here is one of one of them. *)
(***************************************************************************)
EXTENDS QuranClient, VerseContent

VARIABLE which  \* the part that is being checked

allVars == <<clientVars, contentVars, which>>

\* the other part stays in one of its initial states
MCInit ==
  /\ which \in {"client", "content"}
  /\ ClientInit /\ ContentInit
  /\ which # "client" => issued = 0
  /\ which # "content" => inUse

MCNext ==
  /\ UNCHANGED which
  /\ \/ which = "client" /\ ClientNext /\ UNCHANGED contentVars
     \/ which = "content" /\ ContentNext /\ UNCHANGED clientVars

\* the fairness of ClientSpec and of ContentSpec, each while its part is checked
MCFairness ==
  /\ \A r \in Request : WF_clientVars(which = "client" /\ RequestStep(r))
  /\ \A p \in Process : WF_clientVars(which = "client" /\ FetchStep(p))
  /\ \A k \in Entry : WF_contentVars(which = "content" /\ LoadStep(k))
  /\ WF_contentVars(which = "content" /\ MergeStep)

MCSpec == MCInit /\ [][MCNext]_allVars /\ MCFairness

\* Every part keeps to its types.
PartsTypeOK == ClientTypeOK /\ ContentTypeOK

MCFresh == [verses |-> 2, rows |-> 1, merged |-> 2]
=============================================================================
