--------------------------- MODULE SessionLineage ---------------------------
(***************************************************************************)
(* What a login session promises, told without tokens or requests: it is   *)
(* opened once, moves through generations one at a time while it is live,  *)
(* and once dead stays dead and at the generation it died in.              *)
(***************************************************************************)
EXTENDS Integers

CONSTANT Session  \* session identifiers

VARIABLES
  phase,  \* has the session been opened, and has it been ended?
  gen     \* how often its refresh token has been exchanged for a later one

lineage == <<phase, gen>>

LineageInit ==
  /\ phase = [s \in Session |-> "absent"]
  /\ gen = [s \in Session |-> 0]

Open(s) ==
  /\ phase[s] = "absent"
  /\ phase' = [phase EXCEPT ![s] = "live"]
  /\ UNCHANGED gen

Advance(s) ==
  /\ phase[s] = "live"
  /\ gen' = [gen EXCEPT ![s] = @ + 1]
  /\ UNCHANGED phase

\* a ban ends any number of sessions at once
End(S) ==
  /\ \A s \in S : phase[s] = "live"
  /\ phase' = [s \in Session |-> IF s \in S THEN "dead" ELSE phase[s]]
  /\ UNCHANGED gen

LineageNext ==
  \/ \E s \in Session : Open(s) \/ Advance(s)
  \/ \E S \in SUBSET Session : End(S)

LineageSpec == LineageInit /\ [][LineageNext]_lineage
============================================================================
