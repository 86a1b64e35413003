----------------------------- MODULE MCActivity -----------------------------
(***************************************************************************)
(* What becomes of a user's activity: what he reads and the goals it       *)
(* counts for, the events that are tracked, and the statistics of his      *)
(* reading.  The statistics have tables of their own in these models, so   *)
(* that none reads the state of another and a behaviour here is one of one *)
(* of them.                                                                *)
(***************************************************************************)
EXTENDS ReadingGoals, AnalyticsBuffer, ReadingStats, TLC

VARIABLE which  \* the part that is being checked

allVars == <<goalVars, vars, statVars, which>>

\* the other parts stay in one of their initial states
MCInit ==
  /\ which \in {"goals", "analytics", "statistics"}
  /\ GoalsInit /\ Init /\ StatsInit
  /\ which # "statistics" => ahead = 0

\* no more goals are being created than there are identifiers left
GoalsBound ==
  Cardinality({h \in Handler : handler'[h].pc \in {"readOpenEnded", "create"}})
    <= Cardinality({g \in Goal : ~goal'[g].exists})

MCNext ==
  /\ UNCHANGED which
  /\ \/ which = "goals" /\ GoalsNext /\ GoalsBound /\ UNCHANGED <<vars, statVars>>
     \/ which = "analytics" /\ Next /\ UNCHANGED <<goalVars, statVars>>
     \/ which = "statistics" /\ StatsNext /\ UNCHANGED <<goalVars, vars>>

MCSpec == MCInit /\ [][MCNext]_allVars

\* Every part keeps to its types.
PartsTypeOK == GoalsTypeOK /\ TypeOK /\ StatsTypeOK

\* Two of one set change places together with two of another: only one of the parts is moving,
\* and what is at rest is the same for both.
Together(S, T) ==
  {p \in Permutations(S \union T) :
     /\ \A x \in S : p[x] \in S
     /\ (\A x \in S \union T : p[x] = x) \/ (\A x \in S \union T : p[x] # x)}

Symmetry == Together(Worker, Handler) \union Together(Ayah, Goal)
=============================================================================
