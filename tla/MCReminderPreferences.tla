----------------------- MODULE MCReminderPreferences -----------------------
(* ReminderPreferences on a small set of interchangeable handlers. *)
EXTENDS ReminderPreferences, TLC

Symmetry == Permutations(Actor)
============================================================================
