------------------------- MODULE MCReminderDelivery -------------------------
(* ReminderDelivery on small sets of workers and handlers. *)
EXTENDS ReminderDelivery, TLC

CONSTANTS HttpHandler

MCActor == Worker \union HttpHandler

\* workers are interchangeable, and so are handlers
Symmetry == Permutations(Worker) \union Permutations(HttpHandler)
============================================================================
