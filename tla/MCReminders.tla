---------------------------- MODULE MCReminders -----------------------------
(* Small instances of Reminders for TLC. *)
EXTENDS Reminders, TLC

\* Overdue, and not yet due.
Dates == {-1, 1}

Symmetry == Permutations(Request)
=============================================================================
