------------------------------ MODULE MCScreens -----------------------------
(* A small instance of Screens for TLC. *)
EXTENDS Screens

CONSTANTS i1, i2

Rank(v) == IF v = None THEN 0 ELSE CHOOSE k \in 1 .. 3 : Statuses[k] = v

\* Two documents that trade places behave in the same way.
MCInit == Init /\ (screen = "documents" => Rank(stored[i1]) <= Rank(stored[i2]))

MCSpec == MCInit /\ [][Next]_vars /\ Fairness
=============================================================================
