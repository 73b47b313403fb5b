----------------------------- MODULE MCSessions -----------------------------
(* Small instances of Sessions for TLC. *)
EXTENDS Sessions, TLC

Symmetry == Permutations(Token) \cup Permutations(Link) \cup Permutations(Request)
            \cup Permutations(Secret)
=============================================================================
