----------------------------- MODULE MCAccounts -----------------------------
(* Small instances of Accounts for TLC. *)
EXTENDS Accounts, TLC

Symmetry == Permutations(User) \cup Permutations(Tenant) \cup Permutations(Invitation)
            \cup Permutations(Request)
=============================================================================
