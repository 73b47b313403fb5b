----------------------------- MODULE MCDocuments ----------------------------
(* Small instances of DocumentPipeline for TLC. *)
EXTENDS DocumentPipeline, TLC

\* UNLIMITED in packages/shared/src/plans.ts (a .cfg has no negative numbers).
Unlimited == -1

\* Files, worker slots and requests are interchangeable; document ids are not,
\* they carry the order of creation.
Symmetry == Permutations(File) \cup Permutations(Worker) \cup Permutations(Request)
=============================================================================
