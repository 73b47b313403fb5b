---------------------------- MODULE MCVehicleScans --------------------------
(* Small instances of VehicleScans for TLC. *)
EXTENDS VehicleScans, TLC

\* UNLIMITED in packages/shared/src/plans.ts (a .cfg has no negative numbers).
Unlimited == -1

\* Scans, worker slots and requests are interchangeable.
Symmetry == Permutations(Scan) \cup Permutations(Worker) \cup Permutations(Request)
=============================================================================
