------------------------ MODULE MCMaintenanceLease ------------------------
(* Bounded instance of MaintenanceLease: processes are interchangeable. *)
EXTENDS MaintenanceLease, TLC

Symmetry == Permutations(Procs) \cup Permutations(Handles)

=============================================================================
