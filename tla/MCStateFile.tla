---------------------------- MODULE MCStateFile ----------------------------
(***************************************************************************)
(* The instance of StateFile that TLC checks: processes, writes and resets *)
(* are interchangeable, and none of the checked properties is a liveness   *)
(* property.                                                               *)
(***************************************************************************)
EXTENDS StateFile, TLC

Symmetry == Permutations(Procs) \cup Permutations(Writes) \cup Permutations(Resets)
=============================================================================
