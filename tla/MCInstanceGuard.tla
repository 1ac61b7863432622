-------------------------- MODULE MCInstanceGuard ---------------------------
(* The instance of InstanceGuard that TLC checks. *)
EXTENDS InstanceGuard, TLC

(* Launches are interchangeable, and no run checks liveness. *)
LaunchSymmetry == Permutations(Procs)
=============================================================================
