-------------------------- MODULE MCWorkerHeartbeat --------------------------
(* Instances of WorkerHeartbeat for TLC. *)
EXTENDS WorkerHeartbeat, TLC

CONSTANTS p1, p2

Symmetry == Permutations({p1, p2})
=============================================================================
