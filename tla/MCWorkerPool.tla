---------------------------- MODULE MCWorkerPool ----------------------------
(***************************************************************************)
(* Symmetry of the calls for TLC, for runs without liveness.               *)
(***************************************************************************)
EXTENDS WorkerPool, TLC

Symmetry == Permutations(Calls)
=============================================================================
