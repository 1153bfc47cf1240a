---------------------------- MODULE MCAggregator ----------------------------
(***************************************************************************)
(* Symmetry of the calls for TLC.  It is sound for the runs without        *)
(* temporal properties in which every call may be cancelled.               *)
(***************************************************************************)
EXTENDS Aggregator, TLC

Symmetry == Permutations(Calls)
=============================================================================
