---------------------------- MODULE MCEntrypoint ----------------------------
(***************************************************************************)
(* Symmetry of the services and of the signals for TLC.                    *)
(***************************************************************************)
EXTENDS Entrypoint, TLC

Symmetry == Permutations(Initial) \cup Permutations(Interrupts)
=============================================================================
