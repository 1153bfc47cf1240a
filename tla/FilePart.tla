------------------------------ MODULE FilePart ------------------------------
(***************************************************************************)
(* FileIO as a part of a larger specification, with names of its own for   *)
(* what another part has too.                                              *)
(***************************************************************************)
EXTENDS Naturals, FiniteSets

CONSTANTS Readers, Lines, MaxFiles

VARIABLES fp, position, closed, f_task, lock, job, file, line, got, dropped

Reading == INSTANCE FileIO WITH Tasks <- Readers, task <- f_task

\* There are finitely many tasks that read.
ASSUME FileAssumption == IsFiniteSet(Readers) /\ Lines \in Nat

fileVars == <<fp, position, closed, f_task, lock, job, file, line, got, dropped>>

\* The lines of a file arrive in their order, each once (io.py:148-155, 169-174).
LinesInOrder == Reading!LinesInOrder
=============================================================================
