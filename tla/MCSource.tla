------------------------------ MODULE MCSource ------------------------------
(***************************************************************************)
(* Source for TLC.  Partitions are interchangeable: no step and no safety  *)
(* property names one.                                                     *)
(***************************************************************************)
EXTENDS Source, TLC

Symmetry == Permutations(Partitions)

\* A max_retries that Validate accepts and NewSource keeps: Retry's loop never runs.
NoAttempts == -1
=============================================================================
