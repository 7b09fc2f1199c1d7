----------------------------- MODULE MCSstWriter -----------------------------
(* SstWriter on small instances. *)
EXTENDS SstWriterProps, TLC

CONSTANTS r1, r2

CohortSymmetry == Permutations(Cohorts)
=============================================================================
