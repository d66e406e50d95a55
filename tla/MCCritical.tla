----------------------------- MODULE MCCritical -----------------------------
(* Small numbers of cores for critical().  Interchangeable, so the safety    *)
(* runs use them up to permutation.                                          *)
EXTENDS Critical, TLC

Symmetry == Permutations(Core)
============================================================================
