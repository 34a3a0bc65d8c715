-------------------------- MODULE MCEvidenceStore --------------------------
(* Three runs on one file; two of them may save at the same time. *)
EXTENDS EvidenceStore, TLC

RunSymmetry == Permutations(Runs)
=============================================================================
