------------------------- MODULE MCServiceLifecycle -------------------------
(* The service lifecycle with two usernames, two people and two models. *)
EXTENDS ServiceLifecycle, TLC

Symmetry == Permutations(People) \cup Permutations(Models)
=============================================================================
