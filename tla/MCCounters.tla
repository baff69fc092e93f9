----------------------------- MODULE MCCounters -----------------------------
(* Symmetry for the run of Counters. *)
EXTENDS Counters, TLC

Symmetry == Permutations(Keys) \cup Permutations(Workers)

=============================================================================
