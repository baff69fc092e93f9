----------------------------- MODULE MCPayments -----------------------------
(* Symmetry for the runs of Payments that check safety only: payments, rows
   and workers are told apart by nothing but their names. *)
EXTENDS Payments, TLC

Symmetry == Permutations(Payments) \cup Permutations(SubIds) \cup Permutations(Workers)

=============================================================================
