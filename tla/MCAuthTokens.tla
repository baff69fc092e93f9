---------------------------- MODULE MCAuthTokens ----------------------------
(* Symmetry for the runs of AuthTokens. *)
EXTENDS AuthTokens, TLC

Symmetry == Permutations(Tokens) \cup Permutations(Workers)

=============================================================================
