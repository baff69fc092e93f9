--------------------------- MODULE MCNotifications ---------------------------
(* Symmetry for the safety runs of Notifications. *)
EXTENDS Notifications, TLC

Symmetry == Permutations(Notes) \cup Permutations(Sockets)

=============================================================================
