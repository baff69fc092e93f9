------------------------------ MODULE MCRoutes ------------------------------
(* Values for the run of Routes. *)
EXTENDS Routes, TLC

\* A change of one field, and a publication that also sets the price.
MCChanges ==
    {[NoChange EXCEPT !.status = s] : s \in RouteStatus}
        \cup {[NoChange EXCEPT !.paid = p] : p \in {"yes", "no"}}
        \cup {[NoChange EXCEPT !.photos = "author"],
              [NoChange EXCEPT !.status = "published", !.paid = "yes"]}

Symmetry == Permutations(Workers)

=============================================================================
