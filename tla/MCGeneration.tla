---------------------------- MODULE MCGeneration ----------------------------
(* Four places on a map: two close together, one within reach of them, and
   one far from everything. *)
EXTENDS Generation

MCPlaces == {<<0, 0>>, <<0, 1>>, <<2, 1>>, <<4, 0>>}
MCDistances == {0, 3}

=============================================================================
