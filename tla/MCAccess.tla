------------------------------ MODULE MCAccess ------------------------------
(* Access in one room with a few folders and shares. *)
EXTENDS Access, TLC

Symmetry == Permutations(Ids \ {Root})
=============================================================================
