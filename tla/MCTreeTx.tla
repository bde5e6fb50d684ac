------------------------------ MODULE MCTreeTx ------------------------------
(* TreeTx on a few folders and two requests. *)
EXTENDS TreeTx, TLC

Symmetry == Permutations(Ids \ {Root}) \cup Permutations(Reqs)
=============================================================================
