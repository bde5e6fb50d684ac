----------------------------- MODULE MCUploads -----------------------------
(* Uploads with a few versions of one file. *)
EXTENDS Uploads, TLC

Symmetry == Permutations(Vers) \cup Permutations(Good) \cup Permutations(Reqs)
=============================================================================
