---------------------------- MODULE MCFolderView ----------------------------
(* FolderView with three rows over pages of one.                            *)
EXTENDS FolderView, TLC

Symmetry == Permutations(Muts)
=============================================================================
