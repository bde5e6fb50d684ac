----------------------------- MODULE MCRoomTree -----------------------------
(* RoomTree, and its mapping to FolderTree, on a handful of ids. *)
EXTENDS RoomTreeRefinement, TLC

Symmetry == Permutations(Ids) \cup Permutations(Names)
=============================================================================
