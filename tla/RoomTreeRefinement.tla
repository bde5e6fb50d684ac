------------------------- MODULE RoomTreeRefinement -------------------------
(***************************************************************************)
(* The node table as a FolderTree: the parent pointers, the types and the  *)
(* tombstones, without the paths.                                          *)
(***************************************************************************)
EXTENDS RoomTree

place == [n \in DOMAIN node |-> node[n].parentId]
file  == {n \in DOMAIN node : node[n].type = "FILE"}
gone  == {n \in DOMAIN node : node[n].deleted}

Abstract == INSTANCE FolderTree WITH Items <- Ids, Top <- NoParent

(* The paths are an encoding of the parent pointers and of nothing else:   *)
(* every handler does to the table what the pointer-only FolderTree does.  *)
(* A move refuses exactly the destinations in the moved subtree, a delete  *)
(* takes exactly what lies under the node, and although create and move    *)
(* check one tombstone only, what they add is visible.                     *)
ImplementsFolderTree == Abstract!Spec

(* The LIKE pattern of a node matches the rows that lie under it by their  *)
(* parent pointers, tombstoned ones included.                              *)
PatternMatchesSubtree == \A n \in DOMAIN node : Beneath(n) = Abstract!Under(n)
=============================================================================
