--------------------------- MODULE MCUploadQueue ---------------------------
(* UploadQueue with a few files and two slots.  Tasks are ordered by their *)
(* ids, so there is no symmetry among them.                                *)
EXTENDS UploadQueue
=============================================================================
