---------------------------- MODULE MCDownloads ----------------------------
(* Downloads beside the uploads of one file and the sweep. *)
EXTENDS Downloads, TLC
=============================================================================
