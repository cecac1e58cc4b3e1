------------------------------ MODULE MCContent ------------------------------
(* Small instances of Content. *)
EXTENDS Content

CONSTANTS l1
=============================================================================
