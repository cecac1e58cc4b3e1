------------------------------ MODULE MCSearch ------------------------------
(* Small instances of Search. *)
EXTENDS Search

CONSTANTS l1, q1, q2
=============================================================================
