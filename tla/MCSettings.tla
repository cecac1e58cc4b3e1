------------------------------ MODULE MCSettings ------------------------------
(* Start-up and theme, the instance TLC checks. *)
EXTENDS Settings
=============================================================================
