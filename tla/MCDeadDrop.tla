----------------------------- MODULE MCDeadDrop -----------------------------
(* The dead drop for TLC; all constants are given in the configuration. *)
EXTENDS DeadDrop
=============================================================================
