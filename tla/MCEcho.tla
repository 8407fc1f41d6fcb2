------------------------------- MODULE MCEcho -------------------------------
(* A small instance of Echo for TLC. *)
EXTENDS Echo, TLC

CONSTANTS c1, c2
=============================================================================
