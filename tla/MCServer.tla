------------------------------ MODULE MCServer ------------------------------
(* A small instance of Server for TLC. *)
EXTENDS Server, TLC

CONSTANTS w1, w2, l1, i1
=============================================================================
