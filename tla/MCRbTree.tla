------------------------------ MODULE MCRbTree ------------------------------
(* A small instance of RbTree for TLC. *)
EXTENDS RbTree, TLC

CONSTANTS a, b, c, d, e, f

MCNodes == {a, b, c, d, e, f}
(* Timers around the wrap of a key of four bits, some due together. *)
MCKeyOf == a :> 13 @@ b :> 14 @@ c :> 14 @@ d :> 15 @@ e :> 0 @@ f :> 0
=============================================================================
