------------------------------ MODULE MCLList ------------------------------
(* A small instance of LList for TLC. *)
EXTENDS LList, TLC

CONSTANTS a, b, c, x, y

MCThreads == {a, b, c}
MCData == {x, y}
MCCalls == a :> {"append", "get_head_nb", "delete"}
           @@ b :> {"fetch_head", "append_nb", "fetch_match"}
           @@ c :> {"get_head", "fetch_head_nb"}

(* One comparison takes the first node, the other may pass nodes by. *)
MCAccepts == x :> {x, y} @@ y :> {y}
=============================================================================
