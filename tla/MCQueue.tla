------------------------------ MODULE MCQueue ------------------------------
(* A small instance of Queue for TLC: w1 and w2 fetch like workers, w1 and *)
(* e enqueue.                                                              *)
EXTENDS Queue, TLC

CONSTANTS w1, w2, e, x, y

ThreeThreads == {w1, w2, e}
Calls == w1 :> {"dequeue", "enqueue"} @@ w2 :> {"dequeue", "dequeue_nb"}
         @@ e :> {"enqueue", "enqueue_nb", "enqueue_uniq_nb"}
TwoPointers == {x, y}
NothingBeyond == {NoData}
=============================================================================
