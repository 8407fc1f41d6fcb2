---------------------------- MODULE MCRingQueue ----------------------------
(***************************************************************************)
(* Two threads that both put and take, on a ring of three slots: each may  *)
(* be passed by whole laps of the other.                                   *)
(***************************************************************************)
EXTENDS RingQueue

CONSTANTS t1, t2, a, b, none

MCThreads == {t1, t2}
MCData == {a, b}
MCMayCall == [t \in MCThreads |-> {"enqueue_nb", "dequeue_nb"}]
=============================================================================
