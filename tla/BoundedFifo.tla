---------------------------- MODULE BoundedFifo ----------------------------
(***************************************************************************)
(* What ds_queue.h promises of a pointer queue shared by threads: each     *)
(* call takes effect at one instant on a FIFO sequence of at most Capacity *)
(* pointers.  A blocking call takes effect only when it can succeed, a     *)
(* _nb call may be refused, a uniq call may find its pointer queued        *)
(* already.  Locks, ring indices, counters and condition variables are     *)
(* left to Queue, which is shown to implement this specification.          *)
(***************************************************************************)
EXTENDS Naturals, Sequences

CONSTANTS
    Threads,    \* the threads sharing the queue
    Data,       \* the pointers they store
    NoData,     \* no pointer
    Capacity    \* the most pointers the queue holds

VARIABLES
    items,      \* the pointers queued, oldest first
    req,        \* req[t]: the call thread t is inside of
    res         \* res[t]: what the last call of t returned

fifoVars == <<items, req, res>>

PutOps  == {"enqueue", "enqueue_nb", "enqueue_uniq_nb"}
TakeOps == {"dequeue", "dequeue_nb"}
TryOps  == {"enqueue_nb", "enqueue_uniq_nb", "dequeue_nb"}

Requests == [op : PutOps, data : Data] \cup [op : TakeOps, data : {NoData}]
NoReq    == [op |-> "none", data |-> NoData]
Result(code, data) == [code |-> code, data |-> data]
NoRes    == Result("none", NoData)

-----------------------------------------------------------------------------

Init ==
    /\ items = <<>>
    /\ req = [t \in Threads |-> NoReq]
    /\ res = [t \in Threads |-> NoRes]

(* Thread t calls an operation of the queue. *)
Invoke(t) ==
    /\ req[t] = NoReq
    /\ \E r \in Requests : req' = [req EXCEPT ![t] = r]
    /\ res' = [res EXCEPT ![t] = NoRes]
    /\ UNCHANGED items

Return(t, result) ==
    /\ req' = [req EXCEPT ![t] = NoReq]
    /\ res' = [res EXCEPT ![t] = result]

(* The pointer of t becomes the newest of the queue. *)
Put(t) ==
    /\ req[t].op \in PutOps
    /\ Len(items) < Capacity
    /\ items' = Append(items, req[t].data)
    /\ Return(t, Result("ok", NoData))

(* A uniq enqueue is accepted without effect: its pointer is queued. *)
AlreadyThere(t) ==
    /\ req[t].op = "enqueue_uniq_nb"
    /\ \E k \in 1 .. Len(items) : items[k] = req[t].data
    /\ UNCHANGED items
    /\ Return(t, Result("ok", NoData))

(* The oldest pointer leaves the queue and is handed to t. *)
Take(t) ==
    /\ req[t].op \in TakeOps
    /\ Len(items) > 0
    /\ items' = Tail(items)
    /\ Return(t, Result("ok", Head(items)))

(* A _nb call finds the queue full, or empty. *)
Refuse(t) ==
    /\ req[t].op \in TryOps
    /\ Len(items) = (IF req[t].op \in PutOps THEN Capacity ELSE 0)
    /\ UNCHANGED items
    /\ Return(t, Result("refused", NoData))

(* Thread t is cancelled inside a blocking call, which has no effect. *)
Abandon(t) ==
    /\ req[t].op \in {"enqueue", "dequeue"}
    /\ req' = [req EXCEPT ![t] = NoReq]
    /\ UNCHANGED <<items, res>>

Next ==
    \E t \in Threads :
        Invoke(t) \/ Put(t) \/ AlreadyThere(t) \/ Take(t) \/ Refuse(t) \/ Abandon(t)

Spec == Init /\ [][Next]_fifoVars
=============================================================================
