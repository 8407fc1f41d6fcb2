----------------------------- MODULE RingQueue -----------------------------
(***************************************************************************)
(* ds_queue.c: the queue without a mutex.  A producer reserves a slot by a *)
(* compare-and-swap of windex, writes it, and publishes it by one of       *)
(* max_rindex, in the order the slots were reserved; a consumer reads a    *)
(* slot first and takes it by a compare-and-swap of rindex.                *)
(*                                                                         *)
(* Every read and every compare-and-swap of a shared index is a step.      *)
(* The indices are kept modulo Max, so a thread that is passed by whole    *)
(* laps between its read and its compare-and-swap takes an old index for   *)
(* the present one, and the queue then loses or repeats what it holds.     *)
(* Nothing in the code prevents it, and it does happen here; the history   *)
(* variable aba remembers that it has, and no guard reads it.              *)
(***************************************************************************)
EXTENDS Integers, Sequences, FiniteSets

CONSTANTS
    Threads,    \* the threads sharing the queue
    Data,       \* the pointers they store
    NoData,     \* no pointer: a slot never written
    Max,        \* q->max: one slot more than the queue can hold
    MayCall     \* MayCall[t]: the operations thread t calls

ASSUME RingAssumption == Max \in Nat /\ Max > 1 /\ NoData \notin Data
(* Nobody waits for a place or a pointer: ds_queue.c has no other calls.   *)
ASSUME CallAssumption == MayCall \in [Threads -> SUBSET {"enqueue_nb", "dequeue_nb"}]

VARIABLES
    windex, rindex, max_rindex, bucket,
    req, res,   \* the call a thread is inside of, and what its last returned
    pc,
    w, r,       \* the local variables windex and rindex
    p,          \* *p of queue_dequeue_nb
    moved,      \* moved[t]: another has moved the index t works on since t read it
    aba         \* a swap has taken an index that had moved for the one its thread read

shared == <<windex, rindex, max_rindex, bucket>>
locals == <<w, r, p>>
history == <<moved, aba>>
vars == <<shared, req, res, pc, locals, history>>

Step(i) == (i + 1) % Max

(* The pointers between two indices, and those published.                  *)
Distance(from, to) == (to - from) % Max
Published == [k \in 1 .. Distance(rindex, max_rindex) |-> bucket[(rindex + k - 1) % Max]]

Fifo == INSTANCE BoundedFifo WITH items <- Published, Capacity <- Max - 1

Init ==
    /\ windex = 0 /\ rindex = 0 /\ max_rindex = 0
    /\ bucket = [i \in 0 .. Max - 1 |-> NoData]
    /\ req = [t \in Threads |-> Fifo!NoReq] /\ res = [t \in Threads |-> Fifo!NoRes]
    /\ pc = [t \in Threads |-> "idle"]
    /\ w = [t \in Threads |-> 0] /\ r = [t \in Threads |-> 0]
    /\ p = [t \in Threads |-> NoData]
    /\ moved = [t \in Threads |-> FALSE] /\ aba = FALSE

Go(t, label) == pc' = [pc EXCEPT ![t] = label]

Return(t, result) ==
    /\ Go(t, "idle")
    /\ req' = [req EXCEPT ![t] = Fifo!NoReq]
    /\ res' = [res EXCEPT ![t] = result]
    /\ w' = [w EXCEPT ![t] = 0] /\ r' = [r EXCEPT ![t] = 0]
    /\ p' = [p EXCEPT ![t] = NoData]
Forget(t) == moved' = [moved EXCEPT ![t] = FALSE] /\ UNCHANGED aba
Stay == UNCHANGED <<req, res, locals>>

Call(t) ==
    /\ pc[t] = "idle"
    /\ \E q \in Fifo!Requests :
        /\ q.op \in MayCall[t]
        /\ req' = [req EXCEPT ![t] = q]
        /\ Go(t, IF q.op = "enqueue_nb" THEN "read_w" ELSE "read_r")
    /\ res' = [res EXCEPT ![t] = Fifo!NoRes]
    /\ UNCHANGED <<shared, locals, history>>

(* The threads between a read of windex, or of rindex, and the swap of it. *)
Writers == {t \in Threads : pc[t] \in {"check_full", "swap_w"}}
Readers == {t \in Threads : pc[t] \in {"check_empty", "copy", "swap_r"}}

(* Thread t moves the index that the threads of others have read.          *)
Moved(t, others) ==
    /\ moved' = [u \in Threads |-> u # t /\ (moved[u] \/ u \in others)]
    /\ aba' = (aba \/ moved[t])

-----------------------------------------------------------------------------
(* queue_enqueue_nb                                                        *)

ReadWindex(t) ==
    /\ pc[t] = "read_w"
    /\ w' = [w EXCEPT ![t] = windex]
    /\ Go(t, "check_full")
    /\ UNCHANGED <<shared, req, res, r, p, history>>

CheckFull(t) ==
    /\ pc[t] = "check_full"
    /\ IF Step(w[t]) = rindex
         THEN Return(t, Fifo!Result("refused", NoData)) /\ Forget(t)
         ELSE Go(t, "swap_w") /\ Stay /\ UNCHANGED history
    /\ UNCHANGED shared

(* A swap that fails starts the loop again, from the read of the index;    *)
(* with the read before the loop, it would fail for ever.                  *)
SwapWindex_Bug(t) ==
    /\ pc[t] = "swap_w"
    /\ IF windex = w[t]
         THEN Moved(t, Writers) /\ windex' = Step(w[t]) /\ Go(t, "write")
         ELSE Go(t, "check_full") /\ Forget(t) /\ UNCHANGED windex
    /\ Stay
    /\ UNCHANGED <<rindex, max_rindex, bucket>>
SwapWindex(t) ==
    /\ pc[t] = "swap_w"
    /\ IF windex = w[t]
         THEN Moved(t, Writers) /\ windex' = Step(w[t]) /\ Go(t, "write")
         ELSE Go(t, "read_w") /\ Forget(t) /\ UNCHANGED windex
    /\ Stay
    /\ UNCHANGED <<rindex, max_rindex, bucket>>

WriteSlot(t) ==
    /\ pc[t] = "write"
    /\ bucket' = [bucket EXCEPT ![w[t]] = req[t].data]
    /\ Go(t, "publish")
    /\ UNCHANGED <<windex, rindex, max_rindex, req, res, locals, history>>

(* The spin on max_rindex ends when every slot before is published.  With  *)
(* an increment in its place nobody waits.                                 *)
PublishSlot_Any_Bug(t) == max_rindex' = Step(max_rindex)
PublishSlot(t) == max_rindex = w[t] /\ max_rindex' = Step(w[t])

Publish(t) ==
    /\ pc[t] = "publish"
    /\ PublishSlot(t)
    /\ Return(t, Fifo!Result("ok", NoData))
    /\ UNCHANGED <<windex, rindex, bucket, history>>

-----------------------------------------------------------------------------
(* queue_dequeue_nb                                                        *)

ReadRindex(t) ==
    /\ pc[t] = "read_r"
    /\ r' = [r EXCEPT ![t] = rindex]
    /\ Go(t, "check_empty")
    /\ UNCHANGED <<shared, req, res, w, p, history>>

CheckEmpty(t) ==
    /\ pc[t] = "check_empty"
    /\ IF r[t] = max_rindex % Max
         THEN Return(t, Fifo!Result("refused", NoData)) /\ Forget(t)
         ELSE Go(t, "copy") /\ Stay /\ UNCHANGED history
    /\ UNCHANGED shared

CopySlot(t) ==
    /\ pc[t] = "copy"
    /\ p' = [p EXCEPT ![t] = bucket[r[t]]]
    /\ Go(t, "swap_r")
    /\ UNCHANGED <<shared, req, res, w, r, history>>

SwapRindex(t) ==
    /\ pc[t] = "swap_r"
    /\ IF rindex = r[t]
         THEN /\ Moved(t, Readers)
              /\ rindex' = Step(r[t])
              /\ Return(t, Fifo!Result("ok", p[t]))
         ELSE Go(t, "read_r") /\ Forget(t) /\ Stay /\ UNCHANGED rindex
    /\ UNCHANGED <<windex, max_rindex, bucket>>

Run(t) ==
    \/ ReadWindex(t) \/ CheckFull(t) \/ SwapWindex(t) \/ WriteSlot(t) \/ Publish(t)
    \/ ReadRindex(t) \/ CheckEmpty(t) \/ CopySlot(t) \/ SwapRindex(t)

Next == \E t \in Threads : Call(t) \/ Run(t)

Spec == Init /\ [][Next]_vars

(* sched_yield lets the thread a producer waits for run.                   *)
FairSpec == Spec /\ \A t \in Threads : WF_vars(Run(t))

-----------------------------------------------------------------------------
(* Until a swap takes an old index for the present one, a call that is not *)
(* refused takes effect at one instant on a FIFO queue of Max - 1          *)
(* pointers, as in BoundedFifo: no pointer is lost, handed out twice or    *)
(* out of turn, and none is handed out before it is written.  So whatever  *)
(* goes wrong in this queue begins with such a swap.  A refusal says less  *)
(* there than of the queue with a mutex: the two indices are read one      *)
(* after the other, so that a producer may find a queue full that is       *)
(* empty, and a consumer one empty that is full.                           *)
Refused(t) ==
    /\ req[t].op \in Fifo!TryOps
    /\ UNCHANGED Published
    /\ Fifo!Return(t, Fifo!Result("refused", NoData))

ImplementsFifo ==
    /\ Fifo!Init
    /\ [][\/ \E t \in Threads : Fifo!Invoke(t) \/ Fifo!Put(t) \/ Fifo!Take(t) \/ Refused(t)
         \/ aba']_<<Published, req, res>>

(* However the threads meet, they are never all caught in their loops: as  *)
(* long as every thread runs, calls go on returning, unless a swap takes   *)
(* an old index for the present one: two producers may then hold the same  *)
(* slot, and the second waits for max_rindex to come back to it.           *)
Returns == \E t \in Threads : pc[t] # "idle" /\ pc'[t] = "idle"
CallsReturn ==
    \/ <>aba
    \/ []<>(\A t \in Threads : pc[t] = "idle")
    \/ []<><<Returns>>_vars
=============================================================================
