------------------------------- MODULE Queue -------------------------------
(***************************************************************************)
(* The pointer queue of ds_queue2.c, the one the Makefile builds: a ring   *)
(* of Max pointers under one mutex, with two condition variables.          *)
(* cond_eq holds the threads that found the ring full in queue_enqueue,    *)
(* cond_dq those that found it empty in queue_dequeue.  The run queue and  *)
(* the terminated queue of the dungeon are two of these.                   *)
(*                                                                         *)
(* A critical section is one action between Lock and the unlock at its     *)
(* end.  pthread_cond_wait is three: it gives the mutex up (Wait), is      *)
(* signalled, woken for no reason or cancelled, and takes the mutex again. *)
(***************************************************************************)
EXTENDS Naturals, Sequences, FiniteSets

CONSTANTS
    Threads,    \* the threads that call the queue
    Data,       \* the pointers they store
    NoData,     \* what a slot never written holds
    NoThread,   \* the owner of a free mutex
    Max,        \* q->max
    CountMod,   \* en_count and de_count wrap here: 2^32 in the code
    MayCall,    \* MayCall[t]: the operations thread t calls
    Unique,     \* the pointers stored by queue_enqueue_uniq_nb only, as imps are
    Cancelable, \* the threads pthread_cancel may hit
    Beyond      \* what the word after bucket[max-1] may hold

ASSUME ThreadsAssumption == IsFiniteSet(Threads)
ASSUME MaxAssumption == Max \in Nat \ {0}
ASSUME CountAssumption == CountMod \in Nat /\ Max < CountMod
ASSUME NamesAssumption == NoData \notin Data /\ NoThread \notin Threads
ASSUME BeyondAssumption == Beyond \subseteq Data \cup {NoData}

VARIABLES
    bucket,     \* bucket[0 .. Max-1], and the word after them at index Max
    rindex, windex, nr, en_count, de_count,
    mut,        \* the thread that holds q->mut
    pc,         \* where each thread is
    req,        \* req[t]: the call t is inside of
    res         \* res[t]: what the last call of t returned

ring == <<bucket, rindex, windex, nr, en_count, de_count>>
vars == <<ring, mut, pc, req, res>>

(* The FIFO sequence the ring stands for. *)
Slot(k) == IF rindex + k - 1 < Max THEN rindex + k - 1 ELSE rindex + k - 1 - Max
Contents == [k \in 1 .. nr |-> bucket[Slot(k)]]

Fifo == INSTANCE BoundedFifo WITH items <- Contents, Capacity <- Max

PutOps   == Fifo!PutOps
TakeOps  == Fifo!TakeOps
TryOps   == Fifo!TryOps

ASSUME CallAssumption == MayCall \in [Threads -> SUBSET (PutOps \cup TakeOps)]

-----------------------------------------------------------------------------
(* Definitions whose names end in _Bug are what a slip in the code would   *)
(* give; each stands before the definition it varies and is part of no     *)
(* specification.  They show that a property can fail.                     *)

Init ==
    /\ \E b \in Beyond : bucket = [i \in 0 .. Max |-> IF i = Max THEN b ELSE NoData]
    /\ rindex = 0 /\ windex = 0 /\ nr = 0
    /\ en_count = 0 /\ de_count = 0
    /\ mut = NoThread
    /\ pc = [t \in Threads |-> "idle"]
    /\ req = [t \in Threads |-> Fifo!NoReq]
    /\ res = [t \in Threads |-> Fifo!NoRes]

next(n) == IF n + 1 >= Max THEN 0 ELSE n + 1
Count_Bug(c) == IF c + 1 = CountMod THEN c ELSE c + 1
Count(c) == IF c + 1 = CountMod THEN 0 ELSE c + 1

(* The threads that wait on cond_eq and on cond_dq. *)
Waiting(op) == {t \in Threads : pc[t] = "wait" /\ req[t].op = op}

(* The scan forgets the wrap, or trusts every slot of the ring.            *)
ScanNoWrap_Bug == rindex .. (windex - 1)
ScanAll_Bug == 0 .. (Max - 1)

(* What the scan of queue_enqueue_uniq_nb reads: from rindex up to windex, *)
(* and past the wrap up to and including bucket[max].                      *)
Scanned == IF rindex <= windex
             THEN rindex .. (windex - 1)
             ELSE (rindex .. Max) \cup (0 .. (windex - 1))
Found(t) == \E i \in Scanned : bucket[i] = req[t].data

(* Signal nobody, or only when the ring was empty or full before.          *)
SignalNobody_Bug(t, waiters, result) ==
    /\ pc' = [pc EXCEPT ![t] = "idle"]
    /\ mut' = NoThread
    /\ Fifo!Return(t, result)
SignalAtEdge_Bug(t, waiters, result) ==
    /\ \/ waiters = {} /\ pc' = [pc EXCEPT ![t] = "idle"]
       \/ nr \notin {0, Max} /\ pc' = [pc EXCEPT ![t] = "idle"]
       \/ /\ nr \in {0, Max}
          /\ \E w \in waiters : pc' = [pc EXCEPT ![t] = "idle", ![w] = "relock"]
    /\ mut' = NoThread
    /\ Fifo!Return(t, result)

(* pthread_cond_signal wakes one of the waiters, if there is one, and the  *)
(* caller t leaves its call: signal, unlock and return.                    *)
SignalAndReturn(t, waiters, result) ==
    /\ \/ waiters = {} /\ pc' = [pc EXCEPT ![t] = "idle"]
       \/ \E w \in waiters : pc' = [pc EXCEPT ![t] = "idle", ![w] = "relock"]
    /\ mut' = NoThread
    /\ Fifo!Return(t, result)

-----------------------------------------------------------------------------

Call(t) ==
    /\ pc[t] = "idle"
    /\ \E r \in Fifo!Requests :
        /\ r.op \in MayCall[t]
        /\ r.op \in PutOps /\ r.data \in Unique => r.op = "enqueue_uniq_nb"
        /\ req' = [req EXCEPT ![t] = r]
    /\ res' = [res EXCEPT ![t] = Fifo!NoRes]
    /\ pc' = [pc EXCEPT ![t] = "lock"]
    /\ UNCHANGED <<ring, mut>>

(* pthread_mutex_lock, and the lock pthread_cond_wait takes as it returns. *)
Lock(t) ==
    /\ pc[t] \in {"lock", "relock"}
    /\ mut = NoThread
    /\ mut' = t
    /\ pc' = [pc EXCEPT ![t] = "locked"]
    /\ UNCHANGED <<ring, req, res>>

Blocked(t) == IF req[t].op \in PutOps THEN nr >= Max ELSE nr <= 0

(* The while loops of queue_enqueue and queue_dequeue. *)
Wait(t) ==
    /\ pc[t] = "locked"
    /\ req[t].op \notin TryOps
    /\ Blocked(t)
    /\ mut' = NoThread
    /\ pc' = [pc EXCEPT ![t] = "wait"]
    /\ UNCHANGED <<ring, req, res>>

(* The early return of the _nb calls. *)
Refuse(t) ==
    /\ pc[t] = "locked"
    /\ req[t].op \in TryOps
    /\ Blocked(t)
    /\ mut' = NoThread
    /\ pc' = [pc EXCEPT ![t] = "idle"]
    /\ Fifo!Return(t, Fifo!Result("refused", NoData))
    /\ UNCHANGED ring

(* queue_enqueue, queue_enqueue_nb, queue_enqueue_uniq_nb store. *)
Enqueue(t) ==
    /\ pc[t] = "locked"
    /\ req[t].op \in PutOps
    /\ ~Blocked(t)
    /\ ~(req[t].op = "enqueue_uniq_nb" /\ Found(t))
    /\ bucket' = [bucket EXCEPT ![windex] = req[t].data]
    /\ windex' = next(windex)
    /\ nr' = nr + 1
    /\ en_count' = Count(en_count)
    /\ SignalAndReturn(t, Waiting("dequeue"), Fifo!Result("ok", NoData))
    /\ UNCHANGED <<rindex, de_count>>

(* The jump to "over" in queue_enqueue_uniq_nb. *)
EnqueuePresent(t) ==
    /\ pc[t] = "locked"
    /\ req[t].op = "enqueue_uniq_nb"
    /\ ~Blocked(t)
    /\ Found(t)
    /\ SignalAndReturn(t, Waiting("dequeue"), Fifo!Result("ok", NoData))
    /\ UNCHANGED ring

(* queue_dequeue and queue_dequeue_nb fetch. *)
Dequeue(t) ==
    /\ pc[t] = "locked"
    /\ req[t].op \in TakeOps
    /\ ~Blocked(t)
    /\ rindex' = next(rindex)
    /\ nr' = nr - 1
    /\ de_count' = Count(de_count)
    /\ SignalAndReturn(t, Waiting("enqueue"), Fifo!Result("ok", bucket[rindex]))
    /\ UNCHANGED <<bucket, windex, en_count>>

(* pthread_cond_wait may return without a signal. *)
SpuriousWakeup(t) ==
    /\ pc[t] = "wait"
    /\ pc' = [pc EXCEPT ![t] = "relock"]
    /\ UNCHANGED <<ring, mut, req, res>>

(* pthread_cancel: outside of the queue the thread just ends, asleep in    *)
(* pthread_cond_wait it takes the mutex back to run its cleanup handler.   *)
Cancel(t) ==
    /\ t \in Cancelable
    /\ \/ pc[t] = "idle" /\ pc' = [pc EXCEPT ![t] = "dead"]
       \/ pc[t] = "wait" /\ pc' = [pc EXCEPT ![t] = "unwind"]
    /\ req' = [req EXCEPT ![t] = Fifo!NoReq]
    /\ UNCHANGED <<ring, mut, res>>

Unwind(t) ==
    /\ pc[t] = "unwind"
    /\ mut = NoThread
    /\ mut' = t
    /\ pc' = [pc EXCEPT ![t] = "cleanup"]
    /\ UNCHANGED <<ring, req, res>>

cleanup_unlock_Bug(t) ==
    /\ pc[t] = "cleanup"
    /\ pc' = [pc EXCEPT ![t] = "dead"]
    /\ UNCHANGED <<ring, mut, req, res>>

cleanup_unlock(t) ==
    /\ pc[t] = "cleanup"
    /\ mut' = NoThread
    /\ pc' = [pc EXCEPT ![t] = "dead"]
    /\ UNCHANGED <<ring, req, res>>

Body(t) == Wait(t) \/ Refuse(t) \/ Enqueue(t) \/ EnqueuePresent(t) \/ Dequeue(t)

Next ==
    \E t \in Threads :
        \/ Call(t) \/ Lock(t) \/ Body(t)
        \/ SpuriousWakeup(t) \/ Cancel(t) \/ Unwind(t) \/ cleanup_unlock(t)

Spec == Init /\ [][Next]_vars

(* A thread runs on inside the queue, and a mutex a thread keeps asking    *)
(* for is handed to it in the end.  Nothing says that a thread calls the   *)
(* queue again, except thr_driver, which calls queue_dequeue in a loop.    *)
Fairness ==
    \A t \in Threads :
        /\ WF_vars(Body(t) \/ cleanup_unlock(t))
        /\ SF_vars(Lock(t)) /\ SF_vars(Unwind(t))
        /\ WF_vars("dequeue" \in MayCall[t] /\ Call(t))

FairSpec == Spec /\ Fairness

-----------------------------------------------------------------------------

TypeOK ==
    /\ bucket \in [0 .. Max -> Data \cup {NoData}]
    /\ rindex \in 0 .. (Max - 1) /\ windex \in 0 .. (Max - 1)
    /\ nr \in 0 .. Max
    /\ en_count \in 0 .. (CountMod - 1) /\ de_count \in 0 .. (CountMod - 1)
    /\ mut \in Threads \cup {NoThread}
    /\ pc \in [Threads -> {"idle", "lock", "locked", "wait", "relock",
                          "unwind", "cleanup", "dead"}]
    /\ req \in [Threads -> Fifo!Requests \cup {Fifo!NoReq}]
    /\ res \in [Threads -> [code : {"none", "ok", "refused"},
                            data : Data \cup {NoData}]]

(* A thread is between lock and unlock if and only if the mutex is its     *)
(* own.  Two threads are never inside together, and a thread cancelled in  *)
(* pthread_cond_wait does not die with the mutex locked, which is what     *)
(* pthread_cleanup_push(cleanup_unlock) is there for.                      *)
MutexInv == \A t \in Threads : pc[t] \in {"locked", "cleanup"} <=> mut = t

(* The three ways the code counts its pointers agree: windex is nr slots   *)
(* after rindex around the ring, and en_count is nr ahead of de_count      *)
(* although both wrap.  queue_info_json shows nr and both counters.        *)
RingInv ==
    /\ windex = (IF rindex + nr < Max THEN rindex + nr ELSE rindex + nr - Max)
    /\ en_count = (IF de_count + nr < CountMod THEN de_count + nr
                                             ELSE de_count + nr - CountMod)

(* The threads that will look at the ring again before they sleep. *)
Coming(op) == {t \in Threads : req[t].op = op /\ pc[t] \in {"relock", "locked"}}

(* No wake-up is lost: while a thread sleeps in queue_dequeue, at least as *)
(* many others are on their way to the ring as it holds pointers; and      *)
(* while a thread sleeps in queue_enqueue, as many as it has free slots.   *)
(* Calls that barge in between a signal and the relock, spurious wake-ups  *)
(* and cancelled sleepers must not break this.                             *)
NoLostWakeup ==
    /\ Waiting("dequeue") # {} => nr <= Cardinality(Coming("dequeue"))
    /\ Waiting("enqueue") # {} => Max - nr <= Cardinality(Coming("enqueue"))

(* The ring, its indices and counters, the lock and the condition          *)
(* variables implement the FIFO queue of BoundedFifo.                      *)
ImplementsFifo == Fifo!Spec

(* What only queue_enqueue_uniq_nb stores is never twice in the queue,     *)
(* whatever else is stored meanwhile: no imp has two entries of the run    *)
(* queue, for two workers to drive it from.                                *)
NoDuplicates ==
    \A j, k \in 1 .. nr :
        Contents[j] = Contents[k] /\ Contents[j] \in Unique => j = k

(* While a thread keeps dequeuing, every pointer queued is handed out.     *)
AllDelivered ==
    \A d \in Data :
        (\E k \in 1 .. nr : Contents[k] = d) ~> (\E t \in Threads : res[t].data = d)
=============================================================================
