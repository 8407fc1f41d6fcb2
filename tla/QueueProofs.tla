---------------------------- MODULE QueueProofs ----------------------------
(***************************************************************************)
(* Theorems about Queue, for every number of threads, every capacity Max   *)
(* and every counter width.                                                *)
(***************************************************************************)
EXTENDS Queue, SequenceTheorems, FiniteSetTheorems, TLAPS

USE DEF Fifo!PutOps, Fifo!TakeOps, Fifo!TryOps, PutOps, TakeOps, TryOps

(* A signalled waiter and the caller change pc within its type.            *)
LEMMA SignalType ==
    ASSUME TypeOK, NEW t \in Threads, NEW W \in SUBSET Threads, NEW r,
           SignalAndReturn(t, W, r),
           r \in [code : {"none", "ok", "refused"}, data : Data \cup {NoData}]
    PROVE  /\ pc' \in [Threads -> {"idle", "lock", "locked", "wait", "relock",
                                   "unwind", "cleanup", "dead"}]
           /\ mut' = NoThread
           /\ req' \in [Threads -> Fifo!Requests \cup {Fifo!NoReq}]
           /\ res' \in [Threads -> [code : {"none", "ok", "refused"},
                                    data : Data \cup {NoData}]]
    BY DEF TypeOK, SignalAndReturn, Fifo!Return

(* The indices and counters move within their ranges.                      *)
LEMMA StepRanges ==
    /\ \A i \in 0 .. (Max - 1) : next(i) \in 0 .. (Max - 1)
    /\ \A c \in 0 .. (CountMod - 1) : Count(c) \in 0 .. (CountMod - 1)
    BY MaxAssumption, CountAssumption DEF next, Count

LEMMA RequestFields ==
    ASSUME NEW r \in Fifo!Requests
    PROVE  /\ r.op \in PutOps \cup TakeOps
           /\ r.op \in PutOps => r.data \in Data
    BY DEF Fifo!Requests

LEMMA InitType == Init => TypeOK
    BY MaxAssumption, CountAssumption, BeyondAssumption
    DEF Init, TypeOK, Fifo!NoReq, Fifo!NoRes, Fifo!Result

(* Every step of Queue keeps every variable in its type.                   *)
LEMMA NextType == TypeOK /\ [Next]_vars => TypeOK'
<1> SUFFICES ASSUME TypeOK, [Next]_vars PROVE TypeOK'
    OBVIOUS
<1> USE MaxAssumption, CountAssumption
<1>1. CASE UNCHANGED vars
    BY <1>1 DEF vars, ring, TypeOK
<1>2. ASSUME NEW t \in Threads, Call(t) PROVE TypeOK'
    BY <1>2 DEF Call, TypeOK, ring, Fifo!NoRes, Fifo!Result
<1>3. ASSUME NEW t \in Threads, Lock(t) PROVE TypeOK'
    BY <1>3 DEF Lock, TypeOK, ring
<1>4. ASSUME NEW t \in Threads, Wait(t) PROVE TypeOK'
    BY <1>4 DEF Wait, TypeOK, ring
<1>5. ASSUME NEW t \in Threads, Refuse(t) PROVE TypeOK'
    BY <1>5 DEF Refuse, TypeOK, ring, Fifo!Return, Fifo!Result
<1>6. ASSUME NEW t \in Threads, Enqueue(t) PROVE TypeOK'
  <2>1. req[t].data \in Data
      BY <1>6, RequestFields DEF Enqueue, TypeOK, Fifo!NoReq
  <2>2. nr' \in 0 .. Max
      BY <1>6 DEF Enqueue, Blocked, TypeOK
  <2>3. bucket' \in [0 .. Max -> Data \cup {NoData}]
      BY <1>6, <2>1 DEF Enqueue, TypeOK
  <2>4. windex' \in 0 .. (Max - 1) /\ en_count' \in 0 .. (CountMod - 1)
      BY <1>6, StepRanges DEF Enqueue, TypeOK
  <2>5. Waiting("dequeue") \in SUBSET Threads
      BY DEF Waiting
  <2> QED BY <1>6, <2>2, <2>3, <2>4, <2>5, SignalType DEF Enqueue, TypeOK, Fifo!Result
<1>7. ASSUME NEW t \in Threads, EnqueuePresent(t) PROVE TypeOK'
  <2>1. Waiting("dequeue") \in SUBSET Threads
      BY DEF Waiting
  <2> QED BY <1>7, <2>1, SignalType DEF EnqueuePresent, TypeOK, Fifo!Result, ring
<1>8. ASSUME NEW t \in Threads, Dequeue(t) PROVE TypeOK'
  <2>1. nr' \in 0 .. Max
      BY <1>8 DEF Dequeue, Blocked, TypeOK
  <2>2. bucket[rindex] \in Data \cup {NoData}
      BY DEF TypeOK
  <2>3. rindex' \in 0 .. (Max - 1) /\ de_count' \in 0 .. (CountMod - 1)
      BY <1>8, StepRanges DEF Dequeue, TypeOK
  <2>4. Waiting("enqueue") \in SUBSET Threads
      BY DEF Waiting
  <2> QED BY <1>8, <2>1, <2>2, <2>3, <2>4, SignalType DEF Dequeue, TypeOK, Fifo!Result
<1>9. ASSUME NEW t \in Threads, SpuriousWakeup(t) PROVE TypeOK'
    BY <1>9 DEF SpuriousWakeup, TypeOK, ring
<1>10. ASSUME NEW t \in Threads, Cancel(t) PROVE TypeOK'
    BY <1>10 DEF Cancel, TypeOK, ring
<1>11. ASSUME NEW t \in Threads, Unwind(t) PROVE TypeOK'
    BY <1>11 DEF Unwind, TypeOK, ring
<1>12. ASSUME NEW t \in Threads, cleanup_unlock(t) PROVE TypeOK'
    BY <1>12 DEF cleanup_unlock, TypeOK, ring
<1> QED
    BY <1>1, <1>2, <1>3, <1>4, <1>5, <1>6, <1>7, <1>8, <1>9, <1>10, <1>11, <1>12
    DEF Next, Body

(* The queue's variables always have their types.                          *)
THEOREM TypeCorrect == Spec => []TypeOK
    BY InitType, NextType, PTL DEF Spec

-----------------------------------------------------------------------------

(* A thread has a call pending exactly while it is inside one, and only    *)
(* the blocking calls ever sleep.                                          *)
CallInv ==
    \A t \in Threads :
        /\ pc[t] \in {"idle", "unwind", "cleanup", "dead"} <=> req[t] = Fifo!NoReq
        /\ pc[t] \in {"wait", "relock"} => req[t].op \in {"enqueue", "dequeue"}

IInv == TypeOK /\ MutexInv /\ RingInv /\ CallInv

LEMMA InitIInv == Init => IInv
    BY InitType, MaxAssumption, CountAssumption, NamesAssumption
    DEF Init, IInv, MutexInv, RingInv, CallInv, Fifo!NoReq

(* A signal from the lock's owner t lets t go and wakes at most one other. *)
LEMMA SignalCalls ==
    ASSUME TypeOK, MutexInv, CallInv, NEW t \in Threads, pc[t] = "locked",
           NEW op, NEW r, SignalAndReturn(t, Waiting(op), r)
    PROVE  MutexInv' /\ CallInv'
<1>1. MutexInv'
    BY NamesAssumption DEF TypeOK, MutexInv, SignalAndReturn, Waiting
<1>2. CallInv'
    BY DEF TypeOK, CallInv, SignalAndReturn, Waiting, Fifo!Return
<1> QED BY <1>1, <1>2

(* The indices, the number of pointers and the two counters stay in step   *)
(* when a pointer is stored and when one is fetched.                       *)
LEMMA RingPut ==
    ASSUME TypeOK, RingInv, NEW t \in Threads, Enqueue(t)
    PROVE  RingInv'
    BY MaxAssumption, CountAssumption
    DEF TypeOK, RingInv, Enqueue, Blocked, next, Count

LEMMA RingTake ==
    ASSUME TypeOK, RingInv, NEW t \in Threads, Dequeue(t)
    PROVE  RingInv'
    BY MaxAssumption, CountAssumption
    DEF TypeOK, RingInv, Dequeue, Blocked, next, Count

LEMMA NextIInv == IInv /\ [Next]_vars => IInv'
<1> SUFFICES ASSUME IInv, [Next]_vars PROVE MutexInv' /\ RingInv' /\ CallInv'
    BY NextType DEF IInv
<1>0. TypeOK /\ MutexInv /\ RingInv /\ CallInv
    BY DEF IInv
<1>1. CASE UNCHANGED vars
    BY <1>0, <1>1 DEF vars, ring, MutexInv, RingInv, CallInv
<1>2. ASSUME NEW t \in Threads, Call(t) PROVE MutexInv' /\ RingInv' /\ CallInv'
  <2>1. PICK r \in Fifo!Requests : req' = [req EXCEPT ![t] = r]
      BY <1>2 DEF Call
  <2>2. r # Fifo!NoReq
      BY <2>1, RequestFields DEF Fifo!NoReq
  <2> QED BY <1>0, <1>2, <2>1, <2>2 DEF Call, ring, TypeOK, MutexInv, RingInv, CallInv
<1>3. ASSUME NEW t \in Threads, Lock(t) PROVE MutexInv' /\ RingInv' /\ CallInv'
    BY <1>0, <1>3, NamesAssumption DEF Lock, ring, TypeOK, MutexInv, RingInv, CallInv
<1>4. ASSUME NEW t \in Threads, Wait(t) PROVE MutexInv' /\ RingInv' /\ CallInv'
  <2>1. req[t].op \in {"enqueue", "dequeue"}
      BY <1>0, <1>4, RequestFields DEF Wait, TypeOK, CallInv
  <2> QED BY <1>0, <1>4, <2>1, NamesAssumption
          DEF Wait, ring, TypeOK, MutexInv, RingInv, CallInv
<1>5. ASSUME NEW t \in Threads, Refuse(t) PROVE MutexInv' /\ RingInv' /\ CallInv'
    BY <1>0, <1>5, NamesAssumption
    DEF Refuse, ring, TypeOK, MutexInv, RingInv, CallInv, Fifo!Return
<1>6. ASSUME NEW t \in Threads, Enqueue(t) PROVE MutexInv' /\ RingInv' /\ CallInv'
    BY <1>0, <1>6, SignalCalls, RingPut DEF Enqueue
<1>7. ASSUME NEW t \in Threads, EnqueuePresent(t) PROVE MutexInv' /\ RingInv' /\ CallInv'
    BY <1>0, <1>7, SignalCalls DEF EnqueuePresent, ring, RingInv
<1>8. ASSUME NEW t \in Threads, Dequeue(t) PROVE MutexInv' /\ RingInv' /\ CallInv'
    BY <1>0, <1>8, SignalCalls, RingTake DEF Dequeue
<1>9. ASSUME NEW t \in Threads, SpuriousWakeup(t) PROVE MutexInv' /\ RingInv' /\ CallInv'
    BY <1>0, <1>9 DEF SpuriousWakeup, ring, TypeOK, MutexInv, RingInv, CallInv
<1>10. ASSUME NEW t \in Threads, Cancel(t) PROVE MutexInv' /\ RingInv' /\ CallInv'
    BY <1>0, <1>10 DEF Cancel, ring, TypeOK, MutexInv, RingInv, CallInv
<1>11. ASSUME NEW t \in Threads, Unwind(t) PROVE MutexInv' /\ RingInv' /\ CallInv'
    BY <1>0, <1>11, NamesAssumption DEF Unwind, ring, TypeOK, MutexInv, RingInv, CallInv
<1>12. ASSUME NEW t \in Threads, cleanup_unlock(t) PROVE MutexInv' /\ RingInv' /\ CallInv'
    BY <1>0, <1>12, NamesAssumption
    DEF cleanup_unlock, ring, TypeOK, MutexInv, RingInv, CallInv
<1> QED
    BY <1>1, <1>2, <1>3, <1>4, <1>5, <1>6, <1>7, <1>8, <1>9, <1>10, <1>11, <1>12
    DEF Next, Body

LEMMA Inductive == Spec => []IInv
    BY InitIInv, NextIInv, PTL DEF Spec

(* Only the mutex's owner is between lock and unlock, and a cancelled      *)
(* thread dies without it.                                                 *)
THEOREM MutualExclusion == Spec => []MutexInv
    BY Inductive, PTL DEF IInv

(* windex, nr and the wrapped counters always tell the same story.         *)
THEOREM RingConsistent == Spec => []RingInv
    BY Inductive, PTL DEF IInv

-----------------------------------------------------------------------------

Slots == Data \cup {NoData}

(* The pointers of the ring, oldest first, form a sequence of nr elements. *)
LEMMA ContentsSeq ==
    ASSUME TypeOK
    PROVE  /\ Contents \in Seq(Slots)
           /\ Len(Contents) = nr
           /\ \A k \in 1 .. nr : Slot(k) \in 0 .. (Max - 1) /\ Contents[k] = bucket[Slot(k)]
<1>1. \A k \in 1 .. nr : Slot(k) \in 0 .. (Max - 1)
    BY MaxAssumption DEF TypeOK, Slot
<1>2. \A k \in 1 .. nr : bucket[Slot(k)] \in Slots
    BY <1>1, MaxAssumption DEF TypeOK, Slots
<1>3. Contents \in [1 .. nr -> Slots]
    BY <1>2 DEF Contents
<1>4. nr \in Nat
    BY MaxAssumption DEF TypeOK
<1> QED BY <1>1, <1>3, <1>4 DEF Contents

(* Storing at windex appends to the sequence.                              *)
LEMMA ContentsPut ==
    ASSUME TypeOK, TypeOK', RingInv, NEW t \in Threads, Enqueue(t)
    PROVE  Contents' = Append(Contents, req[t].data) /\ req[t].data \in Data
<1> DEFINE d == req[t].data
<1>1. d \in Data
    BY RequestFields DEF Enqueue, TypeOK, Fifo!NoReq
<1>2. nr \in 0 .. (Max - 1) /\ nr' = nr + 1 /\ rindex' = rindex
    BY MaxAssumption DEF Enqueue, Blocked, TypeOK
<1>3. \A k \in 1 .. nr : Slot(k)' = Slot(k) /\ Slot(k) # windex
    BY <1>2, MaxAssumption DEF TypeOK, RingInv, Slot
<1>4. \A k \in 1 .. nr' : k = nr + 1 => Slot(k)' = windex
    BY <1>2, MaxAssumption DEF TypeOK, RingInv, Slot
<1>5. \A i \in 0 .. (Max - 1) : bucket'[i] = IF i = windex THEN d ELSE bucket[i]
    BY DEF Enqueue, TypeOK
<1>6. \A k \in 1 .. nr : Contents'[k] = Contents[k]
    BY <1>2, <1>3, <1>5, ContentsSeq DEF Contents
<1>7. Contents'[nr + 1] = d
    BY <1>2, <1>4, <1>5 DEF Contents, TypeOK
<1>8. Contents' \in Seq(Slots) /\ Len(Contents') = nr + 1
  <2>1. (Contents \in Seq(Slots))' /\ (Len(Contents) = nr)'
      BY ContentsSeq, PTL
  <2> QED BY <2>1, <1>2 DEF Slots
<1>9. Contents \in Seq(Slots) /\ Len(Contents) = nr /\ d \in Slots
    BY <1>1, ContentsSeq DEF Slots
<1>10. /\ Append(Contents, d) \in Seq(Slots)
       /\ Len(Append(Contents, d)) = nr + 1
       /\ \A k \in 1 .. nr : Append(Contents, d)[k] = Contents[k]
       /\ Append(Contents, d)[nr + 1] = d
    BY <1>9, AppendProperties
<1>11. \A k \in 1 .. (nr + 1) : Contents'[k] = Append(Contents, d)[k]
    BY <1>2, <1>6, <1>7, <1>10
<1> QED BY <1>1, <1>8, <1>10, <1>11, SeqEqual

(* Fetching at rindex removes the head of the sequence.                    *)
LEMMA ContentsTake ==
    ASSUME TypeOK, TypeOK', NEW t \in Threads, Dequeue(t)
    PROVE  /\ Contents # <<>> /\ Contents' = Tail(Contents)
           /\ bucket[rindex] = Head(Contents)
<1>1. nr \in 1 .. Max /\ nr' = nr - 1 /\ bucket' = bucket
    BY MaxAssumption DEF Dequeue, Blocked, TypeOK
<1>2. Contents \in Seq(Slots) /\ Len(Contents) = nr
    BY ContentsSeq
<1>3. Contents # <<>>
    BY <1>1, <1>2
<1>4. \A k \in 1 .. (nr - 1) : Slot(k)' = Slot(k + 1)
    BY <1>1, MaxAssumption DEF TypeOK, Slot, Dequeue, next
<1>5. \A k \in 1 .. (nr - 1) : Contents'[k] = Contents[k + 1]
    BY <1>1, <1>4 DEF Contents
<1>6. Contents' \in Seq(Slots) /\ Len(Contents') = nr - 1
  <2>1. (Contents \in Seq(Slots))' /\ (Len(Contents) = nr)'
      BY ContentsSeq, PTL
  <2> QED BY <2>1, <1>1 DEF Slots
<1>7. /\ Tail(Contents) \in Seq(Slots)
      /\ Len(Tail(Contents)) = nr - 1
      /\ \A k \in 1 .. (nr - 1) : Tail(Contents)[k] = Contents[k + 1]
    BY <1>2, <1>3, HeadTailProperties
<1>8. Contents' = Tail(Contents)
    BY <1>5, <1>6, <1>7, SeqEqual
<1>9. Slot(1) = rindex
    BY MaxAssumption DEF TypeOK, Slot
<1>10. Head(Contents) = bucket[rindex]
    BY <1>1, <1>2, <1>3, <1>9 DEF Contents
<1> QED BY <1>3, <1>8, <1>10

(* A step that leaves the ring alone leaves the sequence alone.            *)
LEMMA ContentsSame ==
    ASSUME UNCHANGED ring
    PROVE  UNCHANGED Contents
    BY DEF ring, Contents, Slot

(* When the ring has room, the scan of queue_enqueue_uniq_nb reads exactly *)
(* the slots of the queued pointers, and bucket[max] after a wrap.         *)
LEMMA ScanExact ==
    ASSUME TypeOK, RingInv, nr < Max
    PROVE  /\ \A k \in 1 .. nr : Slot(k) \in Scanned
           /\ \A i \in Scanned : i = Max \/ \E k \in 1 .. nr : Slot(k) = i
<1> USE MaxAssumption DEF TypeOK, RingInv, Slot, Scanned
<1>1. \A k \in 1 .. nr : Slot(k) \in Scanned
    OBVIOUS
<1>2. ASSUME NEW i \in Scanned, i # Max PROVE \E k \in 1 .. nr : Slot(k) = i
  <2>1. CASE i >= rindex
    <3>1. i - rindex + 1 \in 1 .. nr /\ Slot(i - rindex + 1) = i
        BY <1>2, <2>1
    <3> QED BY <3>1
  <2>2. CASE i < rindex
    <3>1. i + Max - rindex + 1 \in 1 .. nr /\ Slot(i + Max - rindex + 1) = i
        BY <1>2, <2>2
    <3> QED BY <3>1
  <2> QED BY <2>1, <2>2
<1> QED BY <1>1, <1>2

(* The word after the ring is never written.                               *)
BeyondInv == bucket[Max] \in Beyond

LEMMA BeyondStep == TypeOK /\ BeyondInv /\ [Next]_vars => BeyondInv'
<1> SUFFICES ASSUME TypeOK, BeyondInv, [Next]_vars PROVE BeyondInv'
    OBVIOUS
<1>1. ASSUME NEW t \in Threads, Enqueue(t) PROVE BeyondInv'
    BY <1>1, MaxAssumption DEF Enqueue, TypeOK, BeyondInv
<1>2. CASE UNCHANGED bucket
    BY <1>2 DEF BeyondInv
<1> QED
    BY <1>1, <1>2
    DEF Next, Body, vars, ring, Call, Lock, Wait, Refuse, EnqueuePresent, Dequeue,
        SpuriousWakeup, Cancel, Unwind, cleanup_unlock

LEMMA InitFifo == Init => Fifo!Init
    BY DEF Init, Fifo!Init, Contents

(* Every step of the ring is a step of the FIFO queue, or none, as long as *)
(* the word after the ring is not mistaken for a queued pointer.           *)
LEMMA NextFifo ==
    ASSUME IInv, TypeOK', BeyondInv, Beyond = {NoData}, [Next]_vars
    PROVE  [Fifo!Next]_(Fifo!fifoVars)
<1> USE DEF Fifo!fifoVars
<1>0. TypeOK /\ MutexInv /\ RingInv /\ CallInv
    BY DEF IInv
<1>1. CASE UNCHANGED vars
    BY <1>1, ContentsSame DEF vars, ring
<1>2. ASSUME NEW t \in Threads, Call(t) PROVE Fifo!Next
  <2>1. req[t] = Fifo!NoReq
      BY <1>0, <1>2 DEF Call, CallInv
  <2> QED BY <1>2, <2>1, ContentsSame DEF Call, Fifo!Next, Fifo!Invoke
<1>3. ASSUME NEW t \in Threads, Lock(t) PROVE UNCHANGED Fifo!fifoVars
    BY <1>3, ContentsSame DEF Lock
<1>4. ASSUME NEW t \in Threads, Wait(t) PROVE UNCHANGED Fifo!fifoVars
    BY <1>4, ContentsSame DEF Wait
<1>5. ASSUME NEW t \in Threads, Refuse(t) PROVE Fifo!Next
  <2>1. Len(Contents) = (IF req[t].op \in PutOps THEN Max ELSE 0)
      BY <1>0, <1>5, ContentsSeq, MaxAssumption DEF Refuse, Blocked, TypeOK
  <2> QED BY <1>5, <2>1, ContentsSame DEF Refuse, Fifo!Next, Fifo!Refuse
<1>6. ASSUME NEW t \in Threads, Enqueue(t) PROVE Fifo!Next
  <2>1. Contents' = Append(Contents, req[t].data)
      BY <1>0, <1>6, ContentsPut
  <2>2. Len(Contents) < Max
      BY <1>0, <1>6, ContentsSeq, MaxAssumption DEF Enqueue, Blocked, TypeOK
  <2>3. Fifo!Put(t)
      BY <1>6, <2>1, <2>2 DEF Enqueue, SignalAndReturn, Fifo!Put
  <2> QED BY <2>3 DEF Fifo!Next
<1>7. ASSUME NEW t \in Threads, EnqueuePresent(t) PROVE Fifo!Next
  <2>1. PICK i \in Scanned : bucket[i] = req[t].data
      BY <1>7 DEF EnqueuePresent, Found
  <2>2. req[t].data \in Data
      BY <1>0, <1>7, RequestFields DEF EnqueuePresent, TypeOK, Fifo!NoReq
  <2>3. i # Max
      BY <2>1, <2>2, NamesAssumption DEF BeyondInv
  <2>4. nr < Max
      BY <1>0, <1>7, MaxAssumption DEF EnqueuePresent, Blocked, TypeOK
  <2>5. PICK k \in 1 .. nr : Slot(k) = i
      BY <1>0, <2>3, <2>4, ScanExact
  <2>6. Contents[k] = req[t].data /\ k \in 1 .. Len(Contents)
      BY <1>0, <2>1, <2>5, ContentsSeq
  <2>7. Fifo!AlreadyThere(t)
      BY <1>7, <2>6, ContentsSame DEF EnqueuePresent, SignalAndReturn, Fifo!AlreadyThere
  <2> QED BY <2>7 DEF Fifo!Next
<1>8. ASSUME NEW t \in Threads, Dequeue(t) PROVE Fifo!Next
  <2>1. Contents' = Tail(Contents) /\ bucket[rindex] = Head(Contents)
      BY <1>0, <1>8, ContentsTake
  <2>2. Len(Contents) > 0
      BY <1>0, <1>8, ContentsSeq, MaxAssumption DEF Dequeue, Blocked, TypeOK
  <2>3. Fifo!Take(t)
      BY <1>8, <2>1, <2>2 DEF Dequeue, SignalAndReturn, Fifo!Take
  <2> QED BY <2>3 DEF Fifo!Next
<1>9. ASSUME NEW t \in Threads, SpuriousWakeup(t) PROVE UNCHANGED Fifo!fifoVars
    BY <1>9, ContentsSame DEF SpuriousWakeup
<1>10. ASSUME NEW t \in Threads, Cancel(t) PROVE [Fifo!Next]_(Fifo!fifoVars)
  <2>1. CASE pc[t] = "wait"
    <3>1. req[t].op \in {"enqueue", "dequeue"}
        BY <1>0, <2>1 DEF CallInv
    <3>2. Fifo!Abandon(t)
        BY <1>10, <3>1, ContentsSame DEF Cancel, Fifo!Abandon
    <3> QED BY <3>2 DEF Fifo!Next
  <2>2. CASE pc[t] = "idle"
    <3>1. req' = req
        BY <1>0, <1>10, <2>2 DEF Cancel, CallInv, TypeOK
    <3> QED BY <1>10, <3>1, ContentsSame DEF Cancel
  <2> QED BY <1>10, <2>1, <2>2 DEF Cancel
<1>11. ASSUME NEW t \in Threads, Unwind(t) PROVE UNCHANGED Fifo!fifoVars
    BY <1>11, ContentsSame DEF Unwind
<1>12. ASSUME NEW t \in Threads, cleanup_unlock(t) PROVE UNCHANGED Fifo!fifoVars
    BY <1>12, ContentsSame DEF cleanup_unlock
<1> QED
    BY <1>1, <1>2, <1>3, <1>4, <1>5, <1>6, <1>7, <1>8, <1>9, <1>10, <1>11, <1>12
    DEF Next, Body

(* Where the word after the ring cannot equal a pointer, the ring under    *)
(* its mutex and condition variables is a FIFO queue of at most Max        *)
(* pointers whose calls each take effect at one instant.                   *)
THEOREM QueueIsFifo ==
    ASSUME Beyond = {NoData}
    PROVE  Spec => ImplementsFifo
<1>1. Init => BeyondInv
    BY MaxAssumption DEF Init, BeyondInv
<1>2. IInv /\ BeyondInv /\ [Next]_vars => BeyondInv'
    BY BeyondStep DEF IInv
<1>3. IInv /\ IInv' /\ BeyondInv /\ [Next]_vars => [Fifo!Next]_(Fifo!fifoVars)
    BY NextFifo DEF IInv
<1> QED
    BY <1>1, <1>2, <1>3, InitFifo, Inductive, PTL DEF Spec, ImplementsFifo, Fifo!Spec

-----------------------------------------------------------------------------

(* A pointer of Unique on its way into the queue is on its way through     *)
(* the scan of queue_enqueue_uniq_nb.                                      *)
UniqPending ==
    \A t \in Threads :
        req[t].op \in PutOps /\ req[t].data \in Unique => req[t].op = "enqueue_uniq_nb"

LEMMA UniqPendingStep ==
    ASSUME TypeOK, UniqPending, [Next]_vars
    PROVE  UniqPending'
<1>1. ASSUME NEW t \in Threads, Call(t) PROVE UniqPending'
    BY <1>1, RequestFields DEF Call, TypeOK, UniqPending
<1>2. CASE req' = req
    BY <1>2 DEF UniqPending
<1>3. ASSUME NEW t \in Threads, req' = [req EXCEPT ![t] = Fifo!NoReq]
      PROVE  UniqPending'
  <2>1. Fifo!NoReq.op \notin PutOps
      BY DEF Fifo!NoReq
  <2>2. \A s \in Threads : req'[s] = IF s = t THEN Fifo!NoReq ELSE req[s]
      BY <1>3 DEF TypeOK
  <2> QED BY <2>1, <2>2 DEF UniqPending
<1> QED
    BY <1>1, <1>2, <1>3
    DEF Next, Body, vars, Lock, Wait, Refuse, Enqueue, EnqueuePresent, Dequeue,
        SignalAndReturn, Fifo!Return, SpuriousWakeup, Cancel, Unwind, cleanup_unlock

(* A store is reached only when the scan did not find the pointer.         *)
LEMMA NoDuplicatesStep ==
    ASSUME TypeOK, TypeOK', RingInv, UniqPending, NoDuplicates, [Next]_vars
    PROVE  NoDuplicates'
<1>1. ASSUME NEW t \in Threads, Enqueue(t) PROVE NoDuplicates'
  <2> DEFINE d == req[t].data
  <2>1. Contents' = Append(Contents, d) /\ d \in Data
      BY <1>1, ContentsPut
  <2>2. nr < Max /\ nr' = nr + 1 /\ nr \in Nat
      BY <1>1, MaxAssumption DEF Enqueue, Blocked, TypeOK
  <2>3. d \in Unique => ~Found(t)
      BY <1>1 DEF Enqueue, UniqPending
  <2>4. d \in Unique => \A k \in 1 .. nr : Contents[k] # d
      BY <2>2, <2>3, ScanExact, ContentsSeq DEF Found
  <2>5. Contents \in Seq(Slots) /\ Len(Contents) = nr /\ d \in Slots
      BY <2>1, ContentsSeq DEF Slots
  <2>6. /\ \A k \in 1 .. nr : Contents'[k] = Contents[k]
        /\ Contents'[nr + 1] = d
      BY <2>1, <2>5, AppendProperties
  <2>7. ASSUME NEW j \in 1 .. (nr + 1), NEW k \in 1 .. (nr + 1),
               Contents'[j] = Contents'[k], Contents'[j] \in Unique
        PROVE  j = k
      BY <2>2, <2>4, <2>6, <2>7 DEF NoDuplicates
  <2> QED BY <2>2, <2>7 DEF NoDuplicates
<1>2. ASSUME NEW t \in Threads, Dequeue(t) PROVE NoDuplicates'
  <2>1. Contents # <<>> /\ Contents' = Tail(Contents)
      BY <1>2, ContentsTake
  <2>2. nr \in Nat \ {0} /\ nr' = nr - 1
      BY <1>2, MaxAssumption DEF Dequeue, Blocked, TypeOK
  <2>3. \A k \in 1 .. (nr - 1) : Contents'[k] = Contents[k + 1]
      BY <2>1, <2>2, ContentsSeq, HeadTailProperties
  <2>4. ASSUME NEW j \in 1 .. (nr - 1), NEW k \in 1 .. (nr - 1),
               Contents'[j] = Contents'[k], Contents'[j] \in Unique
        PROVE  j = k
    <3>1. /\ j + 1 \in 1 .. nr /\ k + 1 \in 1 .. nr
          /\ Contents[j + 1] = Contents[k + 1] /\ Contents[j + 1] \in Unique
        BY <2>2, <2>3, <2>4
    <3>2. j + 1 = k + 1
        BY <3>1 DEF NoDuplicates
    <3> QED BY <3>2, <2>2
  <2> QED BY <2>2, <2>4 DEF NoDuplicates
<1>3. CASE UNCHANGED ring
  <2>1. UNCHANGED <<Contents, nr>>
      BY <1>3, ContentsSame DEF ring
  <2> QED BY <2>1 DEF NoDuplicates
<1> QED
    BY <1>1, <1>2, <1>3
    DEF Next, Body, vars, Call, Lock, Wait, Refuse, EnqueuePresent,
        SpuriousWakeup, Cancel, Unwind, cleanup_unlock

(* What queue_enqueue_uniq_nb alone stores, as all the callers of imp_run  *)
(* do, is never queued twice, whatever the word after the ring holds.      *)
THEOREM RunQueueUnique == Spec => []NoDuplicates
<1>1. Init => UniqPending /\ NoDuplicates
    BY DEF Init, UniqPending, NoDuplicates, Fifo!NoReq
<1>2. IInv /\ IInv' /\ UniqPending /\ NoDuplicates /\ [Next]_vars
        => UniqPending' /\ NoDuplicates'
    BY UniqPendingStep, NoDuplicatesStep DEF IInv
<1> QED
    BY <1>1, <1>2, Inductive, PTL DEF Spec

-----------------------------------------------------------------------------

(* Enough threads are coming to use the n pointers, or slots, that a       *)
(* sleeper of op could use.                                                *)
Enough(op, n) == Waiting(op) # {} => n <= Cardinality(Coming(op))

LEMMA ComingFinite ==
    ASSUME NEW op
    PROVE  IsFiniteSet(Coming(op)) /\ Cardinality(Coming(op)) \in Nat
    BY ThreadsAssumption, FS_Subset, FS_CardinalityType DEF Coming

(* Sleepers may leave and others come: what was enough still is.           *)
LEMMA EnoughSets ==
    ASSUME NEW W, NEW C, NEW W2, NEW C2, NEW n \in Int,
           IsFiniteSet(C2), C \subseteq C2, W2 \subseteq W,
           W # {} => n <= Cardinality(C)
    PROVE  W2 # {} => n <= Cardinality(C2)
<1>1. IsFiniteSet(C) /\ Cardinality(C) <= Cardinality(C2)
    BY FS_Subset
<1>2. Cardinality(C) \in Nat /\ Cardinality(C2) \in Nat
    BY <1>1, FS_CardinalityType
<1> QED BY <1>1, <1>2

(* A signal to op wakes a sleeper for the pointer, or slot, just added.    *)
LEMMA EnoughSignal ==
    ASSUME TypeOK, NEW op, NEW n \in Int, Enough(op, n),
           NEW t \in Threads, pc[t] = "locked", req[t].op # op, NEW r,
           SignalAndReturn(t, Waiting(op), r), op # "none"
    PROVE  Waiting(op)' # {} => n + 1 <= Cardinality(Coming(op)')
<1>1. CASE Waiting(op) = {}
    BY <1>1 DEF SignalAndReturn, Waiting, Fifo!Return, Fifo!NoReq, TypeOK
<1>2. CASE Waiting(op) # {}
  <2>1. PICK w \in Waiting(op) : pc' = [pc EXCEPT ![t] = "idle", ![w] = "relock"]
      BY <1>2 DEF SignalAndReturn
  <2>2. w \in Threads /\ pc[w] = "wait" /\ req[w].op = op /\ w # t
      BY DEF Waiting
  <2>3. Coming(op)' = Coming(op) \cup {w} /\ w \notin Coming(op)
      BY <2>1, <2>2 DEF SignalAndReturn, Coming, Fifo!Return, Fifo!NoReq, TypeOK
  <2>4. Cardinality(Coming(op) \cup {w}) = Cardinality(Coming(op)) + 1
      BY <2>3, ComingFinite, FS_AddElement
  <2> QED BY <1>2, <2>3, <2>4, ComingFinite DEF Enough
<1> QED BY <1>1, <1>2

(* The caller that used one of the n leaves, and no sleeper of its kind is *)
(* touched by the signal it sends to the other kind.                       *)
LEMMA EnoughUsed ==
    ASSUME TypeOK, NEW op, NEW n \in Int, Enough(op, n), NEW other,
           other # op, op # "none",
           NEW t \in Threads, pc[t] = "locked", NEW r,
           SignalAndReturn(t, Waiting(other), r)
    PROVE  Waiting(op)' # {} => n - 1 <= Cardinality(Coming(op)')
<1>1. Waiting(op)' = Waiting(op)
    BY DEF SignalAndReturn, Waiting, Fifo!Return, Fifo!NoReq, TypeOK
<1>2. Coming(op)' = Coming(op) \ {t}
    BY DEF SignalAndReturn, Waiting, Coming, Fifo!Return, Fifo!NoReq, TypeOK
<1>3. IsFiniteSet(Coming(op)) /\ Cardinality(Coming(op)) \in Nat
    BY ComingFinite
<1>4. Cardinality(Coming(op) \ {t}) =
        IF t \in Coming(op) THEN Cardinality(Coming(op)) - 1 ELSE Cardinality(Coming(op))
    BY <1>3, FS_RemoveElement
<1>5. Cardinality(Coming(op) \ {t}) >= Cardinality(Coming(op)) - 1
      /\ Cardinality(Coming(op) \ {t}) \in Int
    BY <1>3, <1>4
<1> QED BY <1>1, <1>2, <1>3, <1>5 DEF Enough

(* The other steps of a thread move nobody of op into sleep or out of the  *)
(* way to the ring.                                                        *)
LEMMA EnoughQuiet ==
    ASSUME NEW op, NEW n \in Int, Enough(op, n),
           Waiting(op)' \subseteq Waiting(op), Coming(op) \subseteq Coming(op)'
    PROVE  Waiting(op)' # {} => n <= Cardinality(Coming(op)')
<1>1. IsFiniteSet(Coming(op)')
    BY ThreadsAssumption, FS_Subset DEF Coming
<1>2. Waiting(op) # {} => n <= Cardinality(Coming(op))
    BY DEF Enough
<1> HIDE DEF Waiting, Coming
<1> QED BY <1>1, <1>2, EnoughSets

LEMMA NoLostWakeupStep ==
    ASSUME IInv, NoLostWakeup, [Next]_vars
    PROVE  NoLostWakeup'
<1>0. TypeOK /\ CallInv /\ nr \in Int /\ Max - nr \in Int /\ nr <= Max
    BY MaxAssumption DEF IInv, TypeOK
<1>a. Enough("dequeue", nr) /\ Enough("enqueue", Max - nr)
    BY DEF NoLostWakeup, Enough
<1>1. ASSUME nr' = nr,
             \A op \in {"enqueue", "dequeue"} :
                Waiting(op)' \subseteq Waiting(op) /\ Coming(op) \subseteq Coming(op)'
      PROVE  NoLostWakeup'
  <2>1. Waiting("dequeue")' # {} => nr <= Cardinality(Coming("dequeue")')
      BY <1>0, <1>1, <1>a, EnoughQuiet
  <2>2. Waiting("enqueue")' # {} => Max - nr <= Cardinality(Coming("enqueue")')
      BY <1>0, <1>1, <1>a, EnoughQuiet
  <2> QED BY <1>1, <2>1, <2>2 DEF NoLostWakeup
<1>2. CASE UNCHANGED vars
    BY <1>1, <1>2 DEF vars, ring, Waiting, Coming
<1>3. ASSUME NEW t \in Threads, Call(t) PROVE NoLostWakeup'
    BY <1>0, <1>1, <1>3 DEF Call, ring, Waiting, Coming, TypeOK
<1>4. ASSUME NEW t \in Threads, Lock(t) PROVE NoLostWakeup'
    BY <1>0, <1>1, <1>4 DEF Lock, ring, Waiting, Coming, TypeOK
<1>5. ASSUME NEW t \in Threads, Wait(t) PROVE NoLostWakeup'
  <2>1. req' = req /\ nr' = nr /\ pc' = [pc EXCEPT ![t] = "wait"] /\ pc[t] = "locked"
      BY <1>5 DEF Wait, ring
  <2>2. ASSUME NEW op \in {"enqueue", "dequeue"}, req[t].op # op
        PROVE  Waiting(op)' = Waiting(op) /\ Coming(op)' = Coming(op)
      BY <1>0, <2>1, <2>2 DEF Waiting, Coming, TypeOK
  <2>3. ASSUME NEW op \in {"enqueue", "dequeue"}
        PROVE  Cardinality(Coming(op)') \in Nat
    <3>1. IsFiniteSet(Coming(op)')
        BY ThreadsAssumption, FS_Subset DEF Coming
    <3> QED BY <3>1, FS_CardinalityType
  <2>4. CASE req[t].op = "dequeue"
    <3>1. nr' <= Cardinality(Coming("dequeue")')
        BY <1>0, <1>5, <2>1, <2>3, <2>4 DEF Wait, Blocked
    <3> QED BY <1>a, <2>1, <2>2, <2>4, <3>1 DEF NoLostWakeup, Enough
  <2>5. CASE req[t].op = "enqueue"
    <3>1. Max - nr' <= Cardinality(Coming("enqueue")')
        BY <1>0, <1>5, <2>1, <2>3, <2>5, MaxAssumption DEF Wait, Blocked
    <3> QED BY <1>a, <2>1, <2>2, <2>5, <3>1 DEF NoLostWakeup, Enough
  <2>6. req[t].op \in {"enqueue", "dequeue"}
      BY <1>0, <1>5, RequestFields DEF Wait, TypeOK, CallInv
  <2> QED BY <2>4, <2>5, <2>6
<1>6. ASSUME NEW t \in Threads, Refuse(t) PROVE NoLostWakeup'
    BY <1>0, <1>1, <1>6 DEF Refuse, ring, Waiting, Coming, TypeOK, Fifo!Return, Fifo!NoReq
<1>7. ASSUME NEW t \in Threads, Enqueue(t) PROVE NoLostWakeup'
  <2>1. nr' = nr + 1 /\ Max - nr' = Max - nr - 1
      BY <1>0, <1>7, MaxAssumption DEF Enqueue
  <2>2. /\ SignalAndReturn(t, Waiting("dequeue"), Fifo!Result("ok", NoData))
        /\ pc[t] = "locked" /\ req[t].op # "dequeue"
      BY <1>7 DEF Enqueue
  <2>3. Waiting("dequeue")' # {} => nr + 1 <= Cardinality(Coming("dequeue")')
      BY <1>0, <1>a, <2>2, EnoughSignal
  <2>4. Waiting("enqueue")' # {} => Max - nr - 1 <= Cardinality(Coming("enqueue")')
      BY <1>0, <1>a, <2>2, EnoughUsed
  <2> QED BY <2>1, <2>3, <2>4 DEF NoLostWakeup
<1>8. ASSUME NEW t \in Threads, EnqueuePresent(t) PROVE NoLostWakeup'
    BY <1>0, <1>1, <1>8
    DEF EnqueuePresent, SignalAndReturn, ring, Waiting, Coming, TypeOK, Fifo!Return,
        Fifo!NoReq
<1>9. ASSUME NEW t \in Threads, Dequeue(t) PROVE NoLostWakeup'
  <2>1. nr' = nr - 1 /\ Max - nr' = Max - nr + 1
      BY <1>0, <1>9, MaxAssumption DEF Dequeue
  <2>2. /\ SignalAndReturn(t, Waiting("enqueue"), Fifo!Result("ok", bucket[rindex]))
        /\ pc[t] = "locked" /\ req[t].op # "enqueue"
      BY <1>9 DEF Dequeue
  <2>3. Waiting("dequeue")' # {} => nr - 1 <= Cardinality(Coming("dequeue")')
      BY <1>0, <1>a, <2>2, EnoughUsed
  <2>4. Waiting("enqueue")' # {} => Max - nr + 1 <= Cardinality(Coming("enqueue")')
      BY <1>0, <1>a, <2>2, EnoughSignal
  <2> QED BY <2>1, <2>3, <2>4 DEF NoLostWakeup
<1>10. ASSUME NEW t \in Threads, SpuriousWakeup(t) PROVE NoLostWakeup'
    BY <1>0, <1>1, <1>10 DEF SpuriousWakeup, ring, Waiting, Coming, TypeOK
<1>11. ASSUME NEW t \in Threads, Cancel(t) PROVE NoLostWakeup'
    BY <1>0, <1>1, <1>11 DEF Cancel, ring, Waiting, Coming, TypeOK, Fifo!NoReq
<1>12. ASSUME NEW t \in Threads, Unwind(t) PROVE NoLostWakeup'
    BY <1>0, <1>1, <1>12 DEF Unwind, ring, Waiting, Coming, TypeOK
<1>13. ASSUME NEW t \in Threads, cleanup_unlock(t) PROVE NoLostWakeup'
    BY <1>0, <1>1, <1>13 DEF cleanup_unlock, ring, Waiting, Coming, TypeOK
<1> QED
    BY <1>2, <1>3, <1>4, <1>5, <1>6, <1>7, <1>8, <1>9, <1>10, <1>11, <1>12, <1>13
    DEF Next, Body

(* However calls barge in, waits return for no reason and sleepers are     *)
(* cancelled, nobody sleeps beside a pointer or a slot left for him.       *)
THEOREM WakeupsNeverLost == Spec => []NoLostWakeup
<1>1. Init => NoLostWakeup
    BY DEF Init, NoLostWakeup, Waiting
<1> QED
    BY <1>1, NoLostWakeupStep, Inductive, PTL DEF Spec
=============================================================================
