-------------------------- MODULE RingQueueProofs --------------------------
(***************************************************************************)
(* That the queue without a mutex is a FIFO queue, for every number of     *)
(* threads and every number of slots, until a thread takes an index that   *)
(* has come round for the one it read.                                     *)
(***************************************************************************)
EXTENDS RingQueue, SequenceTheorems, TLAPS

Slots == 0 .. Max - 1

-----------------------------------------------------------------------------
(* Indices modulo Max.                                                     *)

LEMMA Remainder ==
    ASSUME NEW i \in Slots
    PROVE  i % Max = i /\ (i + Max) % Max = i /\ (i - Max) % Max = i
    BY RingAssumption, Z3 DEF Slots

LEMMA StepIs ==
    ASSUME NEW i \in Slots
    PROVE  Step(i) = (IF i = Max - 1 THEN 0 ELSE i + 1) /\ Step(i) \in Slots
<1>1. CASE i = Max - 1
  <2>1. 0 \in Slots /\ i + 1 = 0 + Max
      BY <1>1, RingAssumption DEF Slots
  <2>2. (0 + Max) % Max = 0
      BY <2>1, Remainder
  <2> QED BY <2>1, <2>2, <1>1 DEF Step
<1>2. CASE i # Max - 1
  <2>1. i + 1 \in Slots
      BY <1>2, RingAssumption DEF Slots
  <2> QED BY <2>1, <1>2, Remainder DEF Step
<1> QED BY <1>1, <1>2

LEMMA DistanceIs ==
    ASSUME NEW i \in Slots, NEW j \in Slots
    PROVE  Distance(i, j) = IF i <= j THEN j - i ELSE j - i + Max
<1>1. CASE i <= j
  <2>1. j - i \in Slots
      BY <1>1, RingAssumption DEF Slots
  <2> QED BY <2>1, <1>1, Remainder DEF Distance
<1>2. CASE ~(i <= j)
  <2>1. j - i + Max \in Slots /\ (j - i + Max) - Max = j - i
      BY <1>2, RingAssumption DEF Slots
  <2>2. ((j - i + Max) - Max) % Max = j - i + Max
      BY <2>1, Remainder
  <2> QED BY <2>1, <2>2, <1>2 DEF Distance
<1> QED BY <1>1, <1>2

(* What the steps do to distances.                                         *)
LEMMA Distances ==
    ASSUME NEW i \in Slots, NEW j \in Slots
    PROVE  /\ Distance(i, j) \in Slots
           /\ Distance(i, j) = 0 <=> i = j
           /\ Distance(i, Step(j)) = IF Distance(i, j) = Max - 1 THEN 0 ELSE Distance(i, j) + 1
           /\ Distance(Step(i), j) = IF Distance(i, j) = 0 THEN Max - 1 ELSE Distance(i, j) - 1
           /\ \A k \in Slots : Distance(i, j) = Distance(i, k) => j = k
<1>1. Step(i) \in Slots /\ Step(j) \in Slots
    BY StepIs
<1>2. \A k \in Slots : Distance(i, k) = IF i <= k THEN k - i ELSE k - i + Max
    BY DistanceIs
<1>3. Distance(Step(i), j) = IF Step(i) <= j THEN j - Step(i) ELSE j - Step(i) + Max
    BY <1>1, DistanceIs
<1>4. /\ Step(i) = (IF i = Max - 1 THEN 0 ELSE i + 1)
      /\ Step(j) = (IF j = Max - 1 THEN 0 ELSE j + 1)
    BY StepIs
<1> HIDE DEF Step, Distance
<1> QED BY <1>1, <1>2, <1>3, <1>4, RingAssumption DEF Slots

(* The slot k - 1 behind another.                                          *)
LEMMA Ahead ==
    ASSUME NEW i \in Slots, NEW k \in 1 .. Max
    PROVE  (i + k - 1) % Max \in Slots /\ Distance(i, (i + k - 1) % Max) = k - 1
<1>1. CASE i + k - 1 < Max
  <2>1. i + k - 1 \in Slots
      BY <1>1, RingAssumption DEF Slots
  <2>2. (i + k - 1) % Max = i + k - 1
      BY <2>1, Remainder
  <2> QED BY <2>1, <2>2, DistanceIs, RingAssumption DEF Slots
<1>2. CASE ~(i + k - 1 < Max)
  <2>1. i + k - 1 - Max \in Slots /\ i + k - 1 = (i + k - 1 - Max) + Max
      BY <1>2, RingAssumption DEF Slots
  <2>2. (i + k - 1) % Max = i + k - 1 - Max
      BY <2>1, Remainder
  <2> QED BY <2>1, <2>2, DistanceIs, RingAssumption DEF Slots
<1> QED BY <1>1, <1>2

-----------------------------------------------------------------------------
(* What every step keeps.                                                  *)

Producing == {"read_w", "check_full", "swap_w", "write", "publish"}
Consuming == {"read_r", "check_empty", "copy", "swap_r"}
Reserving == {"write", "publish"}

Types ==
    /\ windex \in Slots /\ rindex \in Slots /\ max_rindex \in Slots
    /\ bucket \in [Slots -> Data \cup {NoData}]
    /\ pc \in [Threads -> {"idle"} \cup Producing \cup Consuming]
    /\ req \in [Threads -> Fifo!Requests \cup {Fifo!NoReq}]
    /\ w \in [Threads -> Slots] /\ r \in [Threads -> Slots]
    /\ p \in [Threads -> Data \cup {NoData}]
    /\ moved \in [Threads -> BOOLEAN]

(* What a thread has been called for.                                      *)
Called ==
    \A t \in Threads :
        /\ pc[t] = "idle" => req[t] = Fifo!NoReq
        /\ pc[t] \in Producing => req[t].op = "enqueue_nb" /\ req[t].data \in Data
        /\ pc[t] \in Consuming => req[t].op = "dequeue_nb"

(* The slots are, from rindex on, published, reserved and free.  Each      *)
(* reserved slot belongs to one thread, and holds its pointer when it is   *)
(* to be published.                                                        *)
Reserved ==
    /\ Distance(rindex, max_rindex) <= Distance(rindex, windex)
    /\ \A t \in Threads : pc[t] \in Reserving =>
         /\ Distance(rindex, max_rindex) <= Distance(rindex, w[t])
         /\ Distance(rindex, w[t]) < Distance(rindex, windex)
         /\ pc[t] = "publish" => bucket[w[t]] = req[t].data
    /\ \A t, u \in Threads :
         pc[t] \in Reserving /\ pc[u] \in Reserving /\ w[t] = w[u] => t = u

(* A thread whose index has not moved since it read it finds the queue as  *)
(* it saw it: with room, or with a pointer, the one that it has copied.    *)
Seen ==
    \A t \in Threads :
        /\ moved[t] => t \in Writers \cup Readers
        /\ t \in Writers /\ ~moved[t] => w[t] = windex
        /\ t \in Readers /\ ~moved[t] => r[t] = rindex
        /\ pc[t] = "swap_w" /\ ~moved[t] => Distance(rindex, windex) < Max - 1
        /\ pc[t] \in {"copy", "swap_r"} /\ ~moved[t] => rindex # max_rindex
        /\ pc[t] = "swap_r" /\ ~moved[t] => p[t] = bucket[rindex]

Sound == Types /\ Called /\ Reserved /\ Seen

(* Nothing is said of the ring once a swap has been mistaken.              *)
IInv == aba \/ Sound

LEMMA InitSound == Init => Sound
<1> SUFFICES ASSUME Init PROVE Sound
    OBVIOUS
<1>1. 0 \in Slots
    BY RingAssumption DEF Slots
<1>2. Types
    BY <1>1 DEF Init, Types, Slots
<1>3. Called
    BY DEF Init, Called, Producing, Consuming
<1>4. Reserved
    BY <1>1, Distances DEF Init, Reserved, Reserving
<1>5. Seen
    BY <1>1, Distances DEF Init, Seen, Writers, Readers
<1> QED BY <1>2, <1>3, <1>4, <1>5 DEF Sound

LEMMA RequestFields ==
    ASSUME NEW q \in Fifo!Requests
    PROVE  /\ q.op = "enqueue_nb" => q.data \in Data
           /\ q.op \in {"enqueue", "enqueue_nb", "enqueue_uniq_nb", "dequeue", "dequeue_nb"}
    BY DEF Fifo!Requests, Fifo!PutOps, Fifo!TakeOps

-----------------------------------------------------------------------------
(* The steps before a slot is reserved.                                    *)

LEMMA CallStep ==
    ASSUME Sound, NEW t \in Threads, Call(t)
    PROVE  Sound'
<1> USE DEF Sound, Producing, Consuming, Go, history, shared, locals
<1>1. PICK q \in Fifo!Requests :
        /\ q.op \in MayCall[t]
        /\ req' = [req EXCEPT ![t] = q]
        /\ Go(t, IF q.op = "enqueue_nb" THEN "read_w" ELSE "read_r")
    BY DEF Call
<1>2. Types'
    BY <1>1 DEF Call, Types
<1>3. q.op = "enqueue_nb" \/ q.op = "dequeue_nb"
    BY <1>1, CallAssumption
<1>4. Called'
    BY <1>1, <1>3, RequestFields DEF Call, Types, Called
<1>5. Reserved'
    BY <1>1 DEF Call, Types, Reserved, Reserving
<1>6. Seen'
    BY <1>1 DEF Call, Types, Seen, Writers, Readers
<1> QED BY <1>2, <1>4, <1>5, <1>6

LEMMA ReadWindexStep ==
    ASSUME Sound, NEW t \in Threads, ReadWindex(t)
    PROVE  Sound'
<1> USE DEF Sound, Producing, Consuming, Go, history, shared, locals
<1>1. Types'
    BY DEF ReadWindex, Types
<1>2. Called'
    BY DEF ReadWindex, Types, Called
<1>3. Reserved'
    BY DEF ReadWindex, Types, Reserved, Reserving
<1>4. Distance(windex, windex) = 0
    BY Distances DEF Types
<1>5. Seen'
    BY <1>4 DEF ReadWindex, Types, Seen, Writers, Readers
<1> QED BY <1>1, <1>2, <1>3, <1>5

LEMMA ReadRindexStep ==
    ASSUME Sound, NEW t \in Threads, ReadRindex(t)
    PROVE  Sound'
<1> USE DEF Sound, Producing, Consuming, Go, history, shared, locals
<1>1. Types'
    BY DEF ReadRindex, Types
<1>2. Called'
    BY DEF ReadRindex, Types, Called
<1>3. Reserved'
    BY DEF ReadRindex, Types, Reserved, Reserving
<1>4. Distance(rindex, rindex) = 0
    BY Distances DEF Types
<1>5. Seen'
    BY <1>4 DEF ReadRindex, Types, Seen, Writers, Readers
<1> QED BY <1>1, <1>2, <1>3, <1>5

(* A thread that returns, or starts its loop again, is neither.            *)
LEMMA ReturnStep ==
    ASSUME Sound, NEW t \in Threads, NEW x, Return(t, x), Forget(t), UNCHANGED shared,
           pc[t] \notin Reserving
    PROVE  Sound'
<1> USE DEF Sound, Producing, Consuming, Go, history, shared, Return, Forget
<1>1. Types'
    BY RingAssumption DEF Types, Slots
<1>2. Called'
    BY DEF Types, Called
<1>3. Reserved'
    BY DEF Types, Reserved, Reserving
<1>4. Seen'
    BY DEF Types, Seen, Writers, Readers
<1> QED BY <1>1, <1>2, <1>3, <1>4

LEMMA CheckFullStep ==
    ASSUME Sound, NEW t \in Threads, CheckFull(t)
    PROVE  Sound'
<1> USE DEF Sound, Producing, Consuming, Go, history, shared, locals
<1>1. CASE Return(t, Fifo!Result("refused", NoData)) /\ Forget(t)
    BY <1>1, ReturnStep DEF CheckFull, Reserving
<1>2. CASE Step(w[t]) # rindex /\ Go(t, "swap_w") /\ Stay /\ UNCHANGED history
  <2> USE <1>2 DEF CheckFull, Stay
  <2>1. Types'
      BY DEF Types
  <2>2. Called'
      BY DEF Types, Called
  <2>3. Reserved'
      BY DEF Types, Reserved, Reserving
  <2>4. w[t] = windex => Distance(rindex, windex) < Max - 1
    <3>1. /\ Distance(rindex, Step(windex)) = 0 <=> rindex = Step(windex)
          /\ Distance(rindex, Step(windex)) =
               IF Distance(rindex, windex) = Max - 1 THEN 0 ELSE Distance(rindex, windex) + 1
          /\ Distance(rindex, windex) \in Slots
        BY StepIs, Distances DEF Types
    <3> HIDE DEF Step, Distance
    <3> QED BY <3>1, RingAssumption DEF Slots
  <2>5. Seen'
      BY <2>4 DEF Types, Seen, Writers, Readers
  <2> QED BY <2>1, <2>2, <2>3, <2>5
<1> QED BY <1>1, <1>2 DEF CheckFull

LEMMA CheckEmptyStep ==
    ASSUME Sound, NEW t \in Threads, CheckEmpty(t)
    PROVE  Sound'
<1> USE DEF Sound, Producing, Consuming, Go, history, shared, locals
<1>1. CASE Return(t, Fifo!Result("refused", NoData)) /\ Forget(t)
    BY <1>1, ReturnStep DEF CheckEmpty, Reserving
<1>2. CASE r[t] # max_rindex % Max /\ Go(t, "copy") /\ Stay /\ UNCHANGED history
  <2> USE <1>2 DEF CheckEmpty, Stay
  <2>1. Types'
      BY DEF Types
  <2>2. Called'
      BY DEF Types, Called
  <2>3. Reserved'
      BY DEF Types, Reserved, Reserving
  <2>4. r[t] = rindex => rindex # max_rindex
      BY Remainder DEF Types
  <2>5. Seen'
      BY <2>4 DEF Types, Seen, Writers, Readers
  <2> QED BY <2>1, <2>2, <2>3, <2>5
<1> QED BY <1>1, <1>2 DEF CheckEmpty

LEMMA CopySlotStep ==
    ASSUME Sound, NEW t \in Threads, CopySlot(t)
    PROVE  Sound'
<1> USE DEF Sound, Producing, Consuming, Go, history, shared, locals
<1>1. Types'
    BY DEF CopySlot, Types
<1>2. Called'
    BY DEF CopySlot, Types, Called
<1>3. Reserved'
    BY DEF CopySlot, Types, Reserved, Reserving
<1>4. Seen'
    BY DEF CopySlot, Types, Seen, Writers, Readers
<1> QED BY <1>1, <1>2, <1>3, <1>4

-----------------------------------------------------------------------------
(* Reserving, writing and publishing a slot.                               *)

LEMMA WriteSlotStep ==
    ASSUME Sound, NEW t \in Threads, WriteSlot(t)
    PROVE  Sound'
<1> USE DEF Sound, Producing, Consuming, Go, history, shared, locals
<1>1. Types'
    BY DEF WriteSlot, Types, Called
<1>2. Called'
    BY DEF WriteSlot, Types, Called
<1>3. Reserved'
    BY DEF WriteSlot, Types, Reserved, Reserving
<1>4. rindex # max_rindex => w[t] # rindex
  <2>1. Distance(rindex, max_rindex) <= Distance(rindex, w[t])
      BY DEF WriteSlot, Reserved, Reserving
  <2>2. /\ Distance(rindex, max_rindex) \in Slots
        /\ Distance(rindex, max_rindex) = 0 <=> rindex = max_rindex
        /\ Distance(rindex, rindex) = 0
      BY Distances DEF Types
  <2> HIDE DEF Distance
  <2> QED BY <2>1, <2>2, RingAssumption DEF Slots
<1>5. Seen'
    BY <1>4 DEF WriteSlot, Types, Seen, Writers, Readers
<1> QED BY <1>1, <1>2, <1>3, <1>5

LEMMA PublishStep ==
    ASSUME Sound, NEW t \in Threads, Publish(t)
    PROVE  Sound'
<1> USE DEF Sound, Producing, Consuming, Go, history, shared, locals, Publish, PublishSlot, Return
<1>0. max_rindex = w[t] /\ max_rindex' = Step(max_rindex)
    OBVIOUS
<1>1. Types'
    BY StepIs, RingAssumption DEF Types, Slots
<1>2. Called'
    BY DEF Types, Called
<1>3. /\ Distance(rindex, max_rindex) < Distance(rindex, windex)
      /\ Distance(rindex, max_rindex') = Distance(rindex, max_rindex) + 1
      /\ rindex # max_rindex'
  <2>1. Distance(rindex, max_rindex) < Distance(rindex, windex)
      BY <1>0 DEF Reserved, Reserving
  <2>2. rindex \in Slots /\ max_rindex \in Slots /\ windex \in Slots /\ max_rindex' \in Slots
      BY <1>1 DEF Types
  <2> HIDE DEF Step, Distance
  <2>3. Distance(rindex, max_rindex) \in Slots /\ Distance(rindex, windex) \in Slots
      BY <2>2, Distances
  <2>4. Distance(rindex, max_rindex') =
          IF Distance(rindex, max_rindex) = Max - 1 THEN 0 ELSE Distance(rindex, max_rindex) + 1
      BY <1>0, <2>2, Distances
  <2>5. Distance(rindex, max_rindex') = 0 <=> rindex = max_rindex'
      BY <2>2, Distances
  <2> QED BY <2>1, <2>3, <2>4, <2>5, RingAssumption DEF Slots
<1>4. Reserved'
  <2>1. ASSUME NEW u \in Threads, pc'[u] \in Reserving
        PROVE  /\ u # t /\ pc[u] = pc'[u] /\ w'[u] = w[u] /\ req'[u] = req[u]
               /\ Distance(rindex, max_rindex') <= Distance(rindex, w[u])
    <3>1. u # t /\ pc[u] = pc'[u] /\ w'[u] = w[u] /\ req'[u] = req[u] /\ pc[t] \in Reserving
        BY <2>1 DEF Types, Reserving
    <3>2. w[u] # max_rindex
        BY <1>0, <2>1, <3>1 DEF Reserved
    <3>3. /\ Distance(rindex, w[u]) # Distance(rindex, max_rindex)
          /\ Distance(rindex, w[u]) \in Slots /\ Distance(rindex, max_rindex) \in Slots
        BY <3>2, Distances DEF Types
    <3>4. Distance(rindex, max_rindex) <= Distance(rindex, w[u])
        BY <2>1, <3>1 DEF Reserved
    <3> HIDE DEF Step, Distance
    <3> QED BY <3>1, <3>3, <3>4, <1>3, RingAssumption DEF Slots
  <2>2. Distance(rindex, max_rindex) \in Slots /\ Distance(rindex, windex) \in Slots
      BY Distances DEF Types
  <2>3. Distance(rindex, max_rindex') <= Distance(rindex, windex)
      BY <1>3, <2>2 DEF Slots
  <2> HIDE DEF Step, Distance
  <2> QED BY <2>1, <2>3 DEF Reserved
<1>5. Seen'
    BY <1>3 DEF Types, Seen, Writers, Readers
<1> QED BY <1>1, <1>2, <1>4, <1>5

(* An index that is not yet a lap ahead moves one further away.            *)
LEMMA MovesOn ==
    ASSUME NEW i \in Slots, NEW j \in Slots, Distance(i, j) < Max - 1
    PROVE  Distance(i, Step(j)) = Distance(i, j) + 1 /\ i # Step(j)
<1>1. Distance(i, j) \in Slots /\ Step(j) \in Slots
    BY Distances, StepIs
<1>2. Distance(i, Step(j)) = IF Distance(i, j) = Max - 1 THEN 0 ELSE Distance(i, j) + 1
    BY Distances
<1>3. Distance(i, Step(j)) = 0 <=> i = Step(j)
    BY <1>1, Distances
<1> HIDE DEF Step, Distance
<1> QED BY <1>1, <1>2, <1>3, RingAssumption DEF Slots

LEMMA SwapWindexStep ==
    ASSUME Sound, NEW t \in Threads, SwapWindex(t)
    PROVE  Sound' \/ aba'
<1> USE DEF Sound, Producing, Consuming, Go, history, shared, locals, SwapWindex, Stay
<1>1. CASE Go(t, "read_w") /\ Forget(t) /\ UNCHANGED windex
  <2>1. Types'
      BY <1>1 DEF Types, Forget
  <2>2. Called'
      BY <1>1 DEF Types, Called
  <2>3. Reserved'
      BY <1>1 DEF Types, Reserved, Reserving
  <2>4. Seen'
      BY <1>1 DEF Types, Seen, Writers, Readers, Forget
  <2> QED BY <2>1, <2>2, <2>3, <2>4
<1>2. CASE moved[t] /\ Moved(t, Writers)
    BY <1>2 DEF Moved
<1>3. CASE /\ windex = w[t] /\ ~moved[t]
           /\ Moved(t, Writers)
           /\ windex' = Step(w[t])
           /\ Go(t, "write")
  <2>1. Types'
      BY <1>3, StepIs DEF Types, Moved
  <2>2. Called'
      BY <1>3 DEF Types, Called
  <2>3. Distance(rindex, windex) < Max - 1
      BY <1>3 DEF Seen
  <2>4. Distance(rindex, windex') = Distance(rindex, windex) + 1
      BY <2>3, <1>3, MovesOn DEF Types
  <2>5. \A i \in Slots : Distance(rindex, i) \in Slots
      BY Distances DEF Types
  <2>6. Reserved'
    <3>1. ASSUME NEW u \in Threads, u # t, pc'[u] \in Reserving
          PROVE  /\ pc[u] \in Reserving /\ w[u] # windex
                 /\ Distance(rindex, max_rindex) <= Distance(rindex, w[u])
                 /\ Distance(rindex, w[u]) < Distance(rindex, windex')
                 /\ pc'[u] = "publish" => bucket[w[u]] = req[u].data
      <4>1. pc[u] = pc'[u]
          BY <3>1, <1>3 DEF Types
      <4>2. /\ Distance(rindex, max_rindex) <= Distance(rindex, w[u])
            /\ Distance(rindex, w[u]) < Distance(rindex, windex)
            /\ pc[u] = "publish" => bucket[w[u]] = req[u].data
          BY <4>1, <3>1 DEF Reserved
      <4>3. Distance(rindex, w[u]) \in Slots /\ Distance(rindex, windex) \in Slots
          BY <2>5 DEF Types
      <4> HIDE DEF Step, Distance
      <4> QED BY <4>1, <4>2, <4>3, <2>4, <3>1, RingAssumption DEF Slots
    <3>2. /\ Distance(rindex, max_rindex) <= Distance(rindex, windex)
          /\ Distance(rindex, windex) < Distance(rindex, windex')
          /\ Distance(rindex, max_rindex) <= Distance(rindex, windex')
      <4>1. Distance(rindex, max_rindex) \in Slots /\ Distance(rindex, windex) \in Slots
          BY <2>5 DEF Types
      <4>2. Distance(rindex, max_rindex) <= Distance(rindex, windex)
          BY DEF Reserved
      <4> HIDE DEF Step, Distance
      <4> QED BY <4>1, <4>2, <2>4, RingAssumption DEF Slots
    <3>3. \A u \in Threads : w'[u] = w[u] /\ req'[u] = req[u]
        BY <1>3
    <3>4. pc'[t] = "write" /\ windex = w[t] /\ rindex' = rindex
              /\ max_rindex' = max_rindex /\ bucket' = bucket
        BY <1>3 DEF Types
    <3>5. \A u, v \in Threads : pc'[u] \in Reserving /\ pc'[v] \in Reserving
              /\ w'[u] = w'[v] => u = v
        BY <3>1, <3>3, <3>4 DEF Reserved
    <3> HIDE DEF Step, Distance
    <3> QED BY <3>1, <3>2, <3>3, <3>4, <3>5 DEF Reserved
  <2>7. Seen'
    <3>1. ASSUME NEW u \in Threads, u # t, u \in Writers
          PROVE  moved'[u]
        BY <1>3, <3>1 DEF Moved
    <3>2. \A u \in Threads : u # t => pc'[u] = pc[u]
        BY <1>3 DEF Types
    <3>3. pc'[t] = "write" /\ ~moved'[t]
        BY <1>3 DEF Types, Moved
    <3>4. \A u \in Threads : u # t /\ u \notin Writers => moved'[u] = moved[u]
        BY <1>3 DEF Types, Moved
    <3> HIDE DEF Distance
    <3> QED BY <3>1, <3>2, <3>3, <3>4, <1>3 DEF Seen, Writers, Readers
  <2> QED BY <2>1, <2>2, <2>6, <2>7
<1> QED BY <1>1, <1>2, <1>3

-----------------------------------------------------------------------------
(* A pointer is taken.                                                     *)

LEMMA SwapRindexStep ==
    ASSUME Sound, NEW t \in Threads, SwapRindex(t)
    PROVE  Sound' \/ aba'
<1> USE DEF Sound, Producing, Consuming, Go, history, shared, locals, SwapRindex
<1>1. CASE Go(t, "read_r") /\ Forget(t) /\ Stay /\ UNCHANGED rindex
  <2> USE <1>1 DEF Stay
  <2>1. Types'
      BY DEF Types, Forget
  <2>2. Called'
      BY DEF Types, Called
  <2>3. Reserved'
      BY DEF Types, Reserved, Reserving
  <2>4. Seen'
      BY DEF Types, Seen, Writers, Readers, Forget
  <2> QED BY <2>1, <2>2, <2>3, <2>4
<1>2. CASE moved[t] /\ Moved(t, Readers)
    BY <1>2 DEF Moved
<1>3. CASE /\ rindex = r[t] /\ ~moved[t]
           /\ Moved(t, Readers)
           /\ rindex' = Step(r[t])
           /\ Return(t, Fifo!Result("ok", p[t]))
  <2>1. Types'
      BY <1>3, StepIs, RingAssumption DEF Types, Moved, Return, Slots
  <2>2. Called'
      BY <1>3 DEF Types, Called, Return
  <2>3. ASSUME NEW i \in Slots, Distance(rindex, max_rindex) <= Distance(rindex, i)
        PROVE  Distance(rindex', i) = Distance(rindex, i) - 1 /\ Distance(rindex, i) \in Slots
    <3>1. rindex \in Slots /\ max_rindex \in Slots /\ rindex # max_rindex /\ rindex' = Step(rindex)
        BY <1>3 DEF Types, Seen
    <3> HIDE DEF Step, Distance
    <3>2. Distance(rindex, max_rindex) \in Slots /\ Distance(rindex, max_rindex) # 0
        BY <3>1, Distances
    <3>3. /\ Distance(rindex, i) \in Slots
          /\ Distance(rindex', i) = IF Distance(rindex, i) = 0 THEN Max - 1 ELSE Distance(rindex, i) - 1
        BY <3>1, Distances
    <3> QED BY <3>2, <3>3, <2>3, RingAssumption DEF Slots
  <2>4. /\ Distance(rindex', max_rindex) = Distance(rindex, max_rindex) - 1
        /\ Distance(rindex, max_rindex) \in Slots
        /\ Distance(rindex', windex) = Distance(rindex, windex) - 1
        /\ Distance(rindex, windex) \in Slots
    <3>1. Distance(rindex, max_rindex) \in Slots
        BY Distances DEF Types
    <3>2. Distance(rindex, max_rindex) <= Distance(rindex, max_rindex)
        BY <3>1 DEF Slots
    <3>3. Distance(rindex, max_rindex) <= Distance(rindex, windex)
        BY DEF Reserved
    <3> QED BY <2>3, <3>2, <3>3 DEF Types
  <2>5. \A u \in Threads : /\ pc'[u] \in Reserving => pc[u] = pc'[u] /\ u # t
                           /\ u # t => pc'[u] = pc[u] /\ w'[u] = w[u] /\ r'[u] = r[u]
                                       /\ p'[u] = p[u] /\ req'[u] = req[u]
      BY <1>3 DEF Types, Return, Reserving
  <2>6. pc'[t] = "idle" /\ ~moved'[t]
      BY <1>3 DEF Types, Return, Moved
  <2>7. Reserved'
    <3>1. Distance(rindex', max_rindex) <= Distance(rindex', windex)
      <4>1. Distance(rindex, max_rindex) <= Distance(rindex, windex)
          BY DEF Reserved
      <4> HIDE DEF Step, Distance
      <4> QED BY <4>1, <2>4, RingAssumption DEF Slots
    <3>2. ASSUME NEW u \in Threads, pc'[u] \in Reserving
          PROVE  /\ Distance(rindex', max_rindex) <= Distance(rindex', w[u])
                 /\ Distance(rindex', w[u]) < Distance(rindex', windex)
      <4>1. /\ Distance(rindex, max_rindex) <= Distance(rindex, w[u])
            /\ Distance(rindex, w[u]) < Distance(rindex, windex)
          BY <3>2, <2>5 DEF Reserved
      <4>2. /\ Distance(rindex', w[u]) = Distance(rindex, w[u]) - 1
            /\ Distance(rindex, w[u]) \in Slots
          BY <4>1, <2>3 DEF Types
      <4> HIDE DEF Step, Distance
      <4> QED BY <4>1, <4>2, <2>4, RingAssumption DEF Slots
    <3>3. \A u \in Threads : pc'[u] \in Reserving =>
            /\ pc[u] \in Reserving /\ w'[u] = w[u]
            /\ pc'[u] = "publish" => bucket[w[u]] = req[u].data /\ req'[u] = req[u]
        BY <2>5 DEF Reserved
    <3>4. max_rindex' = max_rindex /\ windex' = windex /\ bucket' = bucket
        OBVIOUS
    <3>5. \A u, v \in Threads : pc'[u] \in Reserving /\ pc'[v] \in Reserving
              /\ w'[u] = w'[v] => u = v
        BY <3>3 DEF Reserved
    <3> HIDE DEF Step, Distance
    <3> QED BY <3>1, <3>2, <3>3, <3>4, <3>5 DEF Reserved
  <2>8. Seen'
    <3>1. ASSUME NEW u \in Threads, u # t, u \in Readers
          PROVE  moved'[u]
        BY <1>3, <3>1 DEF Moved
    <3>2. \A u \in Threads : u # t /\ u \notin Readers => moved'[u] = moved[u]
        BY <1>3 DEF Types, Moved
    <3>3. windex' = windex /\ max_rindex' = max_rindex /\ bucket' = bucket
        OBVIOUS
    <3>4. Distance(rindex', windex) < Max - 1
      <4> HIDE DEF Step, Distance
      <4> QED BY <2>4, RingAssumption DEF Slots
    <3> HIDE DEF Distance
    <3> QED BY <3>1, <3>2, <3>3, <3>4, <2>5, <2>6 DEF Seen, Writers, Readers
  <2> QED BY <2>1, <2>2, <2>7, <2>8
<1> QED BY <1>1, <1>2, <1>3

LEMMA AbaStays ==
    ASSUME [Next]_vars, aba
    PROVE  aba'
<1> USE DEF history, Forget, Moved
<1>1. CASE UNCHANGED vars
    BY <1>1 DEF vars
<1>2. ASSUME NEW t \in Threads, Call(t) \/ Run(t) PROVE aba'
    BY <1>2 DEF Call, Run, ReadWindex, CheckFull, SwapWindex, WriteSlot, Publish,
                ReadRindex, CheckEmpty, CopySlot, SwapRindex
<1> QED BY <1>1, <1>2 DEF Next

LEMMA NextIInv == IInv /\ [Next]_vars => IInv'
<1> SUFFICES ASSUME Sound, [Next]_vars PROVE IInv'
    BY AbaStays DEF IInv
<1>1. CASE UNCHANGED vars
  <2>1. Sound'
      BY <1>1 DEF Sound, Types, Called, Reserved, Seen, Writers, Readers, vars, shared, locals,
                  history
  <2> QED BY <2>1 DEF IInv
<1>2. ASSUME NEW t \in Threads, Call(t) \/ Run(t) PROVE IInv'
    BY <1>2, CallStep, ReadWindexStep, CheckFullStep, SwapWindexStep, WriteSlotStep, PublishStep,
       ReadRindexStep, CheckEmptyStep, CopySlotStep, SwapRindexStep DEF Run, IInv
<1> QED BY <1>1, <1>2 DEF Next

LEMMA Inductive == Spec => []IInv
    BY InitSound, NextIInv, PTL DEF Spec, IInv

-----------------------------------------------------------------------------
(* The steps on the FIFO queue.                                            *)

Place(k) == (rindex + k - 1) % Max

LEMMA PlaceIs ==
    ASSUME Sound, NEW k \in 1 .. Max
    PROVE  Place(k) \in Slots /\ Distance(rindex, Place(k)) = k - 1
    BY Ahead DEF Sound, Types, Place

LEMMA PublishedSeq ==
    ASSUME Sound
    PROVE  /\ Published \in Seq(Data \cup {NoData})
           /\ Len(Published) = Distance(rindex, max_rindex)
           /\ \A k \in 1 .. Distance(rindex, max_rindex) : Published[k] = bucket[Place(k)]
           /\ Distance(rindex, max_rindex) \in 0 .. Max - 1
<1>1. Distance(rindex, max_rindex) \in 0 .. Max - 1
    BY Distances DEF Sound, Types, Slots
<1>2. \A k \in 1 .. Distance(rindex, max_rindex) : k \in 1 .. Max
    BY <1>1, RingAssumption
<1>3. \A k \in 1 .. Distance(rindex, max_rindex) : bucket[Place(k)] \in Data \cup {NoData}
    BY <1>2, PlaceIs DEF Sound, Types
<1>4. Published = [k \in 1 .. Distance(rindex, max_rindex) |-> bucket[Place(k)]]
    BY DEF Published, Place
<1> HIDE DEF Published, Distance, Place
<1> QED BY <1>1, <1>3, <1>4

LEMMA WriteSlotStutters ==
    ASSUME Sound, NEW t \in Threads, WriteSlot(t)
    PROVE  UNCHANGED <<Published, req, res>>
<1>1. Distance(rindex, max_rindex) <= Distance(rindex, w[t]) /\ w[t] \in Slots
    BY DEF WriteSlot, Sound, Types, Reserved, Reserving
<1>2. ASSUME NEW k \in 1 .. Distance(rindex, max_rindex)
      PROVE  bucket'[Place(k)] = bucket[Place(k)]
  <2>1. k \in 1 .. Max /\ k <= Distance(rindex, max_rindex)
      BY PublishedSeq, RingAssumption
  <2>2. Place(k) \in Slots /\ Distance(rindex, Place(k)) = k - 1
      BY <2>1, PlaceIs
  <2>3. Distance(rindex, w[t]) \in Slots /\ Distance(rindex, max_rindex) \in Slots
      BY Distances DEF Sound, Types
  <2>4. Place(k) # w[t]
    <3> HIDE DEF Place, Distance
    <3> QED BY <1>1, <2>1, <2>2, <2>3, RingAssumption DEF Slots
  <2> HIDE DEF Place
  <2> QED BY <2>2, <2>4 DEF WriteSlot, Sound, Types
<1>3. Published' = Published
    BY <1>2 DEF WriteSlot, Published, Place
<1> QED BY <1>3 DEF WriteSlot

LEMMA PublishPuts ==
    ASSUME Sound, NEW t \in Threads, Publish(t)
    PROVE  Fifo!Put(t)
<1>1. /\ max_rindex = w[t] /\ max_rindex' = Step(max_rindex) /\ UNCHANGED <<rindex, bucket>>
      /\ pc[t] = "publish"
    BY DEF Publish, PublishSlot
<1>2. /\ req[t].op = "enqueue_nb" /\ bucket[max_rindex] = req[t].data /\ req[t].data \in Data
      /\ Distance(rindex, max_rindex) < Distance(rindex, windex)
    BY <1>1 DEF Sound, Called, Reserved, Reserving, Producing
<1>3. /\ rindex \in Slots /\ max_rindex \in Slots
      /\ Distance(rindex, windex) \in Slots /\ Distance(rindex, max_rindex) \in Slots
    BY Distances DEF Sound, Types
<1> DEFINE d == Distance(rindex, max_rindex)
<1>4. d \in Nat /\ d < Max - 1
  <2> HIDE DEF Distance
  <2> QED BY <1>2, <1>3, RingAssumption DEF Slots
<1>5. Distance(rindex, max_rindex') = d + 1
    BY <1>1, <1>3, <1>4, MovesOn
<1>6. Place(d + 1) = max_rindex
  <2>1. d + 1 \in 1 .. Max
      BY <1>4, RingAssumption
  <2>2. Place(d + 1) \in Slots /\ Distance(rindex, Place(d + 1)) = d
      BY <2>1, <1>4, PlaceIs
  <2> HIDE DEF Place, d
  <2> QED BY <2>2, <1>3, Distances DEF d
<1>7. Published' = [k \in 1 .. d + 1 |-> bucket[Place(k)]]
    BY <1>1, <1>5 DEF Published, Place
<1>8. Published' = Append(Published, req[t].data)
  <2>1. /\ Published \in Seq(Data \cup {NoData}) /\ Len(Published) = d
        /\ \A k \in 1 .. d : Published[k] = bucket[Place(k)]
      BY PublishedSeq
  <2> HIDE DEF d, Place, Published
  <2>2. \A k \in 1 .. d : Append(Published, req[t].data)[k] = bucket[Place(k)]
      BY <2>1, <1>4
  <2>3. /\ Append(Published, req[t].data) = [k \in 1 .. d + 1 |-> Append(Published, req[t].data)[k]]
        /\ Append(Published, req[t].data)[d + 1] = req[t].data
      BY <2>1, <1>4
  <2>4. \A k \in 1 .. d + 1 : k \in 1 .. d \/ k = d + 1
      BY <1>4
  <2>5. Append(Published, req[t].data)[d + 1] = bucket[Place(d + 1)]
      BY <2>3, <1>2, <1>6
  <2>6. \A k \in 1 .. d + 1 : Append(Published, req[t].data)[k] = bucket[Place(k)]
      BY <2>2, <2>4, <2>5
  <2> QED BY <2>3, <2>6, <1>7
<1>9. Fifo!Return(t, Fifo!Result("ok", NoData))
    BY DEF Publish, Return, Fifo!Return
<1> QED BY <1>2, <1>4, <1>8, <1>9, PublishedSeq DEF Fifo!Put, Fifo!PutOps

LEMMA SwapTakes ==
    ASSUME Sound, NEW t \in Threads, SwapRindex(t), rindex = r[t], ~moved[t]
    PROVE  Fifo!Take(t)
<1>1. /\ rindex' = Step(rindex) /\ UNCHANGED <<max_rindex, bucket>> /\ pc[t] = "swap_r"
      /\ Return(t, Fifo!Result("ok", p[t]))
    BY DEF SwapRindex
<1>2. req[t].op = "dequeue_nb" /\ rindex # max_rindex /\ p[t] = bucket[rindex]
    BY <1>1 DEF Sound, Called, Seen, Consuming
<1>3. rindex \in Slots /\ max_rindex \in Slots /\ rindex' \in Slots
    BY <1>1, StepIs DEF Sound, Types
<1> DEFINE d == Distance(rindex, max_rindex)
<1>4. d \in Nat /\ 0 < d /\ d < Max
  <2>1. d \in Slots /\ d # 0
      BY <1>2, <1>3, Distances
  <2> HIDE DEF d
  <2> QED BY <2>1, RingAssumption DEF Slots
<1>5. Distance(rindex', max_rindex) = d - 1
    BY <1>1, <1>3, <1>4, Distances
<1>6. Place(1) = rindex
    BY <1>3, Remainder DEF Place, Slots
<1>7. ASSUME NEW k \in 1 .. d - 1
      PROVE  (rindex' + k - 1) % Max = Place(k + 1)
  <2> DEFINE i == (rindex' + k - 1) % Max
  <2>1. k \in 1 .. Max /\ k + 1 \in 1 .. Max
    <3> HIDE DEF d
    <3> QED BY <1>4, RingAssumption
  <2>2. i \in Slots /\ Distance(rindex', i) = k - 1
      BY <1>3, <2>1, Ahead
  <2>3. Place(k + 1) \in Slots /\ Distance(rindex, Place(k + 1)) = k
      BY <2>1, PlaceIs
  <2>4. Distance(rindex', i) = (IF Distance(rindex, i) = 0 THEN Max - 1 ELSE Distance(rindex, i) - 1)
            /\ Distance(rindex, i) \in Slots
      BY <1>1, <1>3, <2>2, Distances
  <2>5. Distance(rindex, i) = k
    <3> HIDE DEF i, d, Distance
    <3> QED BY <2>2, <2>4, <1>4, RingAssumption DEF Slots
  <2> HIDE DEF i, Place, d
  <2>6. i = Place(k + 1)
      BY <2>2, <2>3, <2>5, <1>3, Distances
  <2> QED BY <2>6 DEF i
<1>8. Published' = [k \in 1 .. d - 1 |-> bucket[Place(k + 1)]]
    BY <1>1, <1>5, <1>7 DEF Published
<1>9. Published' = Tail(Published) /\ Head(Published) = bucket[rindex] /\ Len(Published) > 0
  <2>1. /\ Published \in Seq(Data \cup {NoData}) /\ Len(Published) = d
        /\ \A k \in 1 .. d : Published[k] = bucket[Place(k)]
      BY PublishedSeq
  <2> HIDE DEF d, Place, Published
  <2>2. Published # <<>>
      BY <2>1, <1>4
  <2>3. Head(Published) = bucket[rindex]
      BY <2>1, <2>2, <1>4, <1>6
  <2>7. /\ Tail(Published) \in Seq(Data \cup {NoData}) /\ Len(Tail(Published)) = d - 1
         /\ \A k \in 1 .. Len(Tail(Published)) : Tail(Published)[k] = Published[k + 1]
      BY <2>1, <2>2, HeadTailProperties
  <2>4. /\ Tail(Published) = [k \in 1 .. d - 1 |-> Tail(Published)[k]]
        /\ \A k \in 1 .. d - 1 : Tail(Published)[k] = Published[k + 1]
    <3> DEFINE s == Tail(Published)
    <3> HIDE DEF s
    <3> QED BY <2>7, LenProperties DEF s
  <2>5. \A k \in 1 .. d - 1 : k + 1 \in 1 .. d
      BY <1>4
  <2>6. \A k \in 1 .. d - 1 : Tail(Published)[k] = bucket[Place(k + 1)]
      BY <2>1, <2>4, <2>5
  <2> QED BY <2>1, <2>3, <2>4, <2>6, <1>4, <1>8
<1>10. Fifo!Return(t, Fifo!Result("ok", Head(Published)))
    BY <1>1, <1>2, <1>9 DEF Return, Fifo!Return
<1> QED BY <1>2, <1>9, <1>10 DEF Fifo!Take, Fifo!TakeOps

FifoStep ==
    \/ \E t \in Threads : Fifo!Invoke(t) \/ Fifo!Put(t) \/ Fifo!Take(t) \/ Refused(t)
    \/ aba'

LEMMA NextIsFifo ==
    ASSUME Sound, [Next]_vars
    PROVE  [FifoStep]_<<Published, req, res>>
<1>1. ASSUME UNCHANGED shared, UNCHANGED <<req, res>> PROVE UNCHANGED <<Published, req, res>>
    BY <1>1 DEF shared, Published
<1>2. CASE UNCHANGED vars
    BY <1>1, <1>2 DEF vars
<1>3. ASSUME NEW t \in Threads, Call(t) PROVE FifoStep
  <2>1. UNCHANGED Published
      BY <1>3 DEF Call, shared, Published
  <2>2. req[t] = Fifo!NoReq
      BY <1>3 DEF Call, Sound, Called
  <2> QED BY <1>3, <2>1, <2>2 DEF Call, FifoStep, Fifo!Invoke
<1>4. ASSUME NEW t \in Threads, ReadWindex(t) \/ ReadRindex(t) \/ CopySlot(t)
      PROVE  UNCHANGED <<Published, req, res>>
    BY <1>1, <1>4 DEF ReadWindex, ReadRindex, CopySlot
<1>5. ASSUME NEW t \in Threads, pc[t] \in {"check_full", "check_empty"}, UNCHANGED shared,
             Return(t, Fifo!Result("refused", NoData))
      PROVE  FifoStep
  <2>1. UNCHANGED Published
      BY <1>5 DEF shared, Published
  <2>2. req[t].op \in Fifo!TryOps
      BY <1>5 DEF Sound, Called, Producing, Consuming, Fifo!TryOps
  <2> QED BY <1>5, <2>1, <2>2 DEF FifoStep, Refused, Return, Fifo!Return
<1>6. ASSUME NEW t \in Threads, CheckFull(t) PROVE [FifoStep]_<<Published, req, res>>
    BY <1>1, <1>5, <1>6 DEF CheckFull, Stay
<1>7. ASSUME NEW t \in Threads, CheckEmpty(t) PROVE [FifoStep]_<<Published, req, res>>
    BY <1>1, <1>5, <1>7 DEF CheckEmpty, Stay
<1>8. ASSUME NEW t \in Threads, SwapWindex(t) PROVE UNCHANGED <<Published, req, res>>
    BY <1>8 DEF SwapWindex, Stay, Published
<1>9. ASSUME NEW t \in Threads, SwapRindex(t) PROVE [FifoStep]_<<Published, req, res>>
  <2>1. CASE rindex = r[t] /\ ~moved[t]
      BY <1>9, <2>1, SwapTakes DEF FifoStep
  <2>2. CASE rindex = r[t] /\ moved[t]
      BY <1>9, <2>2 DEF SwapRindex, Moved, FifoStep
  <2>3. CASE rindex # r[t]
      BY <1>9, <2>3 DEF SwapRindex, Stay, Published
  <2> QED BY <2>1, <2>2, <2>3
<1>10. ASSUME NEW t \in Threads, WriteSlot(t) PROVE UNCHANGED <<Published, req, res>>
    BY <1>10, WriteSlotStutters
<1>11. ASSUME NEW t \in Threads, Publish(t) PROVE FifoStep
    BY <1>11, PublishPuts DEF FifoStep
<1> HIDE DEF FifoStep
<1> QED BY <1>2, <1>3, <1>4, <1>6, <1>7, <1>8, <1>9, <1>10, <1>11 DEF Next, Run

LEMMA InitIsFifo == Init => Fifo!Init
<1> SUFFICES ASSUME Init PROVE Published = <<>>
    BY DEF Init, Fifo!Init
<1>1. Sound
    BY InitSound
<1>2. Distance(rindex, max_rindex) = 0
    BY <1>1, Distances DEF Init, Sound, Types
<1> HIDE DEF Published
<1> QED BY <1>1, <1>2, PublishedSeq

(* However many threads meet on however many slots, and wherever each is   *)
(* between its reads and its swaps: as long as no swap has taken an index  *)
(* that has come round for the one its thread read, no pointer is lost,    *)
(* handed out twice or out of turn, or handed out before it is written.    *)
THEOREM RingIsFifo == Spec => ImplementsFifo
<1>1. IInv /\ [Next]_vars => [FifoStep]_<<Published, req, res>>
    BY NextIsFifo, AbaStays DEF IInv, FifoStep
<1> QED BY <1>1, InitIsFifo, Inductive, PTL DEF Spec, ImplementsFifo, FifoStep
=============================================================================
