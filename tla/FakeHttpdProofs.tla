--------------------------- MODULE FakeHttpdProofs ---------------------------
(***************************************************************************)
(* Theorems about FakeHttpd, for any number of workers, every size of the  *)
(* buffers, the header and the padding, and whatever the peer says and     *)
(* takes.                                                                  *)
(***************************************************************************)
EXTENDS FakeHttpd, Integers, TLAPS

(* What has been told and sent of the answer, state by state.              *)
Sent ==
    /\ state \in {"ST_RECV", "ST_PREPARE_HEADER"} =>
         announced = 0 /\ sentHeader = 0 /\ sentBody = 0
    /\ state = "ST_SEND_HEADER" =>
         announced = length /\ sentBody = 0 /\ sentHeader + header_len = HeaderLen
    /\ state = "ST_SEND_BODY" =>
         sentBody + length = announced /\ sentHeader = HeaderLen
    /\ state = "ST_Ex" => failed

Running(w) == at[w] = "running"

(* The timer is set only for the wait that is about to end, or going on,   *)
(* and is off while the imp is driven.                                     *)
Timed ==
    /\ timer # "off" => armedIn = state
    /\ \A w \in Workers : Running(w) => timer = "off" /\ (timedout => armedIn = state)
    /\ ~misused => \A w, u \in Workers : Running(w) /\ Running(u) => w = u

Types ==
    /\ state \in States /\ length \in Nat /\ header_len \in Nat
    /\ announced \in Nat /\ sentHeader \in Nat /\ sentBody \in Nat
    /\ unread \in Nat /\ inflight \in Nat
    /\ at = [w \in Workers |-> at[w]]

IInv == Types /\ Sent /\ ReplyIsWhole /\ Timed

LEMMA InitIInv == Init => IInv
    BY SizesAssumption
       DEF Init, IInv, Types, States, Sent, ReplyIsWhole, Timed, Running

LEMMA LeastOf ==
    ASSUME NEW a \in Nat, NEW b \in Int, NEW k \in 1 .. Least(a, b)
    PROVE  k \in Nat /\ k <= a /\ k <= b
    BY DEF Least

Answer == <<state, length, header_len, unread, inflight, announced, sentHeader, sentBody, failed>>

LEMMA KeepsAnswer ==
    ASSUME Types, Sent, ReplyIsWhole, UNCHANGED Answer, at' = [w \in Workers |-> at'[w]]
    PROVE  Types' /\ Sent' /\ ReplyIsWhole'
    BY DEF Types, Sent, ReplyIsWhole, Answer

(* Whoever leaves state and clock alone keeps the clock right, unless a    *)
(* worker begins to drive.                                                 *)
LEMMA KeepsTimed ==
    ASSUME Timed, UNCHANGED <<state, armedIn, timedout, misused>>,
           timer' \in {timer, "off"} \/ (timer = "armed" /\ timer' = "expired"),
           \A w \in Workers : Running(w)' => Running(w)
    PROVE  Timed'
    BY DEF Timed

(* The peer, the epoller and the maintainer leave the answer alone.        *)
LEMMA OutsideStep ==
    ASSUME IInv, Say \/ HangUp \/ Expire \/ Epoller \/ echo_delete
    PROVE  IInv'
<1>1. UNCHANGED <<state, length, header_len, unread, announced, sentHeader, sentBody, failed>>
    BY DEF Say, HangUp, Expire, Epoller, epoll_wait, imp_cancel_timer, imp_wake, echo_delete, mem, reply
<1>2. UNCHANGED <<at, armedIn, timedout, misused>>
    BY DEF Say, HangUp, Expire, Epoller, epoll_wait, imp_cancel_timer, imp_wake, echo_delete,
           sched, grave, clock
<1>3. timer' \in {timer, "off"} \/ (timer = "armed" /\ timer' = "expired")
    BY DEF Say, HangUp, Expire, Epoller, epoll_wait, imp_cancel_timer, imp_wake, echo_delete, clock
<1>4. inflight' \in Nat
    BY DEF Say, HangUp, Expire, Epoller, epoll_wait, imp_cancel_timer, imp_wake, echo_delete, IInv, Types
<1>5. Timed'
    BY <1>1, <1>2, <1>3, KeepsTimed DEF IInv, Running
<1> QED BY <1>1, <1>2, <1>4, <1>5 DEF IInv, Types, Sent, ReplyIsWhole

LEMMA HearStep == IInv /\ Hear => IInv'
    BY KeepsTimed
       DEF IInv, Hear, Types, Sent, ReplyIsWhole, Running, mem, reply, sched, grave, clock

(* The next step of a thread that has the freed imp changes nothing else.  *)
LEMMA UseFreedStep == IInv /\ UseFreed => IInv'
    BY DEF IInv, UseFreed, Types, Sent, ReplyIsWhole, Timed, Running, mem, reply, sched, clock

(* What a worker does about the imp besides driving it.                    *)
LEMMA AroundStep ==
    ASSUME IInv, NEW w \in Workers, queue_dequeue(w) \/ ArmRequest(w) \/ Yields(w)
    PROVE  IInv'
<1>1. UNCHANGED <<Answer, timer, armedIn, timedout, misused>>
    BY DEF queue_dequeue, ArmRequest, Yields, Answer, mem, reply, grave, clock
<1>2. PICK p \in {"idle", "fetched", "armed"} : at' = [at EXCEPT ![w] = p]
    BY DEF queue_dequeue, ArmRequest, Yields
<1>3. at' = [v \in Workers |-> at'[v]] /\ \A v \in Workers : Running(v)' => Running(v)
    BY <1>2 DEF IInv, Types, Running
<1>4. Timed'
    BY <1>1, <1>3, KeepsTimed DEF IInv, Answer
<1> QED BY <1>1, <1>3, <1>4, KeepsAnswer DEF IInv

LEMMA ReductStep ==
    ASSUME IInv, NEW w \in Workers, imp_reduct_event_mask(w)
    PROVE  IInv'
<1>1. UNCHANGED <<Answer, armedIn>>
    BY DEF imp_reduct_event_mask, Answer, mem, reply
<1>2. at' = [at EXCEPT ![w] = "running"]
    BY DEF imp_reduct_event_mask
<1>3. at' = [v \in Workers |-> at'[v]] /\ \A v \in Workers : Running(v)' => v = w \/ Running(v)
    BY <1>2 DEF IInv, Types, Running
<1>4. timer' = "off" /\ (timedout' => armedIn' = state')
    BY <1>1 DEF imp_reduct_event_mask, IInv, Timed, Answer
<1>5. ~misused' => \A v, u \in Workers : Running(v)' /\ Running(u)' => v = u
    BY <1>3 DEF imp_reduct_event_mask, Running
<1>6. Timed'
    BY <1>4, <1>5 DEF Timed
<1> QED BY <1>1, <1>3, <1>6, KeepsAnswer DEF IInv

(* A drive that goes on, or blocks, keeps the clock right.                 *)
LEMMA DriveTimed ==
    ASSUME IInv, ~misused, NEW w \in Workers, Running(w), UNCHANGED <<timedout, misused>>,
           \/ \E s \in States : GoOn(w, s)
           \/ \E ev \in {"EPOLLIN", "EPOLLOUT"} : Blocks(w, ev)
           \/ at' = [at EXCEPT ![w] = "idle"] /\ UNCHANGED <<state, clock>>
    PROVE  Timed' /\ at' = [v \in Workers |-> at'[v]]
<1>1. \E p \in {"idle", "arming"} : at' = [at EXCEPT ![w] = p]
    BY DEF GoOn, Blocks
<1>2. at' = [v \in Workers |-> at'[v]] /\ \A v \in Workers : ~Running(v)'
    BY <1>1 DEF IInv, Types, Timed, Running
<1>3. timer' # "off" => armedIn' = state'
    BY DEF IInv, Timed, GoOn, Blocks, clock, Running
<1> QED BY <1>2, <1>3 DEF Timed

LEMMA DriveStep ==
    ASSUME IInv, ~misused, NEW w \in Workers, echo_driver(w)
    PROVE  IInv'
<1> USE SizesAssumption
        DEF IInv, Types, States, Kept, Drives, mem, reply, grave, Running
<1>2. CASE ToEx(w)
  <2>1. Timed' /\ at' = [v \in Workers |-> at'[v]]
      BY <1>2, DriveTimed DEF ToEx
  <2> QED BY <1>2, <2>1 DEF ToEx, GoOn, Sent, ReplyIsWhole
<1>3. CASE Recv(w)
  <2>1. Timed' /\ at' = [v \in Workers |-> at'[v]]
      BY <1>3, DriveTimed DEF Recv
  <2>2. /\ length' \in Nat /\ inflight' \in Nat
        /\ state' \in {"ST_RECV", "ST_PREPARE_HEADER", "ST_TERM"}
      BY <1>3, LeastOf DEF Recv, GoOn, Blocks
  <2> QED BY <1>3, <2>1, <2>2 DEF Recv, Sent, ReplyIsWhole
<1>4. CASE PrepareHeader(w)
  <2>1. Timed' /\ at' = [v \in Workers |-> at'[v]]
      BY <1>4, DriveTimed DEF PrepareHeader
  <2> QED BY <1>4, <2>1 DEF PrepareHeader, GoOn, Sent, ReplyIsWhole
<1>5. CASE SendHeader(w)
  <2>1. Timed' /\ at' = [v \in Workers |-> at'[v]]
      BY <1>5, DriveTimed DEF SendHeader
  <2>2. CASE unread = SockBuf /\ Blocks(w, "EPOLLOUT") /\ UNCHANGED <<unread, header_len, sentHeader>>
      BY <1>5, <2>1, <2>2 DEF SendHeader, Blocks, Sent, ReplyIsWhole
  <2>3. ASSUME NEW k \in 1 .. Least(header_len, SockBuf - unread),
               unread' = unread + k, header_len' = header_len - k,
               sentHeader' = sentHeader + k,
               GoOn(w, IF header_len = k THEN "ST_SEND_BODY" ELSE state)
        PROVE  IInv'
    <3>1. k \in Nat /\ k <= header_len
        BY LeastOf
    <3> QED BY <1>5, <2>1, <2>3, <3>1 DEF SendHeader, GoOn, Sent, ReplyIsWhole
  <2> QED BY <1>5, <2>2, <2>3 DEF SendHeader
<1>6. CASE SendBody(w)
  <2>1. Timed' /\ at' = [v \in Workers |-> at'[v]]
      BY <1>6, DriveTimed DEF SendBody
  <2>2. CASE unread = SockBuf /\ Blocks(w, "EPOLLOUT") /\ UNCHANGED <<unread, length, sentBody>>
      BY <1>6, <2>1, <2>2 DEF SendBody, Blocks, Sent, ReplyIsWhole
  <2>3. ASSUME NEW k \in 1 .. Least(Least(Padding, length), SockBuf - unread),
               unread' = unread + k, length' = length - k, sentBody' = sentBody + k,
               GoOn(w, IF length = k THEN "ST_TERM" ELSE state)
        PROVE  IInv'
    <3>1. k \in Nat /\ k <= length
        BY DEF Least
    <3> QED BY <1>6, <2>1, <2>3, <3>1 DEF SendBody, GoOn, Sent, ReplyIsWhole
  <2> QED BY <1>6, <2>2, <2>3 DEF SendBody
<1>7. CASE Fails(w)
  <2>1. Timed' /\ at' = [v \in Workers |-> at'[v]]
      BY <1>7, DriveTimed DEF Fails
  <2> QED BY <1>7, <2>1 DEF Fails, GoOn, Sent, ReplyIsWhole
<1>8. CASE Terminates(w)
  <2>1. Timed' /\ at' = [v \in Workers |-> at'[v]]
      BY <1>8, DriveTimed DEF Terminates
  <2> QED BY <1>8, <2>1 DEF Terminates, Sent, ReplyIsWhole
<1> QED BY <1>2, <1>3, <1>4, <1>5, <1>6, <1>7, <1>8 DEF echo_driver

LEMMA Inductive == Spec => []IInv
<1>1. IInv /\ UNCHANGED vars => IInv'
    BY DEF IInv, Types, Sent, ReplyIsWhole, Timed, Running, vars,
           mem, reply, sched, grave, clock
<1>2. IInv /\ [Next]_vars => IInv'
    BY <1>1, OutsideStep, HearStep, UseFreedStep, AroundStep, ReductStep, DriveStep
       DEF Next, Worker, imp_driver
<1> QED BY <1>2, InitIInv, PTL DEF Spec

(* Whatever the sizes, and however the kernel splits what is sent, an      *)
(* answer that is not cut short has the length its header announces.       *)
THEOREM AnswerIsWhole == Spec => []ReplyIsWhole
    BY Inductive, PTL DEF IInv

(* No time-out is taken for that of another wait, whichever workers drive  *)
(* the imp.                                                                *)
THEOREM TimeoutsAreOwn == Spec => []TimeoutIsItsOwn
    <1>1. IInv => TimeoutIsItsOwn
    BY DEF IInv, Timed, TimeoutIsItsOwn, Running
<1> QED BY <1>1, Inductive, PTL
=============================================================================
