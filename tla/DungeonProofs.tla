--------------------------- MODULE DungeonProofs ---------------------------
(***************************************************************************)
(* Theorems about Dungeon, for every set of imps and of workers, every     *)
(* limit nr_max, every behaviour of the souls and whatever they ask for.   *)
(*                                                                         *)
(* Until a race an imp is in one place at a time: in a queue, asleep, in   *)
(* the hands of the epoller, of its summoner or of one worker; only the    *)
(* worker that arms an imp may still be at it when it is awake again.      *)
(* Safe says so, and what the properties except is where it ends.          *)
(***************************************************************************)
EXTENDS Dungeon, FiniteSetTheorems, TLAPS

(* A thread that is past fetching an imp holds one.                        *)
Holding ==
    /\ \A w \in Workers : /\ pc[w] # "idle" => cur[w] \in Imps
                          /\ pc[w] = "poll" => job[w] \in Kinds
    /\ \A a \in Actors : spc[a] = "run" => child[a] \in Imps
    /\ epc # "wait" => ecur \in Imps

IInv == TypeOK /\ Holding

LEMMA QueueType ==
    ASSUME NEW q \in Seq(Imps), NEW i \in Imps
    PROVE  /\ Append(q, i) \in Seq(Imps)
           /\ q # <<>> => Head(q) \in Imps /\ Tail(q) \in Seq(Imps)
    OBVIOUS

LEMMA InitIInv == Init => IInv
<1> SUFFICES ASSUME Init PROVE IInv
    OBVIOUS
<1>1. Holding
    BY DEF Init, Holding
<1>2. /\ mem \in [Imps -> {"none", "live", "freed"}]
      /\ waitio \in [Imps -> BOOLEAN]
      /\ requested \in [Imps -> SUBSET Kinds]
      /\ mask \in [Imps -> SUBSET {"KILL", "TIMER"}]
      /\ timer \in [Imps -> {"off", "set", "expired"}]
      /\ fdready \in [Imps -> BOOLEAN]
      /\ armed \in [Imps -> SUBSET Kinds]
      /\ kread \in [Imps -> SUBSET SUBSET {"KILL", "TIMER"}]
    BY DEF Init
<1>3. /\ run_queue \in Seq(Imps) /\ terminated_queue \in Seq(Imps)
      /\ nr_total \in Int /\ nr_waitio \in Int
      /\ epc \in {"wait", "cas", "wake", "run", "woken"}
      /\ batch \in SUBSET (Imps \X Kinds) /\ ecur \in Imps \cup {NoImp}
      /\ mpc \in {"drain", "decrease", "sleep"} /\ pending_event \in BOOLEAN
  <2>1. run_queue = <<>> /\ terminated_queue = <<>> /\ <<>> \in Seq(Imps)
      BY DEF Init
  <2>2. nr_total \in Int /\ nr_waitio \in Int
      BY DEF Init
  <2>3. batch = {} /\ {} \in SUBSET (Imps \X Kinds)
      BY DEF Init
  <2>4. /\ epc \in {"wait", "cas", "wake", "run", "woken"} /\ ecur \in Imps \cup {NoImp}
        /\ mpc \in {"drain", "decrease", "sleep"} /\ pending_event \in BOOLEAN
      BY DEF Init
  <2> QED BY <2>1, <2>2, <2>3, <2>4
<1>4. /\ pc \in [Workers -> Labels]
      /\ cur \in [Workers -> Imps \cup {NoImp}]
      /\ job \in [Workers -> Kinds \cup {"none"}]
      /\ slept \in [Workers -> BOOLEAN]
      /\ spc \in [Actors -> {"none", "new", "run"}]
      /\ child \in [Actors -> Imps \cup {NoImp}]
      /\ raced \in BOOLEAN
    BY DEF Init, Labels
<1> QED BY <1>1, <1>2, <1>3, <1>4 DEF IInv, TypeOK

(* What every action but its own part leaves unchanged.                    *)
LEMMA Idle == IInv /\ UNCHANGED vars => IInv'
    BY DEF IInv, TypeOK, Holding, vars, body, queues, counts, workers, summons, epoller, maint

LEMMA SummonStep ==
    ASSUME IInv, NEW a \in Actors, Summon(a)
    PROVE  IInv'
<1> USE ImpsAssumption, SummonAssumption
        DEF IInv, TypeOK, Holding, body, queues, counts, workers, summons, epoller, maint
<1>1. CASE SummonCheck(a)
    BY <1>1 DEF SummonCheck
<1>2. CASE imp_new(a)
  <2>1. ASSUME NEW i \in MaySummon[a],
               mem' = [mem EXCEPT ![i] = "live"],
               child' = [child EXCEPT ![a] = i],
               nr_total' = nr_total + 1, spc' = [spc EXCEPT ![a] = "run"],
               raced' = (raced \/ nr_total >= nr_max)
        PROVE  IInv'
    <3>1. i \in Imps
        BY SummonAssumption
    <3> QED BY <1>2, <2>1, <3>1 DEF imp_new
  <2>2. CASE spc' = [spc EXCEPT ![a] = "none"] /\ UNCHANGED <<mem, child, nr_total, raced>>
      BY <1>2, <2>2 DEF imp_new
  <2> QED BY <1>2, <2>1, <2>2 DEF imp_new
<1>3. CASE SummonRun(a)
    BY <1>3, QueueType DEF SummonRun, imp_run
<1> QED BY <1>1, <1>2, <1>3 DEF Summon

(* A worker with an imp goes on with it.                                   *)
LEMMA WorkerGoesOn ==
    ASSUME IInv, NEW w \in Workers, NEW label \in Labels \ {"poll"},
           pc[w] # "idle", Go(w, label), UNCHANGED <<cur, job, summons, epc, ecur>>
    PROVE  pc' \in [Workers -> Labels] /\ Holding'
<1>1. pc' \in [Workers -> Labels]
    BY DEF IInv, TypeOK, Go
<1>2. \A v \in Workers : pc'[v] = IF v = w THEN label ELSE pc[v]
    BY DEF IInv, TypeOK, Go
<1> QED BY <1>1, <1>2 DEF IInv, Holding, summons

LEMMA WorkerStep ==
    ASSUME IInv, NEW w \in Workers, Worker(w)
    PROVE  IInv'
<1> USE ImpsAssumption, RequestsAssumption
        DEF IInv, TypeOK, body, queues, counts, workers, summons, epoller, maint
<1> DEFINE GoesOn(label) == /\ label \in Labels \ {"poll"} /\ pc[w] # "idle" /\ Go(w, label)
                            /\ UNCHANGED <<cur, job, summons, epc, ecur>>
<1>0. ASSUME NEW label, GoesOn(label) PROVE pc' \in [Workers -> Labels] /\ Holding'
    BY <1>0, WorkerGoesOn
<1> HIDE DEF GoesOn
<1>1. CASE Fetch(w)
  <2>1. run_queue' \in Seq(Imps) /\ Head(run_queue) \in Imps
      BY <1>1, QueueType DEF Fetch
  <2>2. pc' \in [Workers -> Labels] /\ cur' \in [Workers -> Imps \cup {NoImp}]
      BY <1>1, <2>1 DEF Fetch, Go, Labels
  <2>3. Holding'
      BY <1>1, <2>1 DEF Fetch, Go, Holding
  <2> QED BY <1>1, <2>1, <2>2, <2>3 DEF Fetch
<1>2. CASE Reduct(w)
  <2>1. mask' \in [Imps -> SUBSET {"KILL", "TIMER"}]
      BY <1>2 DEF Reduct
  <2>2. timer' \in [Imps -> {"off", "set", "expired"}]
      BY <1>2 DEF Reduct
  <2>3. GoesOn("check")
      BY <1>2 DEF Reduct, GoesOn, Labels
  <2> QED BY <1>2, <2>1, <2>2, <2>3, <1>0 DEF Reduct
<1>3. CASE CheckKill(w)
  <2>1. waitio' \in [Imps -> BOOLEAN]
      BY <1>3 DEF CheckKill
  <2>2. GoesOn("term") \/ GoesOn("alert")
      BY <1>3 DEF CheckKill, GoesOn, Labels
  <2> QED BY <1>3, <2>1, <2>2, <1>0 DEF CheckKill
<1>4. CASE CheckAlert(w)
  <2>1. GoesOn("term") \/ GoesOn("drive")
      BY <1>4 DEF CheckAlert, GoesOn, Labels
  <2> QED BY <1>4, <2>1, <1>0 DEF CheckAlert
<1>5. CASE SoulTerm(w)
  <2>1. GoesOn("term")
      BY <1>5 DEF SoulTerm, GoesOn, Labels
  <2> QED BY <1>5, <2>1, <1>0 DEF SoulTerm
<1>6. CASE SoulYield(w)
  <2>1. PICK r \in Requests[cur[w]] :
          /\ \E appended \in SUBSET r :
                requested' = [requested EXCEPT ![cur[w]] = @ \cup appended]
          /\ timer' = IF "timer" \in r THEN [timer EXCEPT ![cur[w]] = "set"] ELSE timer
          /\ fdready' = IF "io" \in r THEN [fdready EXCEPT ![cur[w]] = FALSE] ELSE fdready
      BY <1>6 DEF SoulYield
  <2>2. requested' \in [Imps -> SUBSET Kinds]
    <3>1. PICK appended \in SUBSET r :
             requested' = [requested EXCEPT ![cur[w]] = @ \cup appended]
        BY <2>1
    <3>2. appended \subseteq Kinds /\ cur[w] \in Imps
        BY <1>6 DEF SoulYield, Holding
    <3>3. requested[cur[w]] \cup appended \in SUBSET Kinds
        BY <3>2
    <3> QED BY <3>1, <3>3
  <2>3. timer' \in [Imps -> {"off", "set", "expired"}]
      BY <2>1
  <2>4. fdready' \in [Imps -> BOOLEAN]
      BY <2>1
  <2>5. GoesOn("arm")
      BY <1>6 DEF SoulYield, GoesOn, Labels
  <2> QED BY <1>6, <2>2, <2>3, <2>4, <2>5, <1>0 DEF SoulYield
<1>7. CASE ArmNext(w)
  <2>1. PICK k \in requested[cur[w]] :
          /\ requested' = [requested EXCEPT ![cur[w]] = @ \ {k}]
          /\ job' = [job EXCEPT ![w] = k]
      BY <1>7 DEF ArmNext
  <2>2. cur[w] \in Imps
      BY <1>7 DEF ArmNext, Holding
  <2>3. k \in Kinds /\ requested[cur[w]] \ {k} \in SUBSET Kinds
      BY <2>2
  <2>4. requested' \in [Imps -> SUBSET Kinds]
      BY <2>1, <2>3
  <2>5. waitio' \in [Imps -> BOOLEAN] /\ slept' \in [Workers -> BOOLEAN]
      BY <1>7 DEF ArmNext
  <2>6. job' \in [Workers -> Kinds \cup {"none"}] /\ job'[w] \in Kinds
      BY <2>1, <2>3
  <2>7. pc[w] = "arm" /\ pc' = [pc EXCEPT ![w] = "poll"] /\ cur' = cur
      BY <1>7 DEF ArmNext, Go
  <2>8. \A v \in Workers \ {w} : pc'[v] = pc[v] /\ job'[v] = job[v]
      BY <2>1, <2>7
  <2>9. \A v \in Workers : /\ pc'[v] # "idle" => cur'[v] \in Imps
                           /\ pc'[v] = "poll" => job'[v] \in Kinds
      BY <2>2, <2>6, <2>7, <2>8 DEF Holding
  <2>10. pc' \in [Workers -> Labels]
      BY <2>7 DEF Labels
  <2>11. Holding'
      BY <1>7, <2>9 DEF ArmNext, Holding
  <2> QED BY <1>7, <2>4, <2>5, <2>6, <2>10, <2>11 DEF ArmNext
<1>8. CASE set_poll_action(w)
  <2>1. armed' \in [Imps -> SUBSET Kinds]
    <3>1. armed[cur[w]] \cup {job[w]} \in SUBSET Kinds
        BY <1>8 DEF set_poll_action, Holding
    <3>2. armed' = [armed EXCEPT ![cur[w]] = armed[cur[w]] \cup {job[w]}] \/ armed' = armed
        BY <1>8 DEF set_poll_action, Enable
    <3> QED BY <3>1, <3>2
  <2>2. pc' = [pc EXCEPT ![w] = "arm"] /\ job' = [job EXCEPT ![w] = "none"] /\ pc[w] = "poll"
      BY <1>8 DEF set_poll_action, Go
  <2>3. pc' \in [Workers -> Labels] /\ job' \in [Workers -> Kinds \cup {"none"}]
      BY <2>2 DEF Labels
  <2>4. Holding'
      BY <1>8, <2>2 DEF set_poll_action, Holding
  <2> QED BY <1>8, <2>1, <2>3, <2>4 DEF set_poll_action
<1>9. CASE ArmEnd(w)
  <2>1. GoesOn("count") \/ GoesOn("rerun")
      BY <1>9 DEF ArmEnd, GoesOn, Labels
  <2> QED BY <1>9, <2>1, <1>0 DEF ArmEnd
<1>10. CASE imp_term(w)
  <2>1. GoesOn("wakeup")
      BY <1>10 DEF imp_term, AfterTerm, GoesOn, Labels
  <2>2. terminated_queue' \in Seq(Imps)
      BY <1>10, QueueType DEF imp_term, to_terminated, Holding
  <2> QED BY <1>10, <2>1, <2>2, <1>0 DEF imp_term, AfterTerm
<1>11. CASE CountSleeper(w)
  <2>1. nr_waitio' \in Int /\ slept' \in [Workers -> BOOLEAN]
      BY <1>11 DEF CountSleeper, Slept
  <2>2. GoesOn("yielded")
      BY <1>11 DEF CountSleeper, GoesOn, Labels
  <2> QED BY <1>11, <2>1, <2>2, <1>0 DEF CountSleeper
<1>12. CASE Rerun(w)
  <2>1. run_queue' \in Seq(Imps)
      BY <1>12, QueueType DEF Rerun, imp_run, Holding
  <2>2. GoesOn("yielded")
      BY <1>12 DEF Rerun, GoesOn, Labels
  <2> QED BY <1>12, <2>1, <2>2, <1>0 DEF Rerun
<1>13. CASE thr_maintainer_wakeup(w)
  <2>1. GoesOn("yielded")
      BY <1>13 DEF thr_maintainer_wakeup, GoesOn, Labels
  <2> QED BY <1>13, <2>1, <1>0 DEF thr_maintainer_wakeup
<1>14. CASE Yielded(w)
  <2>1. pc' = [pc EXCEPT ![w] = "idle"] /\ cur' = [cur EXCEPT ![w] = NoImp]
      BY <1>14 DEF Yielded, Go
  <2>2. pc' \in [Workers -> Labels] /\ cur' \in [Workers -> Imps \cup {NoImp}] /\ Holding'
      BY <1>14, <2>1 DEF Yielded, Labels, Holding
  <2> QED BY <1>14, <2>2 DEF Yielded
<1> QED BY <1>1, <1>2, <1>3, <1>4, <1>5, <1>6, <1>7, <1>8, <1>9, <1>10, <1>11, <1>12, <1>13, <1>14
       DEF Worker

LEMMA EpollerStep == IInv /\ Epoller => IInv'
<1> SUFFICES ASSUME IInv, Epoller PROVE IInv'
    OBVIOUS
<1> USE DEF IInv, TypeOK, Holding, body, queues, counts, workers, summons, epoller, maint
<1>1. CASE epoll_wait
    BY <1>1 DEF epoll_wait
<1>2. CASE imp_cancel_timer
    BY <1>2 DEF imp_cancel_timer
<1>3. CASE WakeCas
    BY <1>3 DEF WakeCas, Woken
<1>4. CASE WakeCount
    BY <1>4 DEF WakeCount
<1>5. CASE WakeRun
    BY <1>5, QueueType DEF WakeRun, imp_run
<1>6. CASE WakeEnd
    BY <1>6 DEF WakeEnd
<1> QED BY <1>1, <1>2, <1>3, <1>4, <1>5, <1>6 DEF Epoller

LEMMA MaintainerStep == IInv /\ Maintainer => IInv'
<1> SUFFICES ASSUME IInv, Maintainer PROVE IInv'
    OBVIOUS
<1> USE DEF IInv, TypeOK, Holding, body, queues, counts, workers, summons, epoller, maint
<1>1. CASE imp_dismiss
    BY <1>1, QueueType DEF imp_dismiss
<1>2. CASE Decrease
    BY <1>2 DEF Decrease
<1>3. CASE Drained
    BY <1>3 DEF Drained
<1>4. CASE PendingEvent
    BY <1>4 DEF PendingEvent
<1> QED BY <1>1, <1>2, <1>3, <1>4 DEF Maintainer

LEMMA OutsideStep ==
    ASSUME IInv, NEW i \in Imps, TimerExpires(i) \/ IoArrives(i) \/ imp_kill(i)
    PROVE  IInv'
<1> USE DEF IInv, TypeOK, Holding, body, queues, counts, workers, summons, epoller, maint
<1>1. CASE TimerExpires(i)
    BY <1>1 DEF TimerExpires
<1>2. CASE IoArrives(i)
    BY <1>2 DEF IoArrives
<1>3. CASE imp_kill(i)
  <2>1. kread' \in [Imps -> SUBSET SUBSET {"KILL", "TIMER"}]
    <3>1. {} \in SUBSET SUBSET {"KILL", "TIMER"} /\ {mask[i]} \in SUBSET SUBSET {"KILL", "TIMER"}
        OBVIOUS
    <3>2. kread' = [kread EXCEPT ![i] = {}] \/ kread' = [kread EXCEPT ![i] = {mask[i]}]
        BY <1>3 DEF imp_kill, KillRead, KillWrite
    <3> QED BY <3>1, <3>2
  <2>2. mask' \in [Imps -> SUBSET {"KILL", "TIMER"}]
    <3>1. CASE KillRead(i)
        BY <3>1 DEF KillRead
    <3>2. ASSUME KillWrite(i) PROVE mask' \in [Imps -> SUBSET {"KILL", "TIMER"}]
      <4>1. PICK m \in kread[i] : mask' = [mask EXCEPT ![i] = m \cup {"KILL"}]
          BY <3>2 DEF KillWrite
      <4>2. kread[i] \in SUBSET SUBSET {"KILL", "TIMER"}
          OBVIOUS
      <4>3. m \cup {"KILL"} \in SUBSET {"KILL", "TIMER"}
          BY <4>2
      <4> QED BY <4>1, <4>3
    <3> QED BY <1>3, <3>1, <3>2 DEF imp_kill
  <2> QED BY <1>3, <2>1, <2>2 DEF imp_kill, KillRead, KillWrite
<1> QED BY <1>1, <1>2, <1>3

LEMMA NextIInv == IInv /\ [Next]_vars => IInv'
    BY Idle, SummonStep, WorkerStep, EpollerStep, MaintainerStep, OutsideStep DEF Next

(* Every variable keeps its type, and no thread acts on an imp it does not *)
(* hold, whatever the souls ask for and however many workers there are.    *)
THEOREM TypeCorrect == Spec => []TypeOK
    BY InitIInv, NextIInv, PTL DEF Spec, IInv

-----------------------------------------------------------------------------
(* Queues without duplicates.                                              *)

Distinct(q) == \A j, k \in DOMAIN q : q[j] = q[k] => j = k

LEMMA Appending ==
    ASSUME NEW S, NEW q \in Seq(S), NEW e \in S
    PROVE  /\ Append(q, e) \in Seq(S)
           /\ InQueue(Append(q, e)) = InQueue(q) \cup {e}
           /\ Distinct(q) /\ e \notin InQueue(q) => Distinct(Append(q, e))
<1>1. /\ Append(q, e) \in Seq(S) /\ Len(Append(q, e)) = Len(q) + 1 /\ Len(q) \in Nat
      /\ \A k \in 1 .. Len(q) : Append(q, e)[k] = q[k]
      /\ Append(q, e)[Len(q) + 1] = e
    OBVIOUS
<1>2. DOMAIN q = 1 .. Len(q) /\ DOMAIN Append(q, e) = 1 .. Len(q) + 1
    BY <1>1
<1>3. InQueue(Append(q, e)) = InQueue(q) \cup {e}
    BY <1>1, <1>2 DEF InQueue
<1>4. ASSUME Distinct(q), e \notin InQueue(q) PROVE Distinct(Append(q, e))
    BY <1>1, <1>2, <1>4 DEF Distinct, InQueue
<1> QED BY <1>1, <1>3, <1>4

LEMMA Removing ==
    ASSUME NEW S, NEW q \in Seq(S), q # <<>>
    PROVE  /\ Tail(q) \in Seq(S) /\ Head(q) \in S /\ Head(q) \in InQueue(q)
           /\ Distinct(q) => Distinct(Tail(q)) /\ InQueue(Tail(q)) = InQueue(q) \ {Head(q)}
<1>1. /\ Tail(q) \in Seq(S) /\ Head(q) \in S /\ Head(q) = q[1]
      /\ Len(q) \in Nat \ {0} /\ Len(Tail(q)) = Len(q) - 1
      /\ \A k \in 1 .. Len(q) - 1 : Tail(q)[k] = q[k + 1]
    OBVIOUS
<1>2. DOMAIN q = 1 .. Len(q) /\ DOMAIN Tail(q) = 1 .. Len(q) - 1
    BY <1>1
<1>3. Head(q) \in InQueue(q)
    BY <1>1, <1>2 DEF InQueue
<1>4. ASSUME Distinct(q) PROVE Distinct(Tail(q)) /\ InQueue(Tail(q)) = InQueue(q) \ {Head(q)}
  <2>1. Distinct(Tail(q))
      BY <1>1, <1>2, <1>4 DEF Distinct
  <2>2. ASSUME NEW x \in InQueue(Tail(q)) PROVE x \in InQueue(q) \ {Head(q)}
    <3>1. PICK k \in 1 .. Len(q) - 1 : x = q[k + 1]
        BY <1>1, <1>2 DEF InQueue
    <3> QED BY <1>1, <1>2, <1>4, <3>1 DEF Distinct, InQueue
  <2>3. ASSUME NEW x \in InQueue(q) \ {Head(q)} PROVE x \in InQueue(Tail(q))
    <3>1. PICK k \in 1 .. Len(q) : x = q[k]
        BY <1>2 DEF InQueue
    <3>2. k - 1 \in DOMAIN Tail(q) /\ Tail(q)[k - 1] = x
        BY <1>1, <1>2, <3>1
    <3> QED BY <3>2 DEF InQueue
  <2> QED BY <2>1, <2>2, <2>3
<1> QED BY <1>1, <1>3, <1>4

-----------------------------------------------------------------------------
(* The places an imp can be in, and the invariant.                         *)

(* epoll_wait has returned an event of i, which the epoller has not seen to.*)
Taken(i) == (epc = "cas" /\ ecur = i) \/ \E e \in batch : e[1] = i
Waking(i) == epc \in {"wake", "run"} /\ ecur = i
Newborn(i) == \E a \in Actors : spc[a] = "run" /\ child[a] = i
RQ == InQueue(run_queue)
TQ == InQueue(terminated_queue)

(* Worker w drives its imp, arms it or has still to queue it; and nobody   *)
(* else has to do with that imp.                                           *)
At(w) == InDriver(w) \/ pc[w] \in {"rerun", "term"}
Quiet(w) == At(w) /\ ~slept[w]

(* slept is set from the first descriptor armed until the imp is counted,  *)
(* no two workers are at one imp, and an imp not yet queued has one        *)
(* summoner.                                                               *)
ThreadInv ==
    /\ \A w \in Workers : /\ slept[w] => pc[w] \in {"arm", "poll", "count"}
                          /\ pc[w] \in {"poll", "count"} => slept[w]
    /\ \A v, w \in Workers : At(v) /\ At(w) /\ cur[v] = cur[w] => v = w
    /\ \A a, b \in Actors : spc[a] = "run" /\ spc[b] = "run" /\ child[a] = child[b] => a = b

QueueInv ==
    /\ Distinct(run_queue) /\ Distinct(terminated_queue)
    /\ \A i \in RQ : i \notin TQ

(* What is in a place of the dungeon lives.                                *)
LiveInv ==
    /\ \A i \in Imps : waitio[i] \/ Waking(i) \/ Newborn(i) \/ i \in RQ \/ i \in TQ => mem[i] = "live"
    /\ \A w \in Workers : At(w) => mem[cur[w]] = "live"

(* Nothing is in two places, but an imp that is awake again while its      *)
(* worker is still arming it.                                              *)
PlaceInv ==
    /\ \A i \in Imps :
        /\ waitio[i] => i \notin RQ /\ i \notin TQ /\ ~Waking(i) /\ ~Newborn(i)
        /\ Waking(i) => i \notin RQ /\ i \notin TQ /\ ~Newborn(i)
        /\ Newborn(i) => i \notin RQ /\ i \notin TQ
    /\ \A w \in Workers :
        /\ At(w) => cur[w] \notin TQ /\ ~Newborn(cur[w])
        /\ Quiet(w) => cur[w] \notin RQ /\ ~Waking(cur[w]) /\ ~waitio[cur[w]]

(* The events that epoll_wait has returned are of imps marked as waiting,  *)
(* one of each.                                                            *)
EpollInv ==
    /\ \A i \in Imps : Taken(i) => waitio[i]
    /\ \A e \in batch : epc = "cas" => ecur # e[1]
    /\ \A e, f \in batch : e[1] = f[1] => e = f

Safe == ThreadInv /\ QueueInv /\ LiveInv /\ PlaceInv /\ EpollInv

-----------------------------------------------------------------------------

LEMMA InitSafe == Init => Safe
<1> SUFFICES ASSUME Init PROVE Safe
    OBVIOUS
<1>1. RQ = {} /\ TQ = {} /\ Distinct(run_queue) /\ Distinct(terminated_queue)
    BY DEF Init, RQ, TQ, InQueue, Distinct
<1>2. \A w \in Workers : ~At(w)
    BY DEF Init, At, InDriver
<1>3. ThreadInv /\ QueueInv
    BY <1>1, <1>2 DEF Init, ThreadInv, QueueInv, Actors
<1>4. LiveInv /\ PlaceInv
    BY <1>1, <1>2 DEF Init, LiveInv, PlaceInv, Quiet, Waking, Newborn
<1>5. EpollInv
    BY DEF Init, EpollInv, Taken
<1> QED BY <1>3, <1>4, <1>5 DEF Safe

(* A step that moves no imp and no worker.                                 *)
LEMMA Stay ==
    ASSUME Safe, UNCHANGED <<mem, waitio, queues, pc, cur, slept, batch>>,
           UNCHANGED child, \A a \in Actors : spc'[a] = "run" <=> spc[a] = "run",
           \A i : Taken(i)' = Taken(i) /\ Waking(i)' = Waking(i),
           epc' = "cas" => epc = "cas" /\ ecur' = ecur
    PROVE  Safe'
<1>1. /\ \A w \in Workers : At(w)' = At(w) /\ Quiet(w)' = Quiet(w)
      /\ \A i : Newborn(i)' = Newborn(i)
      /\ RQ' = RQ /\ TQ' = TQ /\ run_queue' = run_queue /\ terminated_queue' = terminated_queue
    BY DEF At, InDriver, Quiet, Newborn, RQ, TQ, queues
<1>2. ThreadInv' /\ QueueInv'
    BY <1>1 DEF Safe, ThreadInv, QueueInv
<1>3. LiveInv' /\ PlaceInv'
    BY <1>1 DEF Safe, LiveInv, PlaceInv
<1>4. EpollInv'
    BY DEF Safe, EpollInv
<1> QED BY <1>2, <1>3, <1>4 DEF Safe

LEMMA QueuesStay == QueueInv /\ UNCHANGED queues => QueueInv' /\ RQ' = RQ /\ TQ' = TQ
    BY DEF QueueInv, queues, RQ, TQ

(* What imp_run and imp_term may do to the queues.                         *)
LEMMA RunOf ==
    ASSUME IInv, QueueInv, NEW i \in Imps, imp_run(i), UNCHANGED terminated_queue, i \notin TQ
    PROVE  QueueInv' /\ RQ \subseteq RQ' /\ RQ' \subseteq RQ \cup {i} /\ TQ' = TQ
<1>1. run_queue \in Seq(Imps) /\ TQ' = TQ /\ Distinct(run_queue) /\ Distinct(terminated_queue)'
    BY DEF IInv, TypeOK, QueueInv, TQ
<1>2. CASE run_queue' = run_queue
    BY <1>1, <1>2 DEF QueueInv, RQ
<1>3. CASE i \notin RQ /\ run_queue' = Append(run_queue, i)
    BY <1>1, <1>3, Appending DEF QueueInv, RQ
<1> QED BY <1>2, <1>3 DEF imp_run, RQ

LEMMA TermOf ==
    ASSUME IInv, QueueInv, NEW i \in Imps, to_terminated(i), UNCHANGED run_queue,
           i \notin TQ, i \notin RQ
    PROVE  QueueInv' /\ TQ' \subseteq TQ \cup {i} /\ RQ' = RQ
<1>1. terminated_queue \in Seq(Imps) /\ RQ' = RQ /\ Distinct(terminated_queue) /\ Distinct(run_queue)'
    BY DEF IInv, TypeOK, QueueInv, RQ
<1>2. CASE terminated_queue' = terminated_queue
    BY <1>1, <1>2 DEF QueueInv, TQ
<1>3. CASE terminated_queue' = Append(terminated_queue, i)
    BY <1>1, <1>3, Appending DEF QueueInv, TQ
<1> QED BY <1>2, <1>3 DEF to_terminated

-----------------------------------------------------------------------------
(* The worker.                                                             *)

(* A worker is where it was, or at label.                                  *)
LEMMA PcOf ==
    ASSUME IInv, NEW w \in Workers, NEW label, Go(w, label)
    PROVE  \A v \in Workers : pc'[v] = IF v = w THEN label ELSE pc[v]
    BY DEF IInv, TypeOK, Go

LEMMA AtHolds == IInv => \A w \in Workers : At(w) => cur[w] \in Imps
    BY DEF IInv, Holding, At, InDriver

(* The worker goes on with the imp it is at.                               *)
LEMMA Inner ==
    ASSUME IInv, Safe, NEW w \in Workers, At(w),
           NEW label \in {"check", "alert", "drive", "arm", "rerun", "term"}, Go(w, label),
           slept[w] => label = "arm",
           UNCHANGED <<mem, waitio, queues, cur, slept, spc, child, epc, batch, ecur>>
    PROVE  Safe'
<1>1. \A v \in Workers : pc'[v] = IF v = w THEN label ELSE pc[v]
    BY PcOf
<1>2. \A v \in Workers : At(v)' = At(v) /\ Quiet(v)' = Quiet(v)
    BY <1>1 DEF At, InDriver, Quiet
<1>3. /\ \A i : Taken(i)' = Taken(i) /\ Waking(i)' = Waking(i) /\ Newborn(i)' = Newborn(i)
      /\ RQ' = RQ /\ TQ' = TQ /\ QueueInv'
    BY QueuesStay DEF Taken, Waking, Newborn, Safe
<1>4. ThreadInv'
    BY <1>1, <1>2 DEF Safe, ThreadInv
<1>5. LiveInv' /\ PlaceInv'
    BY <1>2, <1>3 DEF Safe, LiveInv, PlaceInv
<1>6. EpollInv'
    BY <1>3 DEF Safe, EpollInv
<1> QED BY <1>3, <1>4, <1>5, <1>6 DEF Safe

(* An imp that a worker is at is awake, so CheckKill clears nothing.       *)
LEMMA KillClearsNothing ==
    ASSUME IInv, Safe, NEW w \in Workers, CheckKill(w)
    PROVE  waitio' = waitio
<1>1. Quiet(w)
    BY DEF CheckKill, Quiet, At, InDriver, Safe, ThreadInv
<1>2. cur[w] \in Imps /\ ~waitio[cur[w]] /\ waitio \in [Imps -> BOOLEAN]
    BY <1>1, AtHolds DEF Quiet, Safe, PlaceInv, IInv, TypeOK
<1>3. waitio' = waitio \/ waitio' = [waitio EXCEPT ![cur[w]] = FALSE]
    BY DEF CheckKill
<1>4. [waitio EXCEPT ![cur[w]] = FALSE] = waitio
    BY <1>2
<1> QED BY <1>3, <1>4

LEMMA DriveStep ==
    ASSUME IInv, Safe, NEW w \in Workers,
           \/ Reduct(w) \/ CheckKill(w) \/ CheckAlert(w) \/ SoulTerm(w) \/ SoulYield(w)
           \/ set_poll_action(w) \/ (ArmEnd(w) /\ ~slept[w])
    PROVE  Safe'
<1> USE DEF body, queues, counts, workers, summons, epoller, maint
<1>1. CASE Reduct(w) \/ CheckAlert(w) \/ SoulTerm(w) \/ SoulYield(w)
  <2>1. PICK label \in {"check", "alert", "drive", "arm", "rerun", "term"} : Go(w, label)
      BY <1>1 DEF Reduct, CheckAlert, SoulTerm, SoulYield
  <2>2. At(w) /\ ~slept[w]
      BY <1>1 DEF Reduct, CheckAlert, SoulTerm, SoulYield, At, InDriver, Safe, ThreadInv
  <2>3. UNCHANGED <<mem, waitio, queues, cur, slept, spc, child, epc, batch, ecur>>
      BY <1>1 DEF Reduct, CheckAlert, SoulTerm, SoulYield
  <2> QED BY <2>1, <2>2, <2>3, Inner
<1>2. CASE CheckKill(w)
  <2>1. PICK label \in {"check", "alert", "drive", "arm", "rerun", "term"} : Go(w, label)
      BY <1>2 DEF CheckKill
  <2>2. At(w) /\ ~slept[w]
      BY <1>2 DEF CheckKill, At, InDriver, Safe, ThreadInv
  <2>3. UNCHANGED <<mem, waitio, queues, cur, slept, spc, child, epc, batch, ecur>>
      BY <1>2, KillClearsNothing DEF CheckKill
  <2> QED BY <2>1, <2>2, <2>3, Inner
<1>3. CASE set_poll_action(w)
  <2>1. /\ At(w) /\ Go(w, "arm")
        /\ UNCHANGED <<mem, waitio, queues, cur, slept, spc, child, epc, batch, ecur>>
      BY <1>3 DEF set_poll_action, At, InDriver
  <2> QED BY <2>1, Inner
<1>4. CASE ArmEnd(w) /\ ~slept[w]
  <2>1. /\ At(w) /\ Go(w, "rerun")
        /\ UNCHANGED <<mem, waitio, queues, cur, slept, spc, child, epc, batch, ecur>>
      BY <1>4 DEF ArmEnd, At, InDriver
  <2> QED BY <1>4, <2>1, Inner
<1> QED BY <1>1, <1>2, <1>3, <1>4

(* No worker is at an imp in the run queue, unless a race is near.         *)
LEMMA FetchStep ==
    ASSUME IInv, IInv', Safe, ~raced', NEW w \in Workers, Fetch(w)
    PROVE  Safe'
<1>0. Head(run_queue) \in Imps
    BY Removing DEF Fetch, IInv, TypeOK
<1>i. PICK i \in Imps : i = Head(run_queue)
    BY <1>0
<1>1. /\ i \in RQ /\ Distinct(run_queue)' /\ RQ' = RQ \ {i}
      /\ TQ' = TQ /\ Distinct(terminated_queue)'
    BY <1>i, Removing DEF Fetch, IInv, TypeOK, Safe, QueueInv, RQ, TQ
<1>2. /\ cur' = [cur EXCEPT ![w] = i] /\ Go(w, "reduct") /\ pc[w] = "idle"
      /\ UNCHANGED <<mem, waitio, slept, spc, child, epc, batch, ecur>>
    BY <1>i DEF Fetch, body, counts, summons, epoller
<1>3. \A v \in Workers : InDriver(v) => cur[v] # i
    BY <1>i DEF Fetch
<1>4. \A v \in Workers : At(v) => cur[v] # i
  <2> SUFFICES ASSUME NEW v \in Workers, At(v), ~InDriver(v) PROVE cur[v] # i
      BY <1>3
  <2>1. Quiet(v)
      BY DEF At, InDriver, Quiet, Safe, ThreadInv
  <2> QED BY <1>1, <2>1 DEF Safe, PlaceInv
<1>5. /\ \A v \in Workers : /\ pc'[v] = IF v = w THEN "reduct" ELSE pc[v]
                            /\ cur'[v] = IF v = w THEN i ELSE cur[v]
      /\ ~slept[w]
  <2>1. cur \in [Workers -> Imps \cup {NoImp}]
      BY DEF IInv, TypeOK
  <2> QED BY <1>2, <2>1, PcOf DEF Safe, ThreadInv
<1>6. /\ \A v \in Workers : /\ At(v)' <=> At(v) \/ v = w
                            /\ Quiet(v)' <=> Quiet(v) \/ v = w
      /\ ~At(w)
    BY <1>2, <1>5 DEF At, InDriver, Quiet
<1>7. \A j : Taken(j)' = Taken(j) /\ Waking(j)' = Waking(j) /\ Newborn(j)' = Newborn(j)
    BY <1>2 DEF Taken, Waking, Newborn
<1>8. mem[i] = "live" /\ i \notin TQ /\ ~waitio[i] /\ ~Waking(i) /\ ~Newborn(i)
    BY <1>1 DEF Safe, LiveInv, QueueInv, PlaceInv
<1>9. ThreadInv'
    BY <1>2, <1>4, <1>5, <1>6 DEF Safe, ThreadInv
<1>10. QueueInv'
    BY <1>1 DEF Safe, QueueInv
<1>11. LiveInv'
    BY <1>1, <1>2, <1>5, <1>6, <1>7, <1>8 DEF Safe, LiveInv
<1>12. PlaceInv'
    BY <1>1, <1>2, <1>5, <1>6, <1>7, <1>8 DEF Safe, PlaceInv
<1>13. EpollInv'
    BY <1>2, <1>7 DEF Safe, EpollInv
<1> QED BY <1>9, <1>10, <1>11, <1>12, <1>13 DEF Safe

(* The imp is marked as waiting, and was before if this is not the first   *)
(* descriptor: a mark that comes again after the imp has woken is a race.  *)
LEMMA ArmNextStep ==
    ASSUME IInv, Safe, ~raced', NEW w \in Workers, ArmNext(w)
    PROVE  Safe'
<1>1. /\ pc[w] = "arm" /\ Go(w, "poll")
      /\ slept[w] => waitio[cur[w]]
      /\ waitio' = [waitio EXCEPT ![cur[w]] = TRUE] /\ slept' = [slept EXCEPT ![w] = TRUE]
      /\ UNCHANGED <<mem, queues, cur, spc, child, epc, batch, ecur>>
    BY DEF ArmNext, counts, summons, epoller
<1>2. At(w) /\ cur[w] \in Imps
    BY <1>1, AtHolds DEF At, InDriver
<1>3. /\ \A v \in Workers : /\ pc'[v] = IF v = w THEN "poll" ELSE pc[v]
                            /\ slept'[v] = IF v = w THEN TRUE ELSE slept[v]
      /\ \A j \in Imps : waitio'[j] = IF j = cur[w] THEN TRUE ELSE waitio[j]
    BY <1>1, <1>2, PcOf DEF IInv, TypeOK
<1>4. \A v \in Workers : /\ At(v)' = At(v)
                         /\ Quiet(v)' <=> Quiet(v) /\ v # w
    BY <1>1, <1>2, <1>3 DEF At, InDriver, Quiet
<1>5. /\ \A j : Taken(j)' = Taken(j) /\ Waking(j)' = Waking(j) /\ Newborn(j)' = Newborn(j)
      /\ RQ' = RQ /\ TQ' = TQ /\ QueueInv'
    BY <1>1, QueuesStay DEF Taken, Waking, Newborn, Safe
<1>6. /\ cur[w] \notin RQ /\ cur[w] \notin TQ /\ ~Waking(cur[w]) /\ ~Newborn(cur[w])
      /\ mem[cur[w]] = "live"
  <2>1. CASE slept[w]
      BY <1>1, <1>2, <2>1 DEF Safe, PlaceInv, LiveInv
  <2>2. CASE ~slept[w]
      BY <1>2, <2>2 DEF Quiet, Safe, PlaceInv, LiveInv
  <2> QED BY <2>1, <2>2
<1>7. ThreadInv'
    BY <1>1, <1>3, <1>4 DEF Safe, ThreadInv
<1>8. LiveInv'
    BY <1>1, <1>3, <1>4, <1>5, <1>6 DEF Safe, LiveInv
<1>9. PlaceInv'
  <2>1. \A v \in Workers : Quiet(v)' => ~waitio'[cur'[v]]
    <3> SUFFICES ASSUME NEW v \in Workers, Quiet(v)' PROVE ~waitio'[cur'[v]]
        OBVIOUS
    <3>1. Quiet(v) /\ At(v) /\ v # w /\ cur'[v] = cur[v] /\ cur[v] \in Imps
        BY <1>1, <1>4, AtHolds DEF Quiet
    <3>2. cur[v] # cur[w]
        BY <1>2, <3>1 DEF Safe, ThreadInv
    <3> QED BY <1>3, <3>1, <3>2 DEF Safe, PlaceInv
  <2> QED BY <1>1, <1>3, <1>4, <1>5, <1>6, <2>1 DEF Safe, PlaceInv
<1>10. EpollInv'
    BY <1>1, <1>3, <1>5 DEF Safe, EpollInv
<1> QED BY <1>5, <1>7, <1>8, <1>9, <1>10 DEF Safe

(* The worker lets go of its imp, which it may have put in a queue, or of  *)
(* the pointer to an imp it is at no longer.                               *)
LEMMA Leave ==
    ASSUME IInv, Safe, NEW w \in Workers,
           NEW label \in {"count", "wakeup", "yielded", "idle"}, Go(w, label),
           \A v \in Workers : v # w => cur'[v] = cur[v] /\ slept'[v] = slept[v],
           slept'[w] <=> label = "count",
           UNCHANGED <<mem, waitio, spc, child, epc, batch, ecur>>,
           QueueInv', RQ' \subseteq RQ \cup {cur[w]}, TQ' \subseteq TQ \cup {cur[w]},
           (RQ' = RQ /\ TQ' = TQ) \/ Quiet(w)
    PROVE  Safe'
<1>1. \A v \in Workers : pc'[v] = IF v = w THEN label ELSE pc[v]
    BY PcOf
<1>2. \A v \in Workers : /\ At(v)' <=> At(v) /\ v # w
                         /\ Quiet(v)' <=> Quiet(v) /\ v # w
    BY <1>1 DEF At, InDriver, Quiet
<1>3. \A j : Taken(j)' = Taken(j) /\ Waking(j)' = Waking(j) /\ Newborn(j)' = Newborn(j)
    BY DEF Taken, Waking, Newborn
<1>4. Quiet(w) => /\ cur[w] \in Imps /\ At(w) /\ mem[cur[w]] = "live"
                  /\ ~waitio[cur[w]] /\ ~Waking(cur[w]) /\ ~Newborn(cur[w])
    BY AtHolds DEF Quiet, Safe, PlaceInv, LiveInv
<1>5. ThreadInv'
    BY <1>1, <1>2 DEF Safe, ThreadInv
<1>6. LiveInv'
  <2>1. \A j \in Imps : j \in RQ' \/ j \in TQ' => mem[j] = "live"
      BY <1>4 DEF Safe, LiveInv
  <2> QED BY <1>2, <1>3, <2>1 DEF Safe, LiveInv
<1>7. PlaceInv'
  <2>1. \A j \in Imps : waitio[j] \/ Waking(j) \/ Newborn(j) => j \notin RQ' /\ j \notin TQ'
      BY <1>4 DEF Safe, PlaceInv
  <2>2. \A v \in Workers :
          At(v) /\ v # w => cur[v] \notin TQ' /\ (Quiet(v) => cur[v] \notin RQ')
    <3> SUFFICES ASSUME NEW v \in Workers, At(v), v # w
                 PROVE  cur[v] \notin TQ' /\ (Quiet(v) => cur[v] \notin RQ')
        OBVIOUS
    <3>1. Quiet(w) => cur[v] # cur[w]
        BY <1>4 DEF Safe, ThreadInv
    <3> QED BY <3>1 DEF Safe, PlaceInv
  <2>3. \A v \in Workers : v # w => cur'[v] = cur[v]
      OBVIOUS
  <2>4. \A v \in Workers :
          /\ At(v)' => cur'[v] \notin TQ' /\ ~Newborn(cur[v])'
          /\ Quiet(v)' => cur'[v] \notin RQ' /\ ~Waking(cur[v])' /\ ~waitio'[cur'[v]]
    <3> SUFFICES ASSUME NEW v \in Workers, v # w, At(v)
                 PROVE  /\ cur[v] \notin TQ' /\ ~Newborn(cur[v])'
                        /\ Quiet(v) => cur[v] \notin RQ' /\ ~Waking(cur[v])' /\ ~waitio'[cur[v]]
        BY <1>2, <2>3 DEF Quiet
    <3>1. /\ ~Newborn(cur[v])
          /\ Quiet(v) => ~Waking(cur[v]) /\ ~waitio[cur[v]]
        BY DEF Safe, PlaceInv
    <3>2. ~Newborn(cur[v])' /\ (Waking(cur[v])' <=> Waking(cur[v]))
        BY <2>3, <3>1 DEF Newborn, Waking
    <3> QED BY <2>2, <3>1, <3>2
  <2>5. \A j \in Imps :
        /\ waitio'[j] => j \notin RQ' /\ j \notin TQ' /\ ~Waking(j)' /\ ~Newborn(j)'
        /\ Waking(j)' => j \notin RQ' /\ j \notin TQ' /\ ~Newborn(j)'
        /\ Newborn(j)' => j \notin RQ' /\ j \notin TQ'
      BY <1>3, <2>1 DEF Safe, PlaceInv
  <2> QED BY <2>4, <2>5 DEF PlaceInv
<1>8. EpollInv'
    BY <1>3 DEF Safe, EpollInv
<1> QED BY <1>5, <1>6, <1>7, <1>8 DEF Safe

LEMMA LeaveStep ==
    ASSUME IInv, Safe, NEW w \in Workers,
           \/ ArmEnd(w) /\ slept[w]
           \/ CountSleeper(w) \/ Rerun(w) \/ imp_term(w) \/ thr_maintainer_wakeup(w) \/ Yielded(w)
    PROVE  Safe'
<1> USE DEF body, queues, counts, workers, summons, epoller, maint
<1>1. CASE ArmEnd(w) /\ slept[w]
  <2>1. QueueInv' /\ RQ' = RQ /\ TQ' = TQ
      BY <1>1, QueuesStay DEF ArmEnd, Safe
  <2> QED BY <1>1, <2>1, Leave DEF ArmEnd
<1>2. CASE CountSleeper(w)
  <2>1. ~slept'[w] /\ \A v \in Workers : v # w => slept'[v] = slept[v]
      BY <1>2 DEF CountSleeper, IInv, TypeOK
  <2>2. QueueInv' /\ RQ' = RQ /\ TQ' = TQ
      BY <1>2, QueuesStay DEF CountSleeper, Safe
  <2> QED BY <1>2, <2>1, <2>2, Leave DEF CountSleeper
<1>3. CASE Rerun(w)
  <2>1. ~slept[w] /\ Quiet(w) /\ cur[w] \in Imps
      BY <1>3, AtHolds DEF Rerun, Safe, ThreadInv, Quiet, At
  <2>2. cur[w] \notin TQ
      BY <2>1 DEF Safe, PlaceInv, Quiet
  <2>3. QueueInv' /\ RQ' \subseteq RQ \cup {cur[w]} /\ TQ' = TQ
      BY <1>3, <2>1, <2>2, RunOf DEF Rerun, Safe
  <2> QED BY <1>3, <2>1, <2>3, Leave DEF Rerun
<1>4. CASE imp_term(w)
  <2>1. ~slept[w] /\ Quiet(w) /\ cur[w] \in Imps
      BY <1>4, AtHolds DEF imp_term, Safe, ThreadInv, Quiet, At
  <2>2. cur[w] \notin TQ /\ cur[w] \notin RQ
      BY <2>1 DEF Safe, PlaceInv, Quiet
  <2>3. QueueInv' /\ TQ' \subseteq TQ \cup {cur[w]} /\ RQ' = RQ
      BY <1>4, <2>1, <2>2, TermOf DEF imp_term, Safe
  <2> QED BY <1>4, <2>1, <2>3, Leave DEF imp_term, AfterTerm
<1>5. CASE thr_maintainer_wakeup(w)
  <2>1. ~slept[w]
      BY <1>5 DEF thr_maintainer_wakeup, Safe, ThreadInv
  <2>2. QueueInv' /\ RQ' = RQ /\ TQ' = TQ
      BY <1>5, QueuesStay DEF thr_maintainer_wakeup, Safe
  <2> QED BY <1>5, <2>1, <2>2, Leave DEF thr_maintainer_wakeup
<1>6. CASE Yielded(w)
  <2>1. ~slept[w] /\ \A v \in Workers : v # w => cur'[v] = cur[v]
      BY <1>6 DEF Yielded, Safe, ThreadInv, IInv, TypeOK
  <2>2. QueueInv' /\ RQ' = RQ /\ TQ' = TQ
      BY <1>6, QueuesStay DEF Yielded, Safe
  <2> QED BY <1>6, <2>1, <2>2, Leave DEF Yielded
<1> QED BY <1>1, <1>2, <1>3, <1>4, <1>5, <1>6

-----------------------------------------------------------------------------
(* The epoller.                                                            *)

(* An event of an imp that is awake, or a second one of an imp, is a race. *)
LEMMA PollStep ==
    ASSUME Safe, ~raced', epoll_wait
    PROVE  Safe'
<1>1. /\ epc = "wait" /\ epc' = "wait"
      /\ UNCHANGED <<mem, waitio, queues, pc, cur, slept, spc, child>>
    BY DEF epoll_wait, queues, workers, summons
<1>2. /\ \A e \in batch' : e[1] \in Imps /\ waitio[e[1]]
      /\ \A e, f \in batch' : e[1] = f[1] => e = f
    BY DEF epoll_wait
<1>3. /\ \A w \in Workers : At(w)' = At(w) /\ Quiet(w)' = Quiet(w)
      /\ \A j : ~Waking(j) /\ ~Waking(j)' /\ Newborn(j)' = Newborn(j)
      /\ RQ' = RQ /\ TQ' = TQ /\ QueueInv'
    BY <1>1, QueuesStay DEF At, InDriver, Quiet, Waking, Newborn, Safe
<1>4. ThreadInv'
    BY <1>1, <1>3 DEF Safe, ThreadInv
<1>5. LiveInv' /\ PlaceInv'
    BY <1>1, <1>3 DEF Safe, LiveInv, PlaceInv
<1>6. EpollInv'
    BY <1>1, <1>2 DEF EpollInv, Taken
<1> QED BY <1>3, <1>4, <1>5, <1>6 DEF Safe

LEMMA CancelStep ==
    ASSUME Safe, imp_cancel_timer
    PROVE  Safe'
<1>1. PICK e \in batch : ecur' = e[1] /\ batch' = batch \ {e}
    BY DEF imp_cancel_timer
<1>2. /\ epc = "wait" /\ epc' = "cas"
      /\ UNCHANGED <<mem, waitio, queues, pc, cur, slept, spc, child>>
    BY DEF imp_cancel_timer, queues, workers, summons
<1>3. /\ \A j : Taken(j)' = Taken(j)
      /\ \A w \in Workers : At(w)' = At(w) /\ Quiet(w)' = Quiet(w)
      /\ \A j : ~Waking(j) /\ ~Waking(j)' /\ Newborn(j)' = Newborn(j)
      /\ RQ' = RQ /\ TQ' = TQ /\ QueueInv'
    BY <1>1, <1>2, QueuesStay DEF Taken, At, InDriver, Quiet, Waking, Newborn, Safe
<1>4. ThreadInv'
    BY <1>2, <1>3 DEF Safe, ThreadInv
<1>5. LiveInv' /\ PlaceInv'
    BY <1>2, <1>3 DEF Safe, LiveInv, PlaceInv
<1>6. EpollInv'
  <2>1. \A f \in batch' : ecur' # f[1]
      BY <1>1 DEF Safe, EpollInv
  <2> QED BY <1>1, <1>2, <1>3, <2>1 DEF Safe, EpollInv
<1> QED BY <1>3, <1>4, <1>5, <1>6 DEF Safe

LEMMA WakeCasStep ==
    ASSUME IInv, Safe, WakeCas
    PROVE  Safe' /\ waitio[ecur] /\ epc' = "wake"
<1>1. /\ epc = "cas" /\ ecur \in Imps
      /\ UNCHANGED <<mem, queues, pc, cur, slept, spc, child, batch>>
    BY DEF WakeCas, IInv, Holding, queues, workers, summons
<1>2. Taken(ecur) /\ waitio[ecur]
  <2>1. Taken(ecur)
      BY <1>1 DEF Taken
  <2> QED BY <1>1, <2>1 DEF Safe, EpollInv
<1>3. epc' = "wake" /\ ecur' = ecur
    BY <1>2 DEF WakeCas, Woken
<1>4. \A j \in Imps : waitio'[j] <=> waitio[j] /\ j # ecur
    BY <1>1 DEF WakeCas, IInv, TypeOK
<1>5. \A j \in Imps : Taken(j)' <=> Taken(j) /\ j # ecur
    BY <1>1, <1>3 DEF Taken, Safe, EpollInv
<1>6. \A j : ~Waking(j) /\ (Waking(j)' <=> j = ecur) /\ Newborn(j)' = Newborn(j)
    BY <1>1, <1>3 DEF Waking, Newborn
<1>7. /\ RQ' = RQ /\ TQ' = TQ /\ QueueInv'
      /\ \A w \in Workers : At(w)' = At(w) /\ Quiet(w)' = Quiet(w)
    BY <1>1, QueuesStay DEF At, InDriver, Quiet, Safe
<1>8. \A w \in Workers : Quiet(w) => cur[w] \in Imps /\ cur[w] # ecur
    BY <1>2, AtHolds DEF Quiet, Safe, PlaceInv
<1>9. ThreadInv'
    BY <1>1, <1>7 DEF Safe, ThreadInv
<1>10. LiveInv'
    BY <1>1, <1>2, <1>4, <1>6, <1>7 DEF Safe, LiveInv
<1>11. PlaceInv'
    BY <1>1, <1>2, <1>4, <1>6, <1>7, <1>8 DEF Safe, PlaceInv
<1>12. EpollInv'
  <2>1. \A j \in Imps : Taken(j)' => waitio'[j]
      BY <1>4, <1>5 DEF Safe, EpollInv
  <2> QED BY <1>1, <1>3, <2>1 DEF Safe, EpollInv
<1> QED BY <1>2, <1>3, <1>7, <1>9, <1>10, <1>11, <1>12 DEF Safe

LEMMA WakeRunStep ==
    ASSUME IInv, Safe, WakeRun
    PROVE  Safe'
<1>1. /\ epc = "run" /\ epc' = "woken" /\ ecur \in Imps /\ imp_run(ecur)
      /\ UNCHANGED <<mem, waitio, terminated_queue, pc, cur, slept, spc, child, batch>>
    BY DEF WakeRun, IInv, Holding, workers, summons
<1>2. Waking(ecur)
    BY <1>1 DEF Waking
<1>3. mem[ecur] = "live" /\ ecur \notin TQ /\ ~waitio[ecur] /\ ~Newborn(ecur)
    BY <1>1, <1>2 DEF Safe, LiveInv, PlaceInv
<1>4. QueueInv' /\ RQ' \subseteq RQ \cup {ecur} /\ TQ' = TQ
    BY <1>1, <1>3, RunOf DEF Safe
<1>5. /\ \A j : Taken(j)' = Taken(j) /\ ~Waking(j)' /\ Newborn(j)' = Newborn(j)
      /\ \A w \in Workers : At(w)' = At(w) /\ Quiet(w)' = Quiet(w)
    BY <1>1 DEF Taken, Waking, Newborn, At, InDriver, Quiet
<1>6. \A w \in Workers : Quiet(w) => cur[w] \in Imps /\ cur[w] # ecur
    BY <1>2, AtHolds DEF Quiet, Safe, PlaceInv
<1>7. ThreadInv'
    BY <1>1, <1>5 DEF Safe, ThreadInv
<1>8. LiveInv'
    BY <1>1, <1>3, <1>4, <1>5 DEF Safe, LiveInv
<1>9. PlaceInv'
    BY <1>1, <1>3, <1>4, <1>5, <1>6 DEF Safe, PlaceInv
<1>10. EpollInv'
    BY <1>1, <1>5 DEF Safe, EpollInv
<1> QED BY <1>4, <1>7, <1>8, <1>9, <1>10 DEF Safe

LEMMA EpollerSafe ==
    ASSUME IInv, Safe, ~raced', Epoller
    PROVE  Safe'
<1> USE DEF body, queues, counts, workers, summons, epoller, maint
<1>1. CASE WakeCount \/ WakeEnd
  <2>1. /\ UNCHANGED <<mem, waitio, queues, pc, cur, slept, spc, child, batch>>
        /\ epc # "cas" /\ epc' # "cas"
        /\ \A i : Waking(i)' = Waking(i)
      BY <1>1 DEF WakeCount, WakeEnd, Waking
  <2>2. \A i : Taken(i)' = Taken(i)
      BY <2>1 DEF Taken
  <2> QED BY <2>1, <2>2, Stay
<1> QED BY <1>1, PollStep, CancelStep, WakeCasStep, WakeRunStep DEF Epoller

-----------------------------------------------------------------------------
(* The maintainer.                                                         *)

LEMMA DismissStep ==
    ASSUME IInv, Safe, imp_dismiss
    PROVE  Safe'
<1>0. Head(terminated_queue) \in Imps
    BY Removing DEF imp_dismiss, IInv, TypeOK
<1>i. PICK i \in Imps : i = Head(terminated_queue)
    BY <1>0
<1>1. /\ i \in TQ /\ Distinct(terminated_queue)' /\ TQ' = TQ \ {i}
      /\ RQ' = RQ /\ Distinct(run_queue)'
    BY <1>i, Removing DEF imp_dismiss, IInv, TypeOK, Safe, QueueInv, RQ, TQ
<1>2. UNCHANGED <<waitio, pc, cur, slept, spc, child, epc, batch, ecur>>
    BY DEF imp_dismiss, workers, summons, epoller
<1>3. \A j \in Imps : mem'[j] = IF j = i THEN "freed" ELSE mem[j]
    BY <1>i DEF imp_dismiss, IInv, TypeOK
<1>4. i \notin RQ /\ ~waitio[i] /\ ~Waking(i) /\ ~Newborn(i)
    BY <1>1 DEF Safe, QueueInv, PlaceInv
<1>5. \A w \in Workers : At(w) => cur[w] \in Imps /\ cur[w] # i
    BY <1>1, AtHolds DEF Safe, PlaceInv
<1>6. /\ \A j : Taken(j)' = Taken(j) /\ Waking(j)' = Waking(j) /\ Newborn(j)' = Newborn(j)
      /\ \A w \in Workers : At(w)' = At(w) /\ Quiet(w)' = Quiet(w)
    BY <1>2 DEF Taken, Waking, Newborn, At, InDriver, Quiet
<1>7. ThreadInv' /\ QueueInv'
    BY <1>1, <1>2, <1>6 DEF Safe, ThreadInv, QueueInv
<1>8. LiveInv'
    BY <1>1, <1>2, <1>3, <1>4, <1>5, <1>6 DEF Safe, LiveInv
<1>9. PlaceInv'
    BY <1>1, <1>2, <1>6 DEF Safe, PlaceInv
<1>10. EpollInv'
    BY <1>2, <1>6 DEF Safe, EpollInv
<1> QED BY <1>7, <1>8, <1>9, <1>10 DEF Safe

-----------------------------------------------------------------------------
(* imp_summon.                                                             *)

LEMMA SummonSafe ==
    ASSUME IInv, Safe, NEW a \in Actors, Summon(a)
    PROVE  Safe'
<1> USE DEF body, queues, counts, workers, summons, epoller, maint
<1>1. UNCHANGED <<waitio, terminated_queue, pc, cur, slept, epc, batch, ecur>>
    BY DEF Summon, SummonCheck, imp_new, SummonRun
<1>2. /\ \A j : Taken(j)' = Taken(j) /\ Waking(j)' = Waking(j)
      /\ \A w \in Workers : At(w)' = At(w) /\ Quiet(w)' = Quiet(w)
    BY <1>1 DEF Taken, Waking, At, InDriver, Quiet
<1>3. EpollInv'
    BY <1>1, <1>2 DEF Safe, EpollInv
<1>4. CASE SummonCheck(a) \/ (imp_new(a) /\ spc' = [spc EXCEPT ![a] = "none"] /\ UNCHANGED <<mem, child>>)
  <2>1. /\ UNCHANGED <<mem, child, queues>>
        /\ \A b \in Actors : spc'[b] = "run" <=> spc[b] = "run"
      BY <1>4 DEF SummonCheck, imp_new, IInv, TypeOK
  <2> QED BY <1>1, <1>2, <2>1, Stay
<1>5. ASSUME spc[a] = "new", UNCHANGED run_queue, NEW i \in MaySummon[a], mem[i] = "none",
             mem' = [mem EXCEPT ![i] = "live"],
             child' = [child EXCEPT ![a] = i], spc' = [spc EXCEPT ![a] = "run"]
      PROVE  Safe'
  <2>1. i \in Imps
      BY SummonAssumption
  <2>2. \A j \in Imps : mem'[j] = IF j = i THEN "live" ELSE mem[j]
      BY <1>5, <2>1 DEF IInv, TypeOK
  <2>3. \A b \in Actors : /\ spc'[b] = IF b = a THEN "run" ELSE spc[b]
                          /\ child'[b] = IF b = a THEN i ELSE child[b]
      BY <1>5 DEF IInv, TypeOK
  <2>4. ~waitio[i] /\ ~Waking(i) /\ ~Newborn(i) /\ i \notin RQ /\ i \notin TQ
      BY <1>5, <2>1 DEF Safe, LiveInv
  <2>5. \A w \in Workers : At(w) => cur[w] \in Imps /\ cur[w] # i
      BY <1>5, AtHolds DEF Safe, LiveInv
  <2>6. \A j : Newborn(j)' <=> Newborn(j) \/ j = i
      BY <1>5, <2>3 DEF Newborn
  <2>7. QueueInv' /\ RQ' = RQ /\ TQ' = TQ
      BY <1>1, <1>5, QueuesStay DEF Safe
  <2>8. ThreadInv'
      BY <1>1, <1>2, <2>3, <2>4 DEF Safe, ThreadInv, Newborn
  <2>9. LiveInv'
      BY <1>1, <1>2, <2>2, <2>5, <2>6, <2>7 DEF Safe, LiveInv
  <2>10. PlaceInv'
      BY <1>1, <1>2, <2>4, <2>5, <2>6, <2>7 DEF Safe, PlaceInv
  <2> QED BY <1>3, <2>7, <2>8, <2>9, <2>10 DEF Safe
<1>6. CASE SummonRun(a)
  <2>1. /\ spc[a] = "run" /\ UNCHANGED mem /\ child[a] \in Imps
        /\ \A b \in Actors : /\ spc'[b] = IF b = a THEN "none" ELSE spc[b]
                             /\ b # a => child'[b] = child[b]
      BY <1>6 DEF SummonRun, IInv, TypeOK, Holding
  <2>2. Newborn(child[a])
      BY <2>1 DEF Newborn
  <2>3. /\ child[a] \notin TQ /\ ~waitio[child[a]] /\ ~Waking(child[a]) /\ mem[child[a]] = "live"
      BY <2>1, <2>2 DEF Safe, PlaceInv, LiveInv
  <2>4. QueueInv' /\ RQ' \subseteq RQ \cup {child[a]} /\ TQ' = TQ
      BY <1>1, <1>6, <2>1, <2>3, RunOf DEF SummonRun, Safe
  <2>5. \A j : Newborn(j)' => Newborn(j) /\ j # child[a]
      BY <2>1 DEF Newborn, Safe, ThreadInv
  <2>6. \A w \in Workers : At(w) => cur[w] # child[a]
      BY <2>2 DEF Safe, PlaceInv
  <2>7. ThreadInv'
      BY <1>1, <1>2, <2>1 DEF Safe, ThreadInv
  <2>8. LiveInv'
      BY <1>1, <1>2, <2>1, <2>3, <2>4, <2>5 DEF Safe, LiveInv
  <2>9. PlaceInv'
      BY <1>1, <1>2, <2>3, <2>4, <2>5, <2>6 DEF Safe, PlaceInv, Quiet
  <2> QED BY <1>3, <2>4, <2>7, <2>8, <2>9 DEF Safe
<1> QED BY <1>4, <1>5, <1>6 DEF Summon, imp_new

-----------------------------------------------------------------------------

LEMMA RacedStays == IInv /\ [Next]_vars => (raced => raced')
<1> SUFFICES ASSUME IInv, [Next]_vars, raced PROVE raced'
    OBVIOUS
<1>1. CASE UNCHANGED vars
    BY <1>1 DEF vars
<1>2. ASSUME NEW a \in Actors, Summon(a) PROVE raced'
    BY <1>2 DEF Summon, SummonCheck, imp_new, SummonRun
<1>3. ASSUME NEW w \in Workers, Worker(w) PROVE raced'
  <2>1. CASE Fetch(w) \/ Reduct(w) \/ CheckKill(w) \/ CheckAlert(w) \/ SoulTerm(w) \/ SoulYield(w)
      BY <2>1 DEF Fetch, Reduct, CheckKill, CheckAlert, SoulTerm, SoulYield
  <2>2. CASE ArmNext(w) \/ set_poll_action(w) \/ ArmEnd(w) \/ CountSleeper(w) \/ Rerun(w)
      BY <2>2 DEF ArmNext, set_poll_action, ArmEnd, CountSleeper, Rerun
  <2>3. CASE imp_term(w) \/ thr_maintainer_wakeup(w) \/ Yielded(w)
      BY <2>3 DEF imp_term, thr_maintainer_wakeup, Yielded
  <2> QED BY <1>3, <2>1, <2>2, <2>3 DEF Worker
<1>4. CASE Epoller
    BY <1>4 DEF Epoller, epoll_wait, imp_cancel_timer, WakeCas, WakeCount, WakeRun, WakeEnd
<1>5. CASE Maintainer
    BY <1>5 DEF Maintainer, imp_dismiss, Decrease, Drained, PendingEvent
<1>6. ASSUME NEW i \in Imps, TimerExpires(i) \/ IoArrives(i) \/ imp_kill(i) PROVE raced'
    BY <1>6 DEF TimerExpires, IoArrives, imp_kill, KillRead, KillWrite
<1> QED BY <1>1, <1>2, <1>3, <1>4, <1>5, <1>6 DEF Next

LEMMA NextSafe ==
    ASSUME IInv, Safe, ~raced', [Next]_vars
    PROVE  Safe'
<1> USE DEF body, queues, counts, workers, summons, epoller, maint
<1>1. IInv'
    BY NextIInv
<1>0. ASSUME UNCHANGED <<mem, waitio, queues, pc, cur, slept, spc, child, epc, batch, ecur>>
      PROVE  Safe'
  <2>1. \A i : Taken(i)' = Taken(i) /\ Waking(i)' = Waking(i)
      BY <1>0 DEF Taken, Waking
  <2> QED BY <1>0, <2>1, Stay
<1>2. CASE UNCHANGED vars
    BY <1>0, <1>2 DEF vars
<1>3. ASSUME NEW a \in Actors, Summon(a) PROVE Safe'
    BY <1>3, SummonSafe
<1>4. ASSUME NEW w \in Workers, Worker(w) PROVE Safe'
    BY <1>1, <1>4, DriveStep, FetchStep, ArmNextStep, LeaveStep DEF Worker
<1>5. CASE Epoller
    BY <1>5, EpollerSafe
<1>6. CASE Maintainer
  <2>1. CASE imp_dismiss
      BY <2>1, DismissStep
  <2>2. CASE Decrease \/ Drained \/ PendingEvent
      BY <1>0, <2>2 DEF Decrease, Drained, PendingEvent
  <2> QED BY <1>6, <2>1, <2>2 DEF Maintainer
<1>7. ASSUME NEW i \in Imps, TimerExpires(i) \/ IoArrives(i) \/ imp_kill(i) PROVE Safe'
    BY <1>0, <1>7 DEF TimerExpires, IoArrives, imp_kill, KillRead, KillWrite
<1> QED BY <1>2, <1>3, <1>4, <1>5, <1>6, <1>7 DEF Next

LEMMA SafeInductive == IInv /\ (raced \/ Safe) /\ [Next]_vars => (IInv /\ (raced \/ Safe))'
    BY NextIInv, NextSafe, RacedStays

(* Until one of the four races, no thread follows a pointer to an imp that *)
(* the maintainer has freed, whatever the workers, the epoller and the     *)
(* maintainer do beside each other: thr_driver, thr_epoller, imp_dismiss.  *)
(* With LogLevel L_DEBUG this is not so, as the workers log imps they have *)
(* terminated.                                                             *)
THEOREM NothingFreedIsUsed ==
    ASSUME ~Debug
    PROVE  Spec => []NoUseAfterFree
<1>1. Init => IInv /\ Safe
    BY InitIInv, InitSafe
<1>2. IInv /\ (raced \/ Safe) => NoUseAfterFree
  <2> SUFFICES ASSUME IInv, Safe PROVE NoUseAfterFree
      BY DEF NoUseAfterFree
  <2>1. \A w \in Workers : InDriver(w) \/ InLog(w) => mem[cur[w]] = "live"
      BY DEF Safe, LiveInv, At, InLog
  <2>2. \A i \in Imps : Taken(i) => mem[i] = "live"
      BY DEF Safe, LiveInv, EpollInv
  <2>3. \A e \in batch : mem[e[1]] = "live"
      BY <2>2 DEF IInv, TypeOK, Taken
  <2>4. epc = "cas" => mem[ecur] = "live"
      BY <2>2 DEF IInv, Holding, Taken
  <2>5. terminated_queue # <<>> => Head(terminated_queue) \in Imps /\ Head(terminated_queue) \in TQ
      BY Removing DEF IInv, TypeOK, TQ
  <2>6. terminated_queue # <<>> => mem[Head(terminated_queue)] = "live"
      BY <2>5 DEF Safe, LiveInv
  <2> QED BY <2>1, <2>3, <2>4, <2>6 DEF NoUseAfterFree
<1> QED BY <1>1, <1>2, SafeInductive, PTL DEF Spec

-----------------------------------------------------------------------------
(***************************************************************************)
(* Who wakes a sleeper.  The loop of imp_driver hands every descriptor it  *)
(* asked for to epoll, a timer while it is set; and what it has armed      *)
(* stays armed, or its event is on the way to the epoller.                 *)
(***************************************************************************)

(* requested_events is empty outside the loop that arms.                   *)
Arming(w) == pc[w] \in {"arm", "poll"}
RequestInv == \A i \in Imps : requested[i] # {} => \E w \in Workers : cur[w] = i /\ Arming(w)

(* A timer that the worker has still to arm is on, unless an earlier       *)
(* descriptor of the same wait has brought an event.                       *)
Pending(w) ==
    Arming(w) /\ ("timer" \in requested[cur[w]] \/ (pc[w] = "poll" /\ job[w] = "timer"))
TimerHeld(w) ==
    timer[cur[w]] # "off" \/ Taken(cur[w]) \/ (slept[w] /\ ~waitio[cur[w]])
TimerInv == \A w \in Workers : Pending(w) => TimerHeld(w)

(* Somebody can wake an imp marked as waiting.                             *)
CanReport(i) ==
    \/ "io" \in armed[i]
    \/ "timer" \in armed[i] /\ timer[i] # "off"
    \/ Taken(i)
    \/ \E w \in Workers : cur[w] = i /\ pc[w] = "poll"
ArmedInv == \A i \in Imps \ MayRefuse : waitio[i] => CanReport(i)

CanWake == RequestInv /\ TimerInv /\ ArmedInv

LEMMA InitCanWake == Init => CanWake
    BY DEF Init, CanWake, RequestInv, TimerInv, ArmedInv, Pending, Arming

(* A step that takes nothing from a sleeper, nor from a worker that arms.  *)
LEMMA WakeFrame ==
    ASSUME IInv, CanWake, UNCHANGED <<requested, armed, waitio>>,
           \A i \in Imps : timer'[i] = "off" <=> timer[i] = "off",
           \A i \in Imps : Taken(i)' = Taken(i),
           \A v \in Workers : Arming(v) \/ Arming(v)' =>
               pc'[v] = pc[v] /\ cur'[v] = cur[v] /\ slept'[v] = slept[v] /\ job'[v] = job[v]
    PROVE  CanWake'
<1>1. RequestInv'
    BY DEF CanWake, RequestInv, Arming
<1>2. TimerInv'
  <2> SUFFICES ASSUME NEW v \in Workers, Pending(v)' PROVE TimerHeld(v)'
      BY DEF TimerInv
  <2>1. /\ Arming(v) /\ pc'[v] = pc[v] /\ cur'[v] = cur[v] /\ slept'[v] = slept[v]
        /\ job'[v] = job[v] /\ cur[v] \in Imps
      BY DEF Pending, Arming, IInv, Holding
  <2>2. TimerHeld(v)
      BY <2>1 DEF Pending, CanWake, TimerInv
  <2>3. PICK i \in Imps : i = cur[v]
      BY <2>1
  <2>4. timer[i] # "off" \/ Taken(i) \/ (slept[v] /\ ~waitio[i])
      BY <2>2, <2>3 DEF TimerHeld
  <2>5. timer'[i] # "off" \/ Taken(i)' \/ (slept'[v] /\ ~waitio'[i])
      BY <2>1, <2>4
  <2>6. cur'[v] = i
      BY <2>1, <2>3
  <2> QED BY <2>5, <2>6 DEF TimerHeld, Taken
<1>3. ArmedInv'
    BY DEF CanWake, ArmedInv, CanReport, Arming
<1> QED BY <1>1, <1>2, <1>3 DEF CanWake

(* Two workers that arm are at different imps.                             *)
LEMMA ArmingIsAt ==
    ASSUME IInv, Safe, NEW w \in Workers, At(w), NEW v \in Workers, v # w, Arming(v)
    PROVE  At(v) /\ cur[v] # cur[w] /\ cur[v] \in Imps /\ cur[w] \in Imps
    BY AtHolds DEF Arming, At, InDriver, Safe, ThreadInv

LEMMA ReductWakes ==
    ASSUME IInv, Safe, CanWake, NEW w \in Workers, Reduct(w)
    PROVE  CanWake'
<1>1. /\ pc[w] = "reduct" /\ At(w) /\ Quiet(w) /\ cur[w] \in Imps /\ Go(w, "check")
      /\ UNCHANGED <<requested, armed, waitio, cur, slept, job, epc, batch, ecur>>
    BY AtHolds DEF Reduct, At, InDriver, Quiet, Safe, ThreadInv, epoller
<1>2. ~waitio[cur[w]]
    BY <1>1 DEF Safe, PlaceInv
<1>3. \A j \in Imps : j # cur[w] => timer'[j] = timer[j]
    BY <1>1 DEF Reduct, IInv, TypeOK
<1>4. /\ \A v \in Workers : pc'[v] = IF v = w THEN "check" ELSE pc[v]
      /\ \A v \in Workers : Arming(v)' <=> Arming(v)
      /\ ~Arming(w)
    BY <1>1, PcOf DEF Arming
<1>5. \A i : Taken(i)' = Taken(i)
    BY <1>1 DEF Taken
<1>6. RequestInv'
    BY <1>1, <1>4 DEF CanWake, RequestInv
<1>7. TimerInv'
  <2> SUFFICES ASSUME NEW v \in Workers, Pending(v)' PROVE TimerHeld(v)'
      BY DEF TimerInv
  <2>1. v # w /\ Arming(v) /\ Pending(v) /\ pc'[v] = pc[v]
      BY <1>1, <1>4 DEF Pending
  <2>2. cur[v] # cur[w] /\ cur[v] \in Imps
      BY <1>1, <2>1, ArmingIsAt
  <2>3. TimerHeld(v)
      BY <2>1 DEF CanWake, TimerInv
  <2> QED BY <1>1, <1>3, <2>2, <2>3 DEF TimerHeld, Taken
<1>8. ArmedInv'
  <2> SUFFICES ASSUME NEW j \in Imps \ MayRefuse, waitio[j] PROVE CanReport(j)'
      BY <1>1 DEF ArmedInv
  <2>1. CanReport(j) /\ j # cur[w]
      BY <1>2 DEF CanWake, ArmedInv
  <2> QED BY <1>1, <1>3, <1>4, <1>5, <2>1 DEF CanReport
<1> QED BY <1>6, <1>7, <1>8 DEF CanWake

LEMMA YieldWakes ==
    ASSUME IInv, Safe, CanWake, NEW w \in Workers, SoulYield(w)
    PROVE  CanWake'
<1>1. /\ pc[w] = "drive" /\ At(w) /\ Quiet(w) /\ cur[w] \in Imps /\ Go(w, "arm")
      /\ UNCHANGED <<armed, waitio, cur, slept, job, epc, batch, ecur>>
    BY AtHolds DEF SoulYield, At, InDriver, Quiet, Safe, ThreadInv, epoller
<1>2. ~waitio[cur[w]] /\ ~slept[w]
    BY <1>1 DEF Safe, PlaceInv, Quiet
<1>2a. PICK r \in Requests[cur[w]] :
        /\ \E appended \in SUBSET r :
              requested' = [requested EXCEPT ![cur[w]] = @ \cup appended]
        /\ timer' = IF "timer" \in r THEN [timer EXCEPT ![cur[w]] = "set"] ELSE timer
    BY DEF SoulYield
<1>3. PICK appended \in SUBSET r :
        requested' = [requested EXCEPT ![cur[w]] = @ \cup appended]
    BY <1>2a
<1>4. requested[cur[w]] = {}
  <2> SUFFICES ASSUME requested[cur[w]] # {} PROVE FALSE
      OBVIOUS
  <2>1. PICK v \in Workers : cur[v] = cur[w] /\ Arming(v)
      BY <1>1 DEF CanWake, RequestInv
  <2>2. v # w
      BY <1>1, <2>1 DEF Arming
  <2> QED BY <1>1, <2>1, <2>2, ArmingIsAt
<1>5. /\ \A j \in Imps : j # cur[w] => timer'[j] = timer[j] /\ requested'[j] = requested[j]
      /\ \A j \in Imps : timer[j] # "off" => timer'[j] # "off"
      /\ "timer" \in requested'[cur[w]] => timer'[cur[w]] # "off"
    BY <1>1, <1>2a, <1>3, <1>4 DEF IInv, TypeOK
<1>6. /\ \A v \in Workers : pc'[v] = IF v = w THEN "arm" ELSE pc[v]
      /\ \A v \in Workers : Arming(v)' <=> Arming(v) \/ v = w
    BY <1>1, PcOf DEF Arming
<1>7. \A i : Taken(i)' = Taken(i)
    BY <1>1 DEF Taken
<1>8. RequestInv'
  <2> SUFFICES ASSUME NEW j \in Imps, requested'[j] # {}
               PROVE  \E v \in Workers : cur[v] = j /\ Arming(v)'
      BY <1>1 DEF RequestInv
  <2>1. CASE j = cur[w]
      BY <1>6, <2>1
  <2>2. CASE j # cur[w]
      BY <1>5, <1>6, <2>2 DEF CanWake, RequestInv
  <2> QED BY <2>1, <2>2
<1>9. TimerInv'
  <2> SUFFICES ASSUME NEW v \in Workers, Pending(v)' PROVE TimerHeld(v)'
      BY DEF TimerInv
  <2>1. CASE v = w
    <3>1. "timer" \in requested'[cur[w]]
        BY <1>1, <1>6, <2>1 DEF Pending
    <3> QED BY <1>1, <1>5, <2>1, <3>1 DEF TimerHeld
  <2>2. CASE v # w
    <3>1. Arming(v) /\ pc'[v] = pc[v]
        BY <1>6, <2>2 DEF Pending
    <3>2. cur[v] # cur[w] /\ cur[v] \in Imps
        BY <1>1, <2>2, <3>1, ArmingIsAt
    <3>3. Pending(v)
        BY <1>1, <1>5, <3>1, <3>2 DEF Pending
    <3>4. TimerHeld(v)
        BY <3>3 DEF CanWake, TimerInv
    <3> QED BY <1>1, <1>5, <3>2, <3>4 DEF TimerHeld, Taken
  <2> QED BY <2>1, <2>2
<1>10. ArmedInv'
  <2> SUFFICES ASSUME NEW j \in Imps \ MayRefuse, waitio[j] PROVE CanReport(j)'
      BY <1>1 DEF ArmedInv
  <2>1. CanReport(j) /\ j # cur[w]
      BY <1>2 DEF CanWake, ArmedInv
  <2>2. \A v \in Workers : pc[v] = "poll" => pc'[v] = "poll"
      BY <1>1, <1>6
  <2> QED BY <1>1, <1>5, <1>7, <2>1, <2>2 DEF CanReport
<1> QED BY <1>8, <1>9, <1>10 DEF CanWake

LEMMA ArmNextWakes ==
    ASSUME IInv, Safe, CanWake, ~raced', NEW w \in Workers, ArmNext(w)
    PROVE  CanWake'
<1>1. /\ pc[w] = "arm" /\ At(w) /\ cur[w] \in Imps /\ Go(w, "poll")
      /\ slept[w] => waitio[cur[w]]
      /\ waitio' = [waitio EXCEPT ![cur[w]] = TRUE] /\ slept' = [slept EXCEPT ![w] = TRUE]
      /\ UNCHANGED <<timer, armed, cur, epc, batch, ecur>>
    BY AtHolds DEF ArmNext, At, InDriver, epoller
<1>2. PICK k \in requested[cur[w]] :
        /\ requested' = [requested EXCEPT ![cur[w]] = @ \ {k}]
        /\ job' = [job EXCEPT ![w] = k]
    BY DEF ArmNext
<1>3. /\ \A j \in Imps : j # cur[w] => waitio'[j] = waitio[j] /\ requested'[j] = requested[j]
      /\ \A v \in Workers : v # w => slept'[v] = slept[v] /\ job'[v] = job[v]
      /\ requested'[cur[w]] \subseteq requested[cur[w]]
      /\ job'[w] = "timer" => "timer" \in requested[cur[w]]
      /\ \A j \in Imps : waitio[j] => waitio'[j]
      /\ requested[cur[w]] # {}
    BY <1>1, <1>2 DEF IInv, TypeOK
<1>4. /\ \A v \in Workers : pc'[v] = IF v = w THEN "poll" ELSE pc[v]
      /\ \A v \in Workers : Arming(v)' = Arming(v)
    BY <1>1, PcOf DEF Arming
<1>5. \A i : Taken(i)' = Taken(i)
    BY <1>1 DEF Taken
<1>6. RequestInv'
  <2> SUFFICES ASSUME NEW j \in Imps, requested'[j] # {}
               PROVE  \E v \in Workers : cur[v] = j /\ Arming(v)
      BY <1>1, <1>4 DEF RequestInv
  <2>1. requested[j] # {}
      BY <1>3
  <2> QED BY <2>1 DEF CanWake, RequestInv
<1>7. TimerInv'
  <2> SUFFICES ASSUME NEW v \in Workers, Pending(v)' PROVE TimerHeld(v)'
      BY DEF TimerInv
  <2>1. CASE v = w
    <3>1. "timer" \in requested[cur[w]]
        BY <1>1, <1>3, <2>1 DEF Pending
    <3>2. TimerHeld(w)
        BY <1>1, <3>1 DEF CanWake, TimerInv, Pending, Arming
    <3>3. timer[cur[w]] # "off" \/ Taken(cur[w])
        BY <1>1, <3>2 DEF TimerHeld
    <3>4. timer'[cur'[w]] # "off" \/ Taken(cur[w])'
        BY <1>1, <3>3 DEF Taken
    <3> QED BY <2>1, <3>4 DEF TimerHeld
  <2>2. CASE v # w
    <3>1. Arming(v) /\ pc'[v] = pc[v]
        BY <1>4, <2>2 DEF Pending
    <3>2. cur[v] # cur[w] /\ cur[v] \in Imps
        BY <1>1, <2>2, <3>1, ArmingIsAt
    <3>3. Pending(v)
        BY <1>1, <1>3, <2>2, <3>1, <3>2 DEF Pending
    <3>4. TimerHeld(v)
        BY <3>3 DEF CanWake, TimerInv
    <3>5. waitio'[cur[v]] = waitio[cur[v]] /\ slept'[v] = slept[v]
        BY <1>3, <2>2, <3>2
    <3> QED BY <1>1, <3>4, <3>5 DEF TimerHeld, Taken
  <2> QED BY <2>1, <2>2
<1>8. ArmedInv'
  <2> SUFFICES ASSUME NEW j \in Imps \ MayRefuse, waitio'[j] PROVE CanReport(j)'
      BY DEF ArmedInv
  <2>1. CASE j = cur[w]
      BY <1>1, <1>4, <2>1 DEF CanReport
  <2>2. CASE j # cur[w]
    <3>1. CanReport(j)
        BY <1>3, <2>2 DEF CanWake, ArmedInv
    <3>2. \A v \in Workers : pc[v] = "poll" => pc'[v] = "poll"
        BY <1>4
    <3> QED BY <1>1, <1>5, <3>1, <3>2 DEF CanReport
  <2> QED BY <2>1, <2>2
<1> QED BY <1>6, <1>7, <1>8 DEF CanWake

LEMMA PollWakes ==
    ASSUME IInv, Safe, CanWake, NEW w \in Workers, set_poll_action(w)
    PROVE  CanWake'
<1>1. /\ pc[w] = "poll" /\ At(w) /\ cur[w] \in Imps /\ job[w] \in Kinds /\ Go(w, "arm")
      /\ job' = [job EXCEPT ![w] = "none"]
      /\ UNCHANGED <<requested, timer, waitio, slept, cur, epc, batch, ecur>>
    BY AtHolds DEF set_poll_action, At, InDriver, epoller, IInv, Holding
<1>2. /\ \A j \in Imps : j # cur[w] => armed'[j] = armed[j]
      /\ cur[w] \notin MayRefuse => job[w] \in armed'[cur[w]]
  <2>1. \/ armed' = [armed EXCEPT ![cur[w]] = armed[cur[w]] \cup {job[w]}]
        \/ cur[w] \in MayRefuse /\ armed' = armed
      BY DEF set_poll_action, Enable
  <2> QED BY <1>1, <2>1 DEF IInv, TypeOK
<1>3. /\ \A v \in Workers : pc'[v] = IF v = w THEN "arm" ELSE pc[v]
      /\ \A v \in Workers : Arming(v)' = Arming(v)
      /\ \A v \in Workers : v # w => job'[v] = job[v]
    BY <1>1, PcOf DEF Arming, IInv, TypeOK
<1>4. \A i : Taken(i)' = Taken(i)
    BY <1>1 DEF Taken
<1>5. RequestInv'
    BY <1>1, <1>3 DEF CanWake, RequestInv
<1>6. TimerInv'
  <2> SUFFICES ASSUME NEW v \in Workers, Pending(v)' PROVE TimerHeld(v)'
      BY DEF TimerInv
  <2>1. Pending(v)
    <3>1. CASE v = w
      <4>1. "timer" \in requested[cur[w]]
          BY <1>1, <1>3, <3>1 DEF Pending
      <4> QED BY <1>1, <3>1, <4>1 DEF Pending, Arming
    <3>2. CASE v # w
        BY <1>1, <1>3, <3>2 DEF Pending
    <3> QED BY <3>1, <3>2
  <2>2. TimerHeld(v)
      BY <2>1 DEF CanWake, TimerInv
  <2> QED BY <1>1, <2>2 DEF TimerHeld, Taken
<1>7. ArmedInv'
  <2> SUFFICES ASSUME NEW j \in Imps \ MayRefuse, waitio[j] PROVE CanReport(j)'
      BY <1>1 DEF ArmedInv
  <2>1. CASE j = cur[w]
    <3>1. job[w] = "io" \/ job[w] = "timer"
        BY <1>1 DEF Kinds
    <3>2. CASE job[w] = "io"
        BY <1>2, <2>1, <3>2 DEF CanReport
    <3>3. CASE job[w] = "timer"
      <4>1. TimerHeld(w)
          BY <1>1, <3>3 DEF CanWake, TimerInv, Pending, Arming
      <4>2. timer[j] # "off" \/ Taken(j)
          BY <2>1, <4>1 DEF TimerHeld
      <4>3. timer'[j] # "off" \/ Taken(j)'
          BY <1>1, <1>4, <4>2
      <4>4. "timer" \in armed'[j]
          BY <1>2, <2>1, <3>3
      <4> QED BY <4>3, <4>4 DEF CanReport
    <3> QED BY <3>1, <3>2, <3>3
  <2>2. CASE j # cur[w]
    <3>1. CanReport(j)
        BY DEF CanWake, ArmedInv
    <3>2. \A v \in Workers : cur[v] = j /\ pc[v] = "poll" => cur'[v] = j /\ pc'[v] = "poll"
        BY <1>1, <1>3, <2>2
    <3> QED BY <1>1, <1>2, <1>4, <2>2, <3>1, <3>2 DEF CanReport
  <2> QED BY <2>1, <2>2
<1> QED BY <1>5, <1>6, <1>7 DEF CanWake

(* Nobody else is inside the list, so the loop ends when it is empty.      *)
LEMMA ArmEndWakes ==
    ASSUME IInv, Safe, CanWake, NEW w \in Workers, ArmEnd(w)
    PROVE  CanWake'
<1>1. /\ pc[w] = "arm" /\ At(w) /\ cur[w] \in Imps
      /\ UNCHANGED <<requested, timer, armed, waitio, slept, job, cur, epc, batch, ecur>>
    BY AtHolds DEF ArmEnd, At, InDriver, epoller, body, workers
<1>2. PICK label \in {"count", "rerun"} : Go(w, label)
    BY DEF ArmEnd
<1>3. \A v \in Workers : pc'[v] = IF v = w THEN label ELSE pc[v]
    BY <1>2, PcOf
<1>4. requested[cur[w]] = {}
  <2>1. ~Contended(w)
      BY <1>1 DEF Contended, At, InDriver, Safe, ThreadInv
  <2> QED BY <2>1 DEF ArmEnd
<1>5. /\ \A v \in Workers : Arming(v)' <=> Arming(v) /\ v # w
      /\ \A v \in Workers : pc'[v] = "poll" <=> pc[v] = "poll"
    BY <1>1, <1>3 DEF Arming
<1>6. \A i : Taken(i)' = Taken(i)
    BY <1>1 DEF Taken
<1>7. RequestInv'
    BY <1>1, <1>4, <1>5 DEF CanWake, RequestInv
<1>8. TimerInv'
  <2> SUFFICES ASSUME NEW v \in Workers, Pending(v)' PROVE TimerHeld(v)'
      BY DEF TimerInv
  <2>1. Pending(v)
      BY <1>1, <1>5 DEF Pending
  <2>2. TimerHeld(v)
      BY <2>1 DEF CanWake, TimerInv
  <2> QED BY <1>1, <2>2 DEF TimerHeld, Taken
<1>9. ArmedInv'
    BY <1>1, <1>5, <1>6 DEF CanWake, ArmedInv, CanReport
<1> QED BY <1>7, <1>8, <1>9 DEF CanWake

LEMMA EpollWaitWakes ==
    ASSUME IInv, CanWake, epoll_wait
    PROVE  CanWake'
<1>1. /\ epc = "wait" /\ batch = {}
      /\ UNCHANGED <<requested, timer, waitio, pc, cur, slept, job>>
      /\ batch' = {e \in Imps \X Kinds : Reports(e[1], e[2])}
      /\ \A j \in Imps : armed'[j] = {k \in armed[j] : ~Reports(j, k)}
    BY DEF epoll_wait, workers
<1>2. \A j : ~Taken(j)
    BY <1>1 DEF Taken
<1>3. \A j \in Imps : \A k \in Kinds : Reports(j, k) => Taken(j)'
  <2> TAKE j \in Imps
  <2> TAKE k \in Kinds
  <2> HAVE Reports(j, k)
  <2>1. <<j, k>> \in batch' /\ <<j, k>>[1] = j
      BY <1>1
  <2> QED BY <2>1 DEF Taken
<1>4. RequestInv'
    BY <1>1 DEF CanWake, RequestInv, Arming
<1>5. TimerInv'
  <2> SUFFICES ASSUME NEW v \in Workers, Pending(v)' PROVE TimerHeld(v)'
      BY DEF TimerInv
  <2>1. Pending(v)
      BY <1>1 DEF Pending, Arming
  <2>2. TimerHeld(v)
      BY <2>1 DEF CanWake, TimerInv
  <2> QED BY <1>1, <1>2, <2>2 DEF TimerHeld
<1>6. ArmedInv'
  <2> SUFFICES ASSUME NEW j \in Imps \ MayRefuse, waitio[j] PROVE CanReport(j)'
      BY <1>1 DEF ArmedInv
  <2>1. CanReport(j)
      BY DEF CanWake, ArmedInv
  <2>2. "io" \in Kinds /\ "timer" \in Kinds
      BY DEF Kinds
  <2> QED BY <1>1, <1>2, <1>3, <2>1, <2>2 DEF CanReport
<1> QED BY <1>4, <1>5, <1>6 DEF CanWake

LEMMA CancelWakes ==
    ASSUME IInv, CanWake, imp_cancel_timer
    PROVE  CanWake'
<1>1. PICK e \in batch : /\ ecur' = e[1] /\ batch' = batch \ {e}
                         /\ timer' = [timer EXCEPT ![e[1]] = "off"]
    BY DEF imp_cancel_timer
<1>2. /\ epc = "wait" /\ epc' = "cas"
      /\ UNCHANGED <<requested, armed, waitio, pc, cur, slept, job>>
    BY DEF imp_cancel_timer, workers
<1>3. \A j : Taken(j)' = Taken(j)
    BY <1>1, <1>2 DEF Taken
<1>4. Taken(e[1])
    BY <1>1 DEF Taken
<1>5. \A j \in Imps : timer'[j] = timer[j] \/ Taken(j)'
    BY <1>1, <1>3, <1>4 DEF IInv, TypeOK
<1>6. RequestInv'
    BY <1>2 DEF CanWake, RequestInv, Arming
<1>7. TimerInv'
  <2> SUFFICES ASSUME NEW v \in Workers, Pending(v)' PROVE TimerHeld(v)'
      BY DEF TimerInv
  <2>1. Pending(v) /\ cur[v] \in Imps
      BY <1>2 DEF Pending, Arming, IInv, Holding
  <2>2. TimerHeld(v)
      BY <2>1 DEF CanWake, TimerInv
  <2>3. PICK i \in Imps : i = cur[v]
      BY <2>1
  <2>4. timer[i] # "off" \/ Taken(i) \/ (slept[v] /\ ~waitio[i])
      BY <2>2, <2>3 DEF TimerHeld
  <2>5. timer'[i] # "off" \/ Taken(i)' \/ (slept'[v] /\ ~waitio'[i])
      BY <1>2, <1>3, <1>5, <2>4
  <2>6. cur'[v] = i
      BY <1>2, <2>3
  <2> QED BY <2>5, <2>6 DEF TimerHeld, Taken
<1>8. ArmedInv'
    BY <1>2, <1>3, <1>5 DEF CanWake, ArmedInv, CanReport
<1> QED BY <1>6, <1>7, <1>8 DEF CanWake

LEMMA CasWakes ==
    ASSUME IInv, Safe, CanWake, WakeCas
    PROVE  CanWake'
<1>1. /\ epc = "cas" /\ ecur \in Imps /\ epc' = "wake"
      /\ UNCHANGED <<requested, timer, armed, pc, cur, slept, job, batch>>
    BY WakeCasStep DEF WakeCas, IInv, Holding, body, workers
<1>2. \A j \in Imps : waitio'[j] <=> waitio[j] /\ j # ecur
    BY <1>1 DEF WakeCas, IInv, TypeOK
<1>3. \A j : j # ecur => Taken(j)' = Taken(j)
    BY <1>1 DEF Taken
<1>4. RequestInv'
    BY <1>1 DEF CanWake, RequestInv, Arming
<1>5. TimerInv'
  <2> SUFFICES ASSUME NEW v \in Workers, Pending(v)' PROVE TimerHeld(v)'
      BY DEF TimerInv
  <2>1. Pending(v) /\ Arming(v) /\ cur[v] \in Imps
      BY <1>1 DEF Pending, Arming, IInv, Holding
  <2>2. TimerHeld(v)
      BY <2>1 DEF CanWake, TimerInv
  <2>3. PICK i \in Imps : i = cur[v]
      BY <2>1
  <2>4. timer[i] # "off" \/ Taken(i) \/ (slept[v] /\ ~waitio[i])
      BY <2>2, <2>3 DEF TimerHeld
  <2>5. i = ecur => slept[v]
    <3> HAVE i = ecur
    <3>1. waitio[cur[v]] /\ At(v)
        BY <2>1, <2>3, WakeCasStep DEF Arming, At, InDriver
    <3> QED BY <3>1 DEF Safe, PlaceInv, Quiet
  <2>6. timer'[i] # "off" \/ Taken(i)' \/ (slept'[v] /\ ~waitio'[i])
      BY <1>1, <1>2, <1>3, <2>4, <2>5
  <2>7. cur'[v] = i
      BY <1>1, <2>3
  <2> QED BY <2>6, <2>7 DEF TimerHeld, Taken
<1>6. ArmedInv'
  <2> SUFFICES ASSUME NEW j \in Imps \ MayRefuse, waitio'[j] PROVE CanReport(j)'
      BY DEF ArmedInv
  <2>1. waitio[j] /\ j # ecur
      BY <1>2
  <2>2. CanReport(j)
      BY <2>1 DEF CanWake, ArmedInv
  <2> QED BY <1>1, <1>3, <2>1, <2>2 DEF CanReport
<1> QED BY <1>4, <1>5, <1>6 DEF CanWake

LEMMA DismissWakes ==
    ASSUME IInv, Safe, CanWake, imp_dismiss
    PROVE  CanWake'
<1>0. Head(terminated_queue) \in Imps
    BY Removing DEF imp_dismiss, IInv, TypeOK
<1>i. PICK i \in Imps : i = Head(terminated_queue)
    BY <1>0
<1>1. i \in TQ
    BY <1>i, Removing DEF imp_dismiss, IInv, TypeOK, TQ
<1>2. UNCHANGED <<waitio, pc, cur, slept, job, epc, batch, ecur>>
    BY DEF imp_dismiss, workers, epoller
<1>3. /\ \A j \in Imps : j # i => /\ timer'[j] = timer[j] /\ requested'[j] = requested[j]
                                  /\ armed'[j] = armed[j]
      /\ requested'[i] = {}
    BY <1>i DEF imp_dismiss, IInv, TypeOK
<1>4. ~waitio[i] /\ \A v \in Workers : Arming(v) => cur[v] # i
    BY <1>1 DEF Safe, PlaceInv, Arming, At, InDriver
<1>5. \A j : Taken(j)' = Taken(j)
    BY <1>2 DEF Taken
<1>6. RequestInv'
    BY <1>2, <1>3 DEF CanWake, RequestInv, Arming
<1>7. TimerInv'
  <2> SUFFICES ASSUME NEW v \in Workers, Pending(v)' PROVE TimerHeld(v)'
      BY DEF TimerInv
  <2>1. Arming(v) /\ cur[v] \in Imps
      BY <1>2 DEF Pending, Arming, IInv, Holding
  <2>2. cur[v] # i
      BY <1>4, <2>1
  <2>3. Pending(v)
      BY <1>2, <1>3, <2>1, <2>2 DEF Pending, Arming
  <2>4. TimerHeld(v)
      BY <2>3 DEF CanWake, TimerInv
  <2> QED BY <1>2, <1>3, <2>1, <2>2, <2>4 DEF TimerHeld, Taken
<1>8. ArmedInv'
    BY <1>2, <1>3, <1>4, <1>5 DEF CanWake, ArmedInv, CanReport
<1> QED BY <1>6, <1>7, <1>8 DEF CanWake

LEMMA NextWakes ==
    ASSUME IInv, Safe, CanWake, ~raced', [Next]_vars
    PROVE  CanWake'
<1> USE DEF body, queues, counts, workers, summons, epoller, maint
<1>1. ASSUME UNCHANGED <<requested, armed, waitio, pc, cur, slept, job>>,
             \A i \in Imps : timer'[i] = "off" <=> timer[i] = "off",
             UNCHANGED <<epc, batch, ecur>> \/ (epc # "cas" /\ epc' # "cas" /\ UNCHANGED batch)
      PROVE  CanWake'
  <2>1. \A i \in Imps : Taken(i)' = Taken(i)
      BY <1>1 DEF Taken
  <2> QED BY <1>1, <2>1, WakeFrame
<1>2. CASE UNCHANGED vars
    BY <1>1, <1>2 DEF vars
<1>3. ASSUME NEW a \in Actors, Summon(a) PROVE CanWake'
    BY <1>1, <1>3 DEF Summon, SummonCheck, imp_new, SummonRun
<1>4. ASSUME NEW w \in Workers, Worker(w) PROVE CanWake'
  <2>1. ASSUME UNCHANGED <<requested, armed, waitio, timer, epc, batch, ecur>>, ~Arming(w),
               NEW label \in Labels \ {"arm", "poll"}, Go(w, label),
               \A v \in Workers : v # w => cur'[v] = cur[v] /\ slept'[v] = slept[v] /\ job'[v] = job[v]
        PROVE  CanWake'
    <3>1. \A v \in Workers : pc'[v] = IF v = w THEN label ELSE pc[v]
        BY <2>1, PcOf
    <3>2. \A i \in Imps : Taken(i)' = Taken(i)
        BY <2>1 DEF Taken
    <3>3. \A v \in Workers : Arming(v) \/ Arming(v)' => v # w
        BY <2>1, <3>1 DEF Arming
    <3> QED BY <2>1, <3>1, <3>2, <3>3, WakeFrame
  <2>2. CASE Fetch(w)
    <3>1. /\ UNCHANGED <<requested, armed, waitio, timer, slept, job, epc, batch, ecur>>
          /\ ~Arming(w) /\ Go(w, "reduct")
        BY <2>2 DEF Fetch, Arming
    <3>2. \A v \in Workers : v # w => cur'[v] = cur[v]
        BY <2>2 DEF Fetch, IInv, TypeOK
    <3> QED BY <2>1, <3>1, <3>2 DEF Labels
  <2>3. CASE CheckKill(w)
    <3>1. UNCHANGED <<requested, armed, waitio, timer, cur, slept, job, epc, batch, ecur>> /\ ~Arming(w)
        BY <2>3, KillClearsNothing DEF CheckKill, Arming
    <3>2. Go(w, "term") \/ Go(w, "alert")
        BY <2>3 DEF CheckKill
    <3> QED BY <2>1, <3>1, <3>2 DEF Labels
  <2>4. CASE CheckAlert(w) \/ SoulTerm(w)
    <3>1. UNCHANGED <<requested, armed, waitio, timer, cur, slept, job, epc, batch, ecur>> /\ ~Arming(w)
        BY <2>4 DEF CheckAlert, SoulTerm, Arming
    <3>2. Go(w, "term") \/ Go(w, "drive")
        BY <2>4 DEF CheckAlert, SoulTerm
    <3> QED BY <2>1, <3>1, <3>2 DEF Labels
  <2>5. CASE CountSleeper(w)
    <3>1. /\ UNCHANGED <<requested, armed, waitio, timer, cur, job, epc, batch, ecur>>
          /\ ~Arming(w) /\ Go(w, "yielded")
        BY <2>5 DEF CountSleeper, Arming
    <3>2. \A v \in Workers : v # w => slept'[v] = slept[v]
        BY <2>5 DEF CountSleeper, IInv, TypeOK
    <3> QED BY <2>1, <3>1, <3>2 DEF Labels
  <2>6. CASE Rerun(w) \/ imp_term(w) \/ thr_maintainer_wakeup(w)
    <3>1. UNCHANGED <<requested, armed, waitio, timer, cur, slept, job, epc, batch, ecur>> /\ ~Arming(w)
        BY <2>6 DEF Rerun, imp_term, thr_maintainer_wakeup, Arming
    <3>2. Go(w, "yielded") \/ Go(w, "wakeup")
        BY <2>6 DEF Rerun, imp_term, AfterTerm, thr_maintainer_wakeup
    <3> QED BY <2>1, <3>1, <3>2 DEF Labels
  <2>7. CASE Yielded(w)
    <3>1. /\ UNCHANGED <<requested, armed, waitio, timer, slept, job, epc, batch, ecur>>
          /\ ~Arming(w) /\ Go(w, "idle")
        BY <2>7 DEF Yielded, Arming
    <3>2. \A v \in Workers : v # w => cur'[v] = cur[v]
        BY <2>7 DEF Yielded, IInv, TypeOK
    <3> QED BY <2>1, <3>1, <3>2 DEF Labels
  <2> QED BY <1>4, <2>2, <2>3, <2>4, <2>5, <2>6, <2>7,
             ReductWakes, YieldWakes, ArmNextWakes, PollWakes, ArmEndWakes DEF Worker
<1>5. CASE Epoller
  <2>1. CASE WakeCount \/ WakeRun \/ WakeEnd
      BY <1>1, <2>1 DEF WakeCount, WakeRun, WakeEnd
  <2> QED BY <1>5, <2>1, EpollWaitWakes, CancelWakes, CasWakes DEF Epoller
<1>6. CASE Maintainer
  <2>1. CASE Decrease \/ Drained \/ PendingEvent
      BY <1>1, <2>1 DEF Decrease, Drained, PendingEvent
  <2> QED BY <1>6, <2>1, DismissWakes DEF Maintainer
<1>7. ASSUME NEW i \in Imps, TimerExpires(i) \/ IoArrives(i) \/ imp_kill(i) PROVE CanWake'
  <2>1. \A j \in Imps : timer'[j] = "off" <=> timer[j] = "off"
      BY <1>7 DEF TimerExpires, IoArrives, imp_kill, KillRead, KillWrite, IInv, TypeOK
  <2> QED BY <1>1, <1>7, <2>1 DEF TimerExpires, IoArrives, imp_kill, KillRead, KillWrite
<1> QED BY <1>2, <1>3, <1>4, <1>5, <1>6, <1>7 DEF Next

(* Until a race, an imp that imp_driver marked as waiting has a descriptor *)
(* enabled that can report, or an event on its way, unless epoll refused   *)
(* its descriptor: with any number of workers, and whatever it asked for.  *)
THEOREM SleepersCanWake == Spec => []AsleepIsArmed
<1>1. Init => IInv /\ Safe /\ CanWake
    BY InitIInv, InitSafe, InitCanWake
<1>2. IInv /\ (raced \/ (Safe /\ CanWake)) /\ [Next]_vars => (IInv /\ (raced \/ (Safe /\ CanWake)))'
    BY NextIInv, NextSafe, NextWakes, RacedStays
<1>3. IInv /\ (raced \/ (Safe /\ CanWake)) => AsleepIsArmed
    BY DEF AsleepIsArmed, CanWake, ArmedInv, CanReport, Taken
<1> QED BY <1>1, <1>2, <1>3, PTL DEF Spec

-----------------------------------------------------------------------------
(***************************************************************************)
(* The counters.  nr_total is right whatever happens, for only imp_summon  *)
(* and imp_dismiss change it; nr_waitio is right until a worker marks as   *)
(* waiting an imp that is awake again.  nr_total is tested when a          *)
(* summoning begins and raised when the imp is made, so that it passes     *)
(* the limit, but by one imp of each worker.                               *)
(***************************************************************************)

(* The counters, as sums over the sets they stand for.                     *)
Slumber == {w \in Workers : slept[w]}
TotalIsLive == nr_total = Cardinality(Live) + One(mpc = "decrease")
WaitioIsAsleep == nr_waitio = Cardinality(Sleepers) + One(epc = "wake") - Cardinality(Slumber)
Overrun == nr_total + Cardinality(Begun) <= nr_max + Cardinality(Workers)
InLimit == nr_total <= nr_max

LEMMA OthersKeep ==
    ASSUME \/ \E w \in Workers : Worker(w)
           \/ Epoller
           \/ \E i \in Imps : TimerExpires(i) \/ IoArrives(i) \/ imp_kill(i)
           \/ UNCHANGED vars
    PROVE  UNCHANGED <<mem, spc, nr_total, mpc>>
<1> USE DEF body, queues, counts, workers, summons, epoller, maint
<1>1. ASSUME NEW w \in Workers, Worker(w) PROVE UNCHANGED <<mem, spc, nr_total, mpc>>
    BY <1>1 DEF Worker, Fetch, Reduct, CheckKill, CheckAlert, SoulTerm, SoulYield, ArmNext,
                set_poll_action, ArmEnd, CountSleeper, Rerun, imp_term, thr_maintainer_wakeup,
                Yielded
<1>2. CASE Epoller
    BY <1>2 DEF Epoller, epoll_wait, imp_cancel_timer, WakeCas, WakeCount, WakeRun, WakeEnd
<1>3. ASSUME NEW i \in Imps, TimerExpires(i) \/ IoArrives(i) \/ imp_kill(i)
      PROVE  UNCHANGED <<mem, spc, nr_total, mpc>>
    BY <1>3 DEF TimerExpires, IoArrives, imp_kill, KillRead, KillWrite
<1>4. CASE UNCHANGED vars
    BY <1>4 DEF vars
<1> QED BY <1>1, <1>2, <1>3, <1>4

LEMMA SetsAreFinite ==
    ASSUME IsFiniteSet(Imps)
    PROVE  /\ IsFiniteSet(Live) /\ IsFiniteSet(Sleepers)
           /\ Cardinality(Live) \in Nat /\ Cardinality(Sleepers) \in Nat
<1>1. IsFiniteSet(Live) /\ IsFiniteSet(Sleepers)
  <2>1. Live \in SUBSET Imps /\ Sleepers \in SUBSET Imps
      BY DEF Live, Sleepers
  <2> QED BY <2>1, FS_Subset
<1> QED BY <1>1, FS_CardinalityType

LEMMA SlumberIsFinite ==
    ASSUME IsFiniteSet(Workers) PROVE IsFiniteSet(Slumber) /\ Cardinality(Slumber) \in Nat
<1>1. Slumber \in SUBSET Workers
    BY DEF Slumber
<1> QED BY <1>1, FS_Subset, FS_CardinalityType

LEMMA NumberOfActors ==
    ASSUME IsFiniteSet(Workers)
    PROVE  /\ IsFiniteSet(Actors) /\ Cardinality(Actors) = Cardinality(Workers) + 1
           /\ Cardinality(Workers) \in Nat
           /\ \A S \in SUBSET Actors : /\ IsFiniteSet(S) /\ Cardinality(S) \in Nat
                                       /\ Cardinality(S) <= Cardinality(Workers) + 1
<1>1. IsFiniteSet(Actors) /\ Cardinality(Actors) = Cardinality(Workers) + 1
    BY ImpsAssumption, FS_AddElement DEF Actors
<1>2. Cardinality(Workers) \in Nat
    BY FS_CardinalityType
<1>3. ASSUME NEW S \in SUBSET Actors
      PROVE  /\ IsFiniteSet(S) /\ Cardinality(S) \in Nat
             /\ Cardinality(S) <= Cardinality(Workers) + 1
    BY <1>1, FS_Subset, FS_CardinalityType
<1> QED BY <1>1, <1>2, <1>3

LEMMA InitCounts ==
    ASSUME IsFiniteSet(Workers), Init PROVE TotalIsLive /\ WaitioIsAsleep /\ Overrun /\ InLimit
<1>1. Live = {} /\ Sleepers = {} /\ Slumber = {} /\ Begun = {}
    BY DEF Init, Live, Sleepers, Slumber, Begun
<1>2. Cardinality({}) = 0 /\ Cardinality(Workers) \in Nat
    BY FS_EmptySet, NumberOfActors
<1>3. nr_total = 0 /\ nr_waitio = 0 /\ mpc # "decrease" /\ epc # "wake"
    BY DEF Init
<1>4. TotalIsLive /\ WaitioIsAsleep
    BY <1>1, <1>2, <1>3 DEF TotalIsLive, WaitioIsAsleep, One
<1>5. Overrun /\ InLimit
    BY <1>1, <1>2, <1>3, MaxAssumption DEF Overrun, InLimit
<1> QED BY <1>4, <1>5

LEMMA NextTotal ==
    ASSUME IsFiniteSet(Imps), IInv, TotalIsLive, [Next]_vars PROVE TotalIsLive'
<1> USE DEF body, queues, counts, workers, summons, epoller, maint
<1>0. Cardinality(Live) \in Nat /\ nr_total \in Int
    BY SetsAreFinite DEF IInv, TypeOK
<1>1. ASSUME UNCHANGED <<mem, nr_total>>, mpc' = "decrease" <=> mpc = "decrease" PROVE TotalIsLive'
  <2>1. Live' = Live
      BY <1>1 DEF Live
  <2> QED BY <1>1, <2>1 DEF TotalIsLive, One
<1>2. ASSUME NEW a \in Actors, Summon(a) PROVE TotalIsLive'
  <2>1. ASSUME NEW i \in MaySummon[a], mem[i] = "none", mem' = [mem EXCEPT ![i] = "live"],
               nr_total' = nr_total + 1, UNCHANGED mpc
        PROVE  TotalIsLive'
    <3>1. i \in Imps
        BY SummonAssumption
    <3>2. Live' = Live \cup {i} /\ i \notin Live
        BY <2>1, <3>1 DEF Live, IInv, TypeOK
    <3>3. Cardinality(Live') = Cardinality(Live) + 1
        BY <3>2, SetsAreFinite, FS_AddElement
    <3> QED BY <1>0, <2>1, <3>3 DEF TotalIsLive, One
  <2>2. UNCHANGED mpc
      BY <1>2 DEF Summon, SummonCheck, imp_new, SummonRun
  <2> QED BY <1>1, <1>2, <2>1, <2>2 DEF Summon, SummonCheck, imp_new, SummonRun
<1>3. CASE imp_dismiss
  <2>1. PICK i \in Imps : i = Head(terminated_queue)
      BY <1>3, Removing DEF imp_dismiss, IInv, TypeOK
  <2>2. /\ mpc = "drain" /\ mpc' = "decrease" /\ mem[i] = "live" /\ nr_total' = nr_total
        /\ mem' = [mem EXCEPT ![i] = "freed"]
      BY <1>3, <2>1 DEF imp_dismiss
  <2>3. Live' = Live \ {i} /\ i \in Live
      BY <2>2 DEF Live, IInv, TypeOK
  <2>4. Cardinality(Live') = Cardinality(Live) - 1
      BY <2>3, SetsAreFinite, FS_RemoveElement
  <2> QED BY <1>0, <2>2, <2>4 DEF TotalIsLive, One
<1>4. CASE Decrease
  <2>1. mpc = "decrease" /\ mpc' = "drain" /\ nr_total' = nr_total - 1 /\ UNCHANGED mem
      BY <1>4 DEF Decrease
  <2>2. Live' = Live
      BY <2>1 DEF Live
  <2> QED BY <1>0, <2>1, <2>2 DEF TotalIsLive, One
<1>5. CASE Drained \/ PendingEvent
    BY <1>1, <1>5 DEF Drained, PendingEvent
<1>6. ASSUME UNCHANGED <<mem, spc, nr_total, mpc>> PROVE TotalIsLive'
    BY <1>1, <1>6
<1> QED BY <1>2, <1>3, <1>4, <1>5, <1>6, OthersKeep DEF Next, Maintainer

LEMMA NextOverrun ==
    ASSUME IsFiniteSet(Workers), IInv, Overrun, [Next]_vars PROVE Overrun'
<1> USE DEF body, queues, counts, workers, summons, epoller, maint
<1>1. /\ Cardinality(Begun) \in Nat /\ Cardinality(Workers) \in Nat /\ nr_total \in Int
      /\ Cardinality(Begun') \in Nat /\ Cardinality(Begun') <= Cardinality(Workers) + 1
  <2>1. Begun \in SUBSET Actors /\ Begun' \in SUBSET Actors
      BY DEF Begun
  <2> QED BY <2>1, NumberOfActors DEF IInv, TypeOK
<1>2. ASSUME UNCHANGED spc, nr_total' \in Int, nr_total' <= nr_total PROVE Overrun'
  <2>1. Begun' = Begun
      BY <1>2 DEF Begun
  <2> QED BY <1>1, <1>2, <2>1, MaxAssumption DEF Overrun
<1>3. ASSUME NEW a \in Actors, Summon(a) PROVE Overrun'
  <2>1. CASE SummonCheck(a)
    <3>1. nr_total' = nr_total /\ nr_total < nr_max
        BY <2>1 DEF SummonCheck
    <3> QED BY <1>1, <3>1, MaxAssumption DEF Overrun
  <2>2. CASE imp_new(a)
    <3>1. \A b \in Actors : b # a => spc'[b] = spc[b]
        BY <2>2 DEF imp_new, IInv, TypeOK
    <3>2. spc[a] = "new" /\ spc'[a] # "new"
        BY <2>2 DEF imp_new, IInv, TypeOK
    <3>3. Begun' = Begun \ {a} /\ a \in Begun /\ Begun \in SUBSET Actors
        BY <3>1, <3>2 DEF Begun
    <3>4. Cardinality(Begun') = Cardinality(Begun) - 1
        BY <3>3, NumberOfActors, FS_RemoveElement
    <3>5. nr_total' = nr_total + 1 \/ nr_total' = nr_total
        BY <2>2 DEF imp_new
    <3> QED BY <1>1, <3>4, <3>5, MaxAssumption DEF Overrun
  <2>3. CASE SummonRun(a)
    <3>1. nr_total' = nr_total /\ spc[a] = "run" /\ spc' = [spc EXCEPT ![a] = "none"]
        BY <2>3 DEF SummonRun
    <3>2. Begun' = Begun
        BY <3>1 DEF Begun, IInv, TypeOK
    <3> QED BY <3>1, <3>2 DEF Overrun
  <2> QED BY <1>3, <2>1, <2>2, <2>3 DEF Summon
<1>4. ASSUME Maintainer PROVE UNCHANGED spc /\ nr_total' \in Int /\ nr_total' <= nr_total
    BY <1>1, <1>4 DEF Maintainer, imp_dismiss, Decrease, Drained, PendingEvent
<1>5. ASSUME UNCHANGED <<mem, spc, nr_total, mpc>> PROVE Overrun'
    BY <1>1, <1>2, <1>5
<1> QED BY <1>2, <1>3, <1>4, <1>5, OthersKeep DEF Next

LEMMA NextInLimit ==
    ASSUME IInv, InLimit, ~raced', [Next]_vars PROVE InLimit'
<1> USE DEF body, queues, counts, workers, summons, epoller, maint
<1>0. nr_total \in Int /\ nr_max \in Int
    BY MaxAssumption DEF IInv, TypeOK
<1>1. ASSUME NEW a \in Actors, Summon(a) PROVE InLimit'
  <2>1. CASE imp_new(a)
    <3>1. \/ nr_total' = nr_total + 1 /\ raced' = (raced \/ nr_total >= nr_max)
          \/ nr_total' = nr_total
        BY <2>1 DEF imp_new
    <3>2. nr_total' = nr_total + 1 \/ nr_total' = nr_total
        BY <3>1
    <3>3. nr_total' = nr_total \/ ~(nr_total >= nr_max)
        BY <3>1
    <3> QED BY <1>0, <3>2, <3>3 DEF InLimit
  <2>2. CASE SummonCheck(a) \/ SummonRun(a)
      BY <2>2 DEF SummonCheck, SummonRun, InLimit
  <2> QED BY <1>1, <2>1, <2>2 DEF Summon
<1>2. ASSUME Maintainer PROVE InLimit'
    BY <1>0, <1>2 DEF Maintainer, imp_dismiss, Decrease, Drained, PendingEvent, InLimit
<1>3. ASSUME UNCHANGED <<mem, spc, nr_total, mpc>> PROVE InLimit'
    BY <1>3 DEF InLimit
<1> QED BY <1>1, <1>2, <1>3, OthersKeep DEF Next

LEMMA NextWaitio ==
    ASSUME IsFiniteSet(Imps), IsFiniteSet(Workers), IInv, Safe, WaitioIsAsleep, ~raced', [Next]_vars
    PROVE  WaitioIsAsleep'
<1> USE DEF body, queues, counts, workers, summons, epoller, maint
<1>0. Cardinality(Sleepers) \in Nat /\ Cardinality(Slumber) \in Nat /\ nr_waitio \in Int
    BY SetsAreFinite, SlumberIsFinite DEF IInv, TypeOK
<1>1. ASSUME UNCHANGED <<waitio, slept, nr_waitio>>, epc' = "wake" <=> epc = "wake"
      PROVE  WaitioIsAsleep'
  <2>1. Sleepers' = Sleepers /\ Slumber' = Slumber
      BY <1>1 DEF Sleepers, Slumber
  <2> QED BY <1>1, <2>1 DEF WaitioIsAsleep, One
<1>2. CASE UNCHANGED vars
    BY <1>1, <1>2 DEF vars
<1>3. ASSUME NEW a \in Actors, Summon(a) PROVE WaitioIsAsleep'
    BY <1>1, <1>3 DEF Summon, SummonCheck, imp_new, SummonRun
<1>4. ASSUME NEW w \in Workers, ArmNext(w) PROVE WaitioIsAsleep'
  <2>1. /\ pc[w] = "arm" /\ At(w) /\ cur[w] \in Imps /\ UNCHANGED <<nr_waitio, epc>>
        /\ slept[w] => waitio[cur[w]]
        /\ waitio' = [waitio EXCEPT ![cur[w]] = TRUE] /\ slept' = [slept EXCEPT ![w] = TRUE]
      BY <1>4, AtHolds DEF ArmNext, At, InDriver
  <2>2. CASE slept[w]
    <3>1. waitio' = waitio /\ slept' = slept
        BY <2>1, <2>2 DEF IInv, TypeOK
    <3> QED BY <1>1, <2>1, <3>1
  <2>3. CASE ~slept[w]
    <3>1. ~waitio[cur[w]]
        BY <2>1, <2>3 DEF Safe, PlaceInv, Quiet
    <3>2. Sleepers' = Sleepers \cup {cur[w]} /\ cur[w] \notin Sleepers
        BY <2>1, <3>1 DEF Sleepers, IInv, TypeOK
    <3>3. Slumber' = Slumber \cup {w} /\ w \notin Slumber
        BY <2>1, <2>3 DEF Slumber, IInv, TypeOK
    <3>4. /\ Cardinality(Sleepers') = Cardinality(Sleepers) + 1
          /\ Cardinality(Slumber') = Cardinality(Slumber) + 1
        BY <3>2, <3>3, SetsAreFinite, SlumberIsFinite, FS_AddElement
    <3> QED BY <1>0, <2>1, <3>4 DEF WaitioIsAsleep, One
  <2> QED BY <2>2, <2>3
<1>5. ASSUME NEW w \in Workers, CountSleeper(w) PROVE WaitioIsAsleep'
  <2>1. /\ pc[w] = "count" /\ nr_waitio' = nr_waitio + 1 /\ UNCHANGED <<waitio, epc>>
        /\ slept' = [slept EXCEPT ![w] = FALSE]
      BY <1>5 DEF CountSleeper, Slept
  <2>2. slept[w]
      BY <2>1 DEF Safe, ThreadInv
  <2>3. Slumber' = Slumber \ {w} /\ w \in Slumber
      BY <2>1, <2>2 DEF Slumber, IInv, TypeOK
  <2>4. Cardinality(Slumber') = Cardinality(Slumber) - 1
      BY <2>3, SlumberIsFinite, FS_RemoveElement
  <2>5. Sleepers' = Sleepers
      BY <2>1 DEF Sleepers
  <2> QED BY <1>0, <2>1, <2>4, <2>5 DEF WaitioIsAsleep, One
<1>6. ASSUME NEW w \in Workers, Worker(w), ~ArmNext(w), ~CountSleeper(w) PROVE WaitioIsAsleep'
  <2>1. CASE CheckKill(w)
      BY <1>1, <2>1, KillClearsNothing DEF CheckKill
  <2>2. CASE Fetch(w) \/ Reduct(w) \/ CheckAlert(w) \/ SoulTerm(w) \/ SoulYield(w) \/ set_poll_action(w)
      BY <1>1, <2>2 DEF Fetch, Reduct, CheckAlert, SoulTerm, SoulYield, set_poll_action
  <2>3. CASE ArmEnd(w) \/ Rerun(w) \/ imp_term(w) \/ thr_maintainer_wakeup(w) \/ Yielded(w)
      BY <1>1, <2>3 DEF ArmEnd, Rerun, imp_term, thr_maintainer_wakeup, Yielded
  <2> QED BY <1>6, <2>1, <2>2, <2>3 DEF Worker
<1>7. CASE WakeCas
  <2>1. /\ ecur \in Imps /\ waitio[ecur] /\ epc = "cas" /\ epc' = "wake"
        /\ UNCHANGED <<nr_waitio, slept>> /\ waitio' = [waitio EXCEPT ![ecur] = FALSE]
      BY <1>7, WakeCasStep DEF WakeCas, IInv, Holding
  <2>2. Sleepers' = Sleepers \ {ecur} /\ ecur \in Sleepers
      BY <2>1 DEF Sleepers, IInv, TypeOK
  <2>3. Cardinality(Sleepers') = Cardinality(Sleepers) - 1
      BY <2>2, SetsAreFinite, FS_RemoveElement
  <2>4. Slumber' = Slumber
      BY <2>1 DEF Slumber
  <2> QED BY <1>0, <2>1, <2>3, <2>4 DEF WaitioIsAsleep, One
<1>8. CASE WakeCount
  <2>1. /\ epc = "wake" /\ epc' = "run" /\ nr_waitio' = nr_waitio - 1
        /\ UNCHANGED <<waitio, slept>>
      BY <1>8 DEF WakeCount
  <2>2. Sleepers' = Sleepers /\ Slumber' = Slumber
      BY <2>1 DEF Sleepers, Slumber
  <2> QED BY <1>0, <2>1, <2>2 DEF WaitioIsAsleep, One
<1>9. CASE epoll_wait \/ imp_cancel_timer \/ WakeRun \/ WakeEnd
    BY <1>1, <1>9 DEF epoll_wait, imp_cancel_timer, WakeRun, WakeEnd
<1>10. CASE Maintainer
    BY <1>1, <1>10 DEF Maintainer, imp_dismiss, Decrease, Drained, PendingEvent
<1>11. ASSUME NEW i \in Imps, TimerExpires(i) \/ IoArrives(i) \/ imp_kill(i) PROVE WaitioIsAsleep'
    BY <1>1, <1>11 DEF TimerExpires, IoArrives, imp_kill, KillRead, KillWrite
<1> QED BY <1>2, <1>3, <1>4, <1>5, <1>6, <1>7, <1>8, <1>9, <1>10, <1>11 DEF Next, Epoller

(* imp_summon tests nr_total before it makes the imp and raises it after,  *)
(* so actors that summon at once may pass nr_max; each worker by one imp   *)
(* at most.                                                                *)
THEOREM LimitIsOverrunByWorkersOnly ==
    ASSUME IsFiniteSet(Workers)
    PROVE  Spec => [](nr_total <= nr_max + Cardinality(Workers))
<1>1. Init => IInv /\ Overrun
    BY InitIInv, InitCounts
<1>2. IInv /\ Overrun /\ [Next]_vars => (IInv /\ Overrun)'
    BY NextIInv, NextOverrun
<1>3. IInv /\ Overrun => nr_total <= nr_max + Cardinality(Workers)
  <2>1. Begun \in SUBSET Actors
      BY DEF Begun
  <2>2. Cardinality(Begun) \in Nat /\ Cardinality(Workers) \in Nat
      BY <2>1, NumberOfActors
  <2> QED BY <2>2, MaxAssumption DEF Overrun, IInv, TypeOK
<1> QED BY <1>1, <1>2, <1>3, PTL DEF Spec

(* nr_total is right always, and within the limit and the number of        *)
(* workers; nr_waitio is right until a race: up to what the threads have   *)
(* still to add or to take.                                                *)
THEOREM CountersAreRight ==
    ASSUME IsFiniteSet(Imps), IsFiniteSet(Workers)
    PROVE  Spec => []Accounting
<1> DEFINE Counts == TotalIsLive /\ Overrun /\ (raced \/ (Safe /\ WaitioIsAsleep))
<1>1. Init => IInv /\ Counts
    BY InitIInv, InitSafe, InitCounts
<1>2. IInv /\ Counts /\ [Next]_vars => (IInv /\ Counts)'
    BY NextIInv, NextTotal, NextOverrun, NextSafe, NextWaitio, RacedStays
<1>3. Counts => Accounting
    BY DEF TotalIsLive, WaitioIsAsleep, Overrun, Slumber, Accounting, TotalAccounting,
           WaitioAccounting
<1> QED BY <1>1, <1>2, <1>3, PTL DEF Spec

-----------------------------------------------------------------------------
(***************************************************************************)
(* Dungeon implements ImpLife until a race.  Beside what the other         *)
(* theorems rest on, the step simulation needs that no imp is ever lost:   *)
(* neither queue can be full when an imp comes to it, for both hold nr_max *)
(* and store imps that live, each once, and nr_total keeps to the limit.   *)
(***************************************************************************)

LEMMA SameCardinality == ASSUME NEW S PROVE Lives!Cardinality(S) = Cardinality(S)
    BY DEF Lives!Cardinality, Cardinality

LEMMA LengthIsCardinality ==
    ASSUME NEW S, NEW q \in Seq(S), Distinct(q)
    PROVE  IsFiniteSet(InQueue(q)) /\ Cardinality(InQueue(q)) = Len(q)
<1>1. Len(q) \in Nat /\ q \in [1 .. Len(q) -> S] /\ DOMAIN q = 1 .. Len(q)
    OBVIOUS
<1>2. IsFiniteSet(1 .. Len(q)) /\ Cardinality(1 .. Len(q)) = Len(q)
    BY <1>1, FS_Interval
<1>3. q \in [1 .. Len(q) -> InQueue(q)]
    BY <1>1 DEF InQueue
<1>4. q \in Surjection(1 .. Len(q), InQueue(q))
    BY <1>1, <1>3 DEF Surjection, InQueue
<1>5. q \in Injection(1 .. Len(q), InQueue(q))
    BY <1>1, <1>3 DEF Injection, IsInjective, Distinct
<1> QED BY <1>2, <1>4, <1>5, FS_Surjection

(* A worker is at the imp and has marked it as waiting for nothing yet.    *)
Driven(i) == \E w \in Workers : cur[w] = i /\ Quiet(w)

(* Where imp i is, by the places it can be found at.                       *)
Stage(i) ==
    IF mem[i] = "none" \/ Newborn(i) THEN "none"
    ELSE IF mem[i] = "freed" THEN "gone"
    ELSE IF i \in TQ THEN "terminated"
    ELSE IF i \in RQ THEN "ready"
    ELSE IF waitio[i] \/ Waking(i) THEN "asleep"
    ELSE "running"

(* Who summons no imp points at none.                                      *)
Empty == \A a \in Actors : spc[a] # "run" => child[a] = NoImp

(* No imp that lives is lost.                                              *)
Placed ==
    \A i \in Imps :
        mem[i] = "live" =>
            Newborn(i) \/ i \in RQ \/ i \in TQ \/ waitio[i] \/ Waking(i) \/ Driven(i)

(* What makes Stage the life of an imp, and the rest of the invariant.     *)
Mapped == IInv /\ Empty /\ Safe /\ Placed
Fit == Mapped /\ TotalIsLive /\ InLimit

LifeStages == \A i \in Imps : Life(i) = Stage(i)

LEMMA LifeIsStage == Mapped => LifeStages
<1> SUFFICES ASSUME Mapped, NEW i \in Imps PROVE Life(i) = Stage(i)
    BY DEF LifeStages
<1>1. (\E a \in Actors : child[a] = i) <=> Newborn(i)
    BY ImpsAssumption DEF Mapped, Empty, Newborn
<1>2. Newborn(i) => mem[i] = "live"
    BY DEF Mapped, Safe, LiveInv
<1>3. CASE mem[i] = "none" \/ Newborn(i)
    BY <1>1, <1>2, <1>3 DEF Life, Stage
<1>4. CASE mem[i] = "freed"
    BY <1>1, <1>2, <1>4 DEF Life, Stage
<1>5. CASE mem[i] = "live" /\ ~Newborn(i)
  <2>1. Life(i) = IF i \in InQueue(terminated_queue) THEN "terminated"
                 ELSE IF i \in InQueue(run_queue) THEN "ready"
                 ELSE IF waitio[i] \/ (epc \in {"wake", "run"} /\ ecur = i) THEN "asleep"
                 ELSE IF \E w \in Workers : cur[w] = i /\ (InDriver(w) \/ pc[w] \in {"rerun", "term"})
                        THEN "running"
                 ELSE "lost"
      BY <1>1, <1>5 DEF Life
  <2>2. Driven(i) => \E w \in Workers : cur[w] = i /\ (InDriver(w) \/ pc[w] \in {"rerun", "term"})
      BY DEF Driven, Quiet, At
  <2>3. i \in RQ \/ i \in TQ \/ waitio[i] \/ Waking(i) \/ Driven(i)
      BY <1>5 DEF Mapped, Placed
  <2> QED BY <1>5, <2>1, <2>2, <2>3 DEF Stage, RQ, TQ, Waking
<1>6. mem[i] \in {"none", "live", "freed"}
    BY DEF Mapped, IInv, TypeOK
<1> QED BY <1>3, <1>4, <1>5, <1>6

(* The same of the state after a step.                                     *)
LEMMA LifeIsStageNext == Mapped' => LifeStages'
    BY LifeIsStage, PTL

(* A step in which no imp goes to another place.                           *)
LEMMA NothingMoves ==
    ASSUME Mapped, Mapped', \A i \in Imps : Stage(i)' = Stage(i), UNCHANGED run_queue
    PROVE  UNCHANGED Lives!lifeVars
    BY LifeIsStage, LifeIsStageNext DEF LifeStages, Lives!lifeVars

(* A step in which one imp goes from one place to another.                 *)
LEMMA OneMoves ==
    ASSUME Mapped, Mapped', NEW i \in Imps, NEW state, Stage(i)' = state,
           \A j \in Imps : j # i => Stage(j)' = Stage(j)
    PROVE  Lives!Enter(i, state) /\ [k \in Imps |-> Life(k)][i] = Stage(i)
    BY LifeIsStage, LifeIsStageNext DEF LifeStages, Lives!Enter

LEMMA RoomIsLeft ==
    ASSUME IsFiniteSet(Imps), Fit, NEW q \in Seq(Imps), Distinct(q),
           InQueue(q) \subseteq Live, NEW i \in Live, i \notin InQueue(q)
    PROVE  Len(q) < nr_max /\ Len(q) \in Nat
<1>1. IsFiniteSet(Live) /\ Cardinality(Live) \in Nat
    BY SetsAreFinite
<1>2. Cardinality(Live) <= nr_max
    BY <1>1, MaxAssumption DEF Fit, Mapped, InLimit, TotalIsLive, One, IInv, TypeOK
<1>3. Len(q) = Cardinality(InQueue(q)) /\ IsFiniteSet(InQueue(q)) /\ Len(q) \in Nat
    BY LengthIsCardinality
<1>4. InQueue(q) \subseteq Live \ {i}
    OBVIOUS
<1>5. IsFiniteSet(Live \ {i}) /\ Cardinality(Live \ {i}) = Cardinality(Live) - 1
    BY <1>1, FS_RemoveElement
<1>6. Cardinality(InQueue(q)) <= Cardinality(Live \ {i})
    BY <1>4, <1>5, FS_Subset
<1> QED BY <1>1, <1>2, <1>3, <1>5, <1>6, MaxAssumption

LEMMA RunAppends ==
    ASSUME IsFiniteSet(Imps), Fit, NEW i \in Imps, mem[i] = "live", i \notin RQ, imp_run(i)
    PROVE  run_queue' = Append(run_queue, i) /\ RQ' = RQ \cup {i}
<1>1. run_queue \in Seq(Imps) /\ Distinct(run_queue) /\ RQ \subseteq Imps
    BY DEF Fit, Mapped, IInv, TypeOK, Safe, QueueInv, RQ, InQueue
<1>2. RQ \subseteq Live /\ i \in Live
    BY <1>1 DEF Fit, Mapped, Safe, LiveInv, Live
<1>3. Len(run_queue) < nr_max /\ Len(run_queue) \in Nat
    BY <1>1, <1>2, RoomIsLeft DEF RQ
<1>4. run_queue' = Append(run_queue, i)
    BY <1>3, MaxAssumption DEF imp_run, RQ
<1> QED BY <1>1, <1>4, Appending DEF RQ

LEMMA TermAppends ==
    ASSUME IsFiniteSet(Imps), Fit, NEW i \in Imps, mem[i] = "live", i \notin TQ, to_terminated(i)
    PROVE  TQ' = TQ \cup {i}
<1>1. terminated_queue \in Seq(Imps) /\ Distinct(terminated_queue) /\ TQ \subseteq Imps
    BY DEF Fit, Mapped, IInv, TypeOK, Safe, QueueInv, TQ, InQueue
<1>2. TQ \subseteq Live /\ i \in Live
    BY <1>1 DEF Fit, Mapped, Safe, LiveInv, Live
<1>3. Len(terminated_queue) < nr_max /\ Len(terminated_queue) \in Nat
    BY <1>1, <1>2, RoomIsLeft DEF TQ
<1>4. terminated_queue' = Append(terminated_queue, i)
    BY <1>3, MaxAssumption DEF to_terminated
<1> QED BY <1>1, <1>4, Appending DEF TQ

(* The steps between two events of an imp's life.                          *)
LEMMA StutterStep ==
    ASSUME Mapped, IInv', Safe', Empty', UNCHANGED <<mem, waitio, queues>>,
           \A i \in Imps : Newborn(i)' = Newborn(i) /\ Waking(i)' = Waking(i),
           \A w \in Workers : Quiet(w) => Quiet(w)' /\ cur'[w] = cur[w]
    PROVE  Placed' /\ UNCHANGED Lives!lifeVars
<1>1. RQ' = RQ /\ TQ' = TQ /\ run_queue' = run_queue
    BY DEF queues, RQ, TQ
<1>2. \A i \in Imps : Driven(i) => Driven(i)'
    BY DEF Driven
<1>3. Placed'
    BY <1>1, <1>2 DEF Mapped, Placed
<1>4. \A i \in Imps : Stage(i)' = Stage(i)
    BY <1>1 DEF Stage
<1> QED BY <1>1, <1>3, <1>4, NothingMoves DEF Mapped

LEMMA NextEmpty ==
    ASSUME IInv, Empty, [Next]_vars PROVE Empty'
<1> USE DEF Empty, body, queues, counts, workers, summons, epoller, maint
<1>0. ASSUME UNCHANGED <<spc, child>> PROVE Empty'
    BY <1>0
<1>1. CASE UNCHANGED vars
    BY <1>0, <1>1 DEF vars
<1>2. ASSUME NEW a \in Actors, Summon(a) PROVE Empty'
  <2>1. CASE SummonCheck(a)
      BY <2>1 DEF SummonCheck, IInv, TypeOK
  <2>2. CASE imp_new(a)
      BY <2>2 DEF imp_new, IInv, TypeOK
  <2>3. CASE SummonRun(a)
      BY <2>3 DEF SummonRun, IInv, TypeOK
  <2> QED BY <1>2, <2>1, <2>2, <2>3 DEF Summon
<1>3. ASSUME NEW w \in Workers, Worker(w) PROVE Empty'
  <2>1. UNCHANGED <<spc, child>>
      BY <1>3 DEF Worker, Fetch, Reduct, CheckKill, CheckAlert, SoulTerm, SoulYield, ArmNext,
                  set_poll_action, ArmEnd, CountSleeper, Rerun, imp_term, thr_maintainer_wakeup,
                  Yielded
  <2> QED BY <1>0, <2>1
<1>4. CASE Epoller
    BY <1>0, <1>4 DEF Epoller, epoll_wait, imp_cancel_timer, WakeCas, WakeCount, WakeRun, WakeEnd
<1>5. CASE Maintainer
    BY <1>0, <1>5 DEF Maintainer, imp_dismiss, Decrease, Drained, PendingEvent
<1>6. ASSUME NEW i \in Imps, TimerExpires(i) \/ IoArrives(i) \/ imp_kill(i) PROVE Empty'
    BY <1>0, <1>6 DEF TimerExpires, IoArrives, imp_kill, KillRead, KillWrite
<1> QED BY <1>1, <1>2, <1>3, <1>4, <1>5, <1>6 DEF Next

-----------------------------------------------------------------------------
(* The worker.                                                             *)

(* While one worker fetches, the others drive less than Workers imps.      *)
LEMMA DriverIsLeft ==
    ASSUME IsFiniteSet(Workers), Mapped, NEW w \in Workers, ~Quiet(w)
    PROVE  Cardinality(Lives!In("running")) < Cardinality(Workers)
<1> DEFINE R == Lives!In("running")
           S == {v \in Workers \ {w} : cur[v] \in R}
           f == [v \in S |-> cur[v]]
<1>1. \A i \in R : \E v \in S : f[v] = i
  <2> SUFFICES ASSUME NEW i \in R PROVE \E v \in S : f[v] = i
      OBVIOUS
  <2>1. i \in Imps /\ Stage(i) = "running"
      BY LifeIsStage DEF LifeStages, Lives!In
  <2>2. mem[i] = "live"
      BY <2>1 DEF Stage, Mapped, IInv, TypeOK
  <2>3. Driven(i)
      BY <2>1, <2>2 DEF Stage, Mapped, Placed
  <2>4. PICK v \in Workers : cur[v] = i /\ Quiet(v)
      BY <2>3 DEF Driven
  <2> QED BY <2>4
<1>2. f \in Surjection(S, R)
    BY <1>1 DEF Surjection
<1>3. /\ IsFiniteSet(Workers \ {w}) /\ Cardinality(Workers \ {w}) = Cardinality(Workers) - 1
      /\ Cardinality(Workers) \in Nat
    BY FS_RemoveElement, FS_CardinalityType
<1>4. S \subseteq Workers \ {w}
    OBVIOUS
<1>5. IsFiniteSet(S) /\ Cardinality(S) <= Cardinality(Workers \ {w})
    BY <1>3, <1>4, FS_Subset
<1>6. IsFiniteSet(R) /\ Cardinality(R) <= Cardinality(S)
    BY <1>2, <1>5, FS_Surjection
<1>7. Cardinality(R) \in Nat /\ Cardinality(S) \in Nat
    BY <1>5, <1>6, FS_CardinalityType
<1> HIDE DEF R, S, f
<1>8. Cardinality(R) < Cardinality(Workers)
    BY <1>3, <1>5, <1>6, <1>7
<1> QED BY <1>8 DEF R

LEMMA FetchIsDrive ==
    ASSUME IsFiniteSet(Workers), Mapped, IInv', Safe', Empty', NEW w \in Workers, Fetch(w)
    PROVE  Placed' /\ Lives!Drive
<1>0. Head(run_queue) \in Imps
    BY Removing DEF Fetch, Mapped, IInv, TypeOK
<1>i. PICK i \in Imps : i = Head(run_queue)
    BY <1>0
<1>1. /\ i \in RQ /\ RQ' = RQ \ {i} /\ TQ' = TQ /\ run_queue # <<>>
      /\ run_queue' = Tail(run_queue)
    BY <1>i, Removing DEF Fetch, Mapped, IInv, TypeOK, Safe, QueueInv, RQ, TQ
<1>2. /\ cur' = [cur EXCEPT ![w] = i] /\ Go(w, "reduct") /\ pc[w] = "idle"
      /\ UNCHANGED <<mem, waitio, slept, spc, child, epc, ecur>>
    BY <1>i DEF Fetch, body, counts, summons, epoller
<1>3. \A v \in Workers : /\ pc'[v] = IF v = w THEN "reduct" ELSE pc[v]
                         /\ cur'[v] = IF v = w THEN i ELSE cur[v]
  <2>1. cur \in [Workers -> Imps \cup {NoImp}]
      BY DEF Mapped, IInv, TypeOK
  <2> QED BY <1>2, <2>1, PcOf DEF Mapped
<1>4. ~Quiet(w) /\ Quiet(w)' /\ \A v \in Workers : v # w => Quiet(v)' = Quiet(v)
    BY <1>2, <1>3 DEF Quiet, At, InDriver, Mapped, Safe, ThreadInv
<1>5. \A j : Newborn(j)' = Newborn(j) /\ Waking(j)' = Waking(j)
    BY <1>2 DEF Newborn, Waking
<1>6. mem[i] = "live" /\ i \notin TQ /\ ~waitio[i] /\ ~Waking(i) /\ ~Newborn(i)
    BY <1>1 DEF Mapped, Safe, QueueInv, LiveInv, PlaceInv
<1>7. Stage(i)' = "running"
    BY <1>1, <1>2, <1>5, <1>6 DEF Stage
<1>8. \A j \in Imps : j # i => Stage(j)' = Stage(j)
    BY <1>1, <1>2, <1>5 DEF Stage
<1>9. \A j \in Imps : Driven(j)' <=> Driven(j) \/ j = i
    BY <1>3, <1>4 DEF Driven
<1>10. Placed'
    BY <1>1, <1>2, <1>5, <1>9 DEF Mapped, Placed
<1>11. Lives!Enter(i, "running")
    BY <1>7, <1>8, <1>10, OneMoves DEF Mapped
<1>12. Cardinality(Lives!In("running")) < Cardinality(Workers)
    BY <1>4, DriverIsLeft
<1>13. Lives!Enter(Head(run_queue), "running")
    BY <1>i, <1>11
<1> QED BY <1>1, <1>10, <1>12, <1>13, SameCardinality DEF Lives!Drive

(* What a worker does with the imp it drives.                              *)
LEMMA QuietIsRunning ==
    ASSUME Mapped, NEW w \in Workers, Quiet(w)
    PROVE  /\ cur[w] \in Imps /\ mem[cur[w]] = "live" /\ cur[w] \notin RQ /\ cur[w] \notin TQ
           /\ ~waitio[cur[w]] /\ ~Waking(cur[w]) /\ ~Newborn(cur[w])
           /\ Stage(cur[w]) = "running"
<1>1. cur[w] \in Imps
    BY AtHolds DEF Mapped, Quiet
<1>2. /\ mem[cur[w]] = "live" /\ cur[w] \notin RQ /\ cur[w] \notin TQ
      /\ ~waitio[cur[w]] /\ ~Waking(cur[w]) /\ ~Newborn(cur[w])
    BY <1>1 DEF Mapped, Safe, LiveInv, PlaceInv, Quiet
<1>3. Stage(cur[w]) = "running"
    BY <1>2 DEF Stage
<1> QED BY <1>1, <1>2, <1>3

LEMMA ArmNextIsSleep ==
    ASSUME Mapped, IInv', Safe', Empty', ~raced', NEW w \in Workers, ArmNext(w)
    PROVE  Placed' /\ (UNCHANGED Lives!lifeVars \/ \E i \in Imps : Lives!Sleep(i))
<1>1. /\ pc[w] = "arm" /\ Go(w, "poll") /\ waitio' = [waitio EXCEPT ![cur[w]] = TRUE]
      /\ slept' = [slept EXCEPT ![w] = TRUE] /\ (slept[w] => waitio[cur[w]])
      /\ UNCHANGED <<mem, queues, cur, spc, child, epc, ecur>>
    BY DEF ArmNext, counts, summons, epoller
<1>2. At(w) /\ cur[w] \in Imps
    BY <1>1, AtHolds DEF At, InDriver, Mapped
<1>i. PICK i \in Imps : i = cur[w]
    BY <1>2
<1>3. /\ \A v \in Workers : /\ pc'[v] = IF v = w THEN "poll" ELSE pc[v]
                            /\ slept'[v] = IF v = w THEN TRUE ELSE slept[v]
      /\ \A j \in Imps : waitio'[j] = IF j = i THEN TRUE ELSE waitio[j]
    BY <1>1, <1>i, PcOf DEF Mapped, IInv, TypeOK
<1>4. \A v \in Workers : v # w => Quiet(v)' = Quiet(v)
    BY <1>3 DEF Quiet, At, InDriver
<1>5. \A j : Newborn(j)' = Newborn(j) /\ Waking(j)' = Waking(j)
    BY <1>1 DEF Newborn, Waking
<1>6. RQ' = RQ /\ TQ' = TQ /\ run_queue' = run_queue
    BY <1>1 DEF queues, RQ, TQ
<1>7. CASE slept[w]
  <2>1. waitio' = waitio
      BY <1>1, <1>2, <1>7 DEF Mapped, IInv, TypeOK
  <2>2. ~Quiet(w)
      BY <1>7 DEF Quiet
  <2> QED BY <1>1, <1>4, <1>5, <2>1, <2>2, StutterStep
<1>8. CASE ~slept[w]
  <2>1. Quiet(w)
      BY <1>2, <1>8 DEF Quiet
  <2>2. /\ mem[i] = "live" /\ i \notin RQ /\ i \notin TQ /\ ~Newborn(i)
        /\ Stage(i) = "running"
      BY <1>i, <2>1, QuietIsRunning
  <2>3. Stage(i)' = "asleep"
      BY <1>1, <1>3, <1>5, <1>6, <2>2 DEF Stage
  <2>4. \A j \in Imps : j # i => Stage(j)' = Stage(j)
      BY <1>1, <1>3, <1>5, <1>6 DEF Stage
  <2>5. \A j \in Imps : Driven(j) => Driven(j)' \/ j = i
      BY <1>1, <1>i, <1>4 DEF Driven
  <2>6. Placed'
      BY <1>1, <1>3, <1>5, <1>6, <2>5 DEF Mapped, Placed
  <2>7. Lives!Enter(i, "asleep") /\ [k \in Imps |-> Life(k)][i] = Stage(i)
      BY <2>3, <2>4, <2>6, OneMoves DEF Mapped
  <2>8. Lives!Sleep(i)
      BY <1>6, <2>2, <2>7 DEF Lives!Sleep
  <2> QED BY <2>6, <2>8
<1> QED BY <1>7, <1>8

LEMMA RerunIsYield ==
    ASSUME IsFiniteSet(Imps), Fit, IInv', Safe', Empty', NEW w \in Workers, Rerun(w)
    PROVE  Placed' /\ \E i \in Imps : Lives!Yield(i)
<1>1. /\ pc[w] = "rerun" /\ Go(w, "yielded") /\ imp_run(cur[w])
      /\ UNCHANGED <<mem, waitio, terminated_queue, cur, slept, spc, child, epc, ecur>>
    BY DEF Rerun, body, counts, summons, epoller
<1>2. Quiet(w)
    BY <1>1 DEF Quiet, At, Fit, Mapped, Safe, ThreadInv
<1>3. cur[w] \in Imps
    BY <1>2, QuietIsRunning DEF Fit
<1>i. PICK i \in Imps : i = cur[w]
    BY <1>3
<1>4. mem[i] = "live" /\ i \notin RQ /\ i \notin TQ /\ ~Newborn(i) /\ Stage(i) = "running"
    BY <1>i, <1>2, QuietIsRunning DEF Fit
<1>5. imp_run(i)
    BY <1>i, <1>1
<1>6. run_queue' = Append(run_queue, i) /\ RQ' = RQ \cup {i} /\ TQ' = TQ
    BY <1>1, <1>4, <1>5, RunAppends DEF TQ
<1>7. \A j : Newborn(j)' = Newborn(j) /\ Waking(j)' = Waking(j)
    BY <1>1 DEF Newborn, Waking
<1>8. \A v \in Workers : v # w => Quiet(v)' = Quiet(v)
    BY <1>1, PcOf DEF Fit, Mapped, Quiet, At, InDriver
<1>9. \A j \in Imps : Driven(j) => Driven(j)' \/ j = i
    BY <1>1, <1>i, <1>8 DEF Driven
<1>10. Stage(i)' = "ready" /\ \A j \in Imps : j # i => Stage(j)' = Stage(j)
    BY <1>1, <1>4, <1>6, <1>7 DEF Stage
<1>11. Placed'
    BY <1>1, <1>6, <1>7, <1>9 DEF Fit, Mapped, Placed
<1>12. Lives!Enter(i, "ready") /\ [k \in Imps |-> Life(k)][i] = Stage(i)
    BY <1>10, <1>11, OneMoves DEF Fit, Mapped
<1>13. Lives!Yield(i)
    BY <1>4, <1>6, <1>12 DEF Lives!Yield, Lives!MakeReady
<1> QED BY <1>11, <1>13

LEMMA TermIsTerminate ==
    ASSUME IsFiniteSet(Imps), Fit, IInv', Safe', Empty', NEW w \in Workers, imp_term(w)
    PROVE  Placed' /\ \E i \in Imps : Lives!Terminate(i)
<1>1. /\ pc[w] = "term" /\ Go(w, "wakeup") /\ to_terminated(cur[w])
      /\ UNCHANGED <<mem, waitio, run_queue, cur, slept, spc, child, epc, ecur>>
    BY DEF imp_term, AfterTerm, body, counts, summons, epoller
<1>2. Quiet(w)
    BY <1>1 DEF Quiet, At, Fit, Mapped, Safe, ThreadInv
<1>3. cur[w] \in Imps
    BY <1>2, QuietIsRunning DEF Fit
<1>i. PICK i \in Imps : i = cur[w]
    BY <1>3
<1>4. mem[i] = "live" /\ i \notin RQ /\ i \notin TQ /\ ~Newborn(i) /\ Stage(i) = "running"
    BY <1>i, <1>2, QuietIsRunning DEF Fit
<1>5. to_terminated(i)
    BY <1>i, <1>1
<1>6. TQ' = TQ \cup {i} /\ RQ' = RQ
    BY <1>1, <1>4, <1>5, TermAppends DEF RQ
<1>7. \A j : Newborn(j)' = Newborn(j) /\ Waking(j)' = Waking(j)
    BY <1>1 DEF Newborn, Waking
<1>8. \A v \in Workers : v # w => Quiet(v)' = Quiet(v)
    BY <1>1, PcOf DEF Fit, Mapped, Quiet, At, InDriver
<1>9. \A j \in Imps : Driven(j) => Driven(j)' \/ j = i
    BY <1>1, <1>i, <1>8 DEF Driven
<1>10. Stage(i)' = "terminated" /\ \A j \in Imps : j # i => Stage(j)' = Stage(j)
    BY <1>1, <1>4, <1>6, <1>7 DEF Stage
<1>11. Placed'
    BY <1>1, <1>6, <1>7, <1>9 DEF Fit, Mapped, Placed
<1>12. Lives!Enter(i, "terminated") /\ [k \in Imps |-> Life(k)][i] = Stage(i)
    BY <1>10, <1>11, OneMoves DEF Fit, Mapped
<1>13. Lives!Terminate(i)
    BY <1>1, <1>4, <1>12 DEF Lives!Terminate
<1> QED BY <1>11, <1>13

(* The worker's other steps are between two events of an imp's life.       *)
LEMMA WorkerStutters ==
    ASSUME Mapped, IInv', Safe', Empty', NEW w \in Workers,
           \/ Reduct(w) \/ CheckKill(w) \/ CheckAlert(w) \/ SoulTerm(w) \/ SoulYield(w)
           \/ set_poll_action(w) \/ ArmEnd(w) \/ CountSleeper(w) \/ thr_maintainer_wakeup(w)
           \/ Yielded(w)
    PROVE  Placed' /\ UNCHANGED Lives!lifeVars
<1> USE DEF body, queues, counts, workers, summons, epoller, maint
<1>0. ASSUME UNCHANGED <<mem, waitio, queues, spc, child, epc, ecur>>,
             \A v \in Workers : Quiet(v) => Quiet(v)' /\ cur'[v] = cur[v]
      PROVE  Placed' /\ UNCHANGED Lives!lifeVars
  <2>1. \A i \in Imps : Newborn(i)' = Newborn(i) /\ Waking(i)' = Waking(i)
      BY <1>0 DEF Newborn, Waking
  <2> QED BY <1>0, <2>1, StutterStep
<1>1. CASE \/ Reduct(w) \/ CheckKill(w) \/ CheckAlert(w) \/ SoulTerm(w) \/ SoulYield(w)
           \/ set_poll_action(w) \/ ArmEnd(w)
  <2>1. waitio' = waitio
      BY <1>1, KillClearsNothing
         DEF Reduct, CheckAlert, SoulTerm, SoulYield, set_poll_action, ArmEnd, Mapped
  <2>2. UNCHANGED <<mem, queues, spc, child, epc, ecur, cur, slept>>
      BY <1>1 DEF Reduct, CheckKill, CheckAlert, SoulTerm, SoulYield, set_poll_action, ArmEnd
  <2>3. \E label \in {"check", "alert", "drive", "arm", "rerun", "term", "count"} :
          Go(w, label) /\ (slept[w] \/ label # "count")
      BY <1>1 DEF Reduct, CheckKill, CheckAlert, SoulTerm, SoulYield, set_poll_action, ArmEnd
  <2>4. PICK label \in {"check", "alert", "drive", "arm", "rerun", "term", "count"} :
          Go(w, label) /\ (slept[w] \/ label # "count")
      BY <2>3
  <2>5. \A v \in Workers : pc'[v] = IF v = w THEN label ELSE pc[v]
      BY <2>4, PcOf DEF Mapped
  <2>6. \A v \in Workers : Quiet(v) => Quiet(v)'
      BY <2>2, <2>4, <2>5 DEF Quiet, At, InDriver
  <2> QED BY <1>0, <2>1, <2>2, <2>6
<1>2. CASE CountSleeper(w) \/ thr_maintainer_wakeup(w) \/ Yielded(w)
  <2>1. /\ UNCHANGED <<mem, waitio, queues, spc, child, epc, ecur>>
        /\ pc[w] \in {"count", "wakeup", "yielded"}
        /\ \A v \in Workers : v # w => cur'[v] = cur[v] /\ slept'[v] = slept[v]
      BY <1>2 DEF CountSleeper, thr_maintainer_wakeup, Yielded, Mapped, IInv, TypeOK
  <2>2. \A v \in Workers : v # w => pc'[v] = pc[v]
      BY <1>2 DEF CountSleeper, thr_maintainer_wakeup, Yielded, Go, Mapped, IInv, TypeOK
  <2>3. ~Quiet(w) /\ \A v \in Workers : v # w => Quiet(v)' = Quiet(v)
      BY <2>1, <2>2 DEF Quiet, At, InDriver
  <2> QED BY <1>0, <2>1, <2>3
<1> QED BY <1>1, <1>2

-----------------------------------------------------------------------------
(* The epoller.                                                            *)

LEMMA CasIsStutter ==
    ASSUME Mapped, IInv', Safe', Empty', WakeCas
    PROVE  Placed' /\ UNCHANGED Lives!lifeVars
<1>1. /\ epc = "cas" /\ ecur \in Imps /\ ecur' = ecur /\ epc' = "wake" /\ waitio[ecur]
      /\ UNCHANGED <<mem, queues, pc, cur, slept, spc, child>>
    BY WakeCasStep DEF WakeCas, Woken, Mapped, IInv, Holding, workers, summons
<1>2. \A j \in Imps : (waitio'[j] \/ Waking(j)') <=> (waitio[j] \/ Waking(j))
  <2>1. \A j \in Imps : waitio'[j] <=> waitio[j] /\ j # ecur
      BY <1>1 DEF WakeCas, Mapped, IInv, TypeOK
  <2>2. \A j : ~Waking(j) /\ (Waking(j)' <=> j = ecur)
      BY <1>1 DEF Waking
  <2> QED BY <1>1, <2>1, <2>2
<1>3. /\ \A j : Newborn(j)' = Newborn(j) /\ Driven(j)' = Driven(j)
      /\ RQ' = RQ /\ TQ' = TQ /\ run_queue' = run_queue
    BY <1>1 DEF Newborn, Driven, Quiet, At, InDriver, RQ, TQ, queues
<1>4. \A j \in Imps : Stage(j)' = Stage(j)
    BY <1>1, <1>2, <1>3 DEF Stage
<1>5. Placed'
    BY <1>1, <1>2, <1>3 DEF Mapped, Placed
<1> QED BY <1>3, <1>4, <1>5, NothingMoves DEF Mapped

LEMMA WakeRunIsWake ==
    ASSUME IsFiniteSet(Imps), Fit, IInv', Safe', Empty', WakeRun
    PROVE  Placed' /\ \E i \in Imps : Lives!Wake(i)
<1>0. ecur \in Imps
    BY DEF WakeRun, Fit, Mapped, IInv, Holding
<1>i. PICK i \in Imps : i = ecur
    BY <1>0
<1>1. /\ epc = "run" /\ epc' = "woken" /\ imp_run(i)
      /\ UNCHANGED <<mem, waitio, terminated_queue, pc, cur, slept, spc, child>>
    BY <1>i DEF WakeRun, workers, summons
<1>2. \A j : (Waking(j) <=> j = i) /\ ~Waking(j)'
    BY <1>i, <1>1 DEF Waking
<1>3. mem[i] = "live" /\ i \notin TQ /\ i \notin RQ /\ ~Newborn(i)
    BY <1>2 DEF Fit, Mapped, Safe, LiveInv, PlaceInv
<1>4. run_queue' = Append(run_queue, i) /\ RQ' = RQ \cup {i} /\ TQ' = TQ
    BY <1>1, <1>3, RunAppends DEF TQ
<1>5. \A j : Newborn(j)' = Newborn(j) /\ Driven(j)' = Driven(j)
    BY <1>1 DEF Newborn, Driven, Quiet, At, InDriver
<1>6. Stage(i) = "asleep" /\ Stage(i)' = "ready"
    BY <1>1, <1>2, <1>3, <1>4, <1>5 DEF Stage
<1>7. \A j \in Imps : j # i => Stage(j)' = Stage(j)
    BY <1>1, <1>2, <1>4, <1>5 DEF Stage
<1>8. Placed'
    BY <1>1, <1>2, <1>4, <1>5 DEF Fit, Mapped, Placed
<1>9. Lives!Enter(i, "ready") /\ [k \in Imps |-> Life(k)][i] = Stage(i)
    BY <1>6, <1>7, <1>8, OneMoves DEF Fit, Mapped
<1>10. Lives!Wake(i)
    BY <1>4, <1>6, <1>9 DEF Lives!Wake, Lives!MakeReady
<1> QED BY <1>8, <1>10

-----------------------------------------------------------------------------
(* The maintainer.                                                         *)

LEMMA DismissIsDismiss ==
    ASSUME Mapped, IInv', Safe', Empty', imp_dismiss
    PROVE  Placed' /\ \E i \in Imps : Lives!Dismiss(i)
<1>0. Head(terminated_queue) \in Imps
    BY Removing DEF imp_dismiss, Mapped, IInv, TypeOK
<1>i. PICK i \in Imps : i = Head(terminated_queue)
    BY <1>0
<1>1. /\ i \in TQ /\ TQ' = TQ \ {i} /\ mem' = [mem EXCEPT ![i] = "freed"]
      /\ UNCHANGED <<waitio, run_queue, pc, cur, slept, spc, child, epc, ecur>>
    BY <1>i, Removing
       DEF imp_dismiss, Mapped, IInv, TypeOK, Safe, QueueInv, TQ, workers, summons, epoller
<1>2. mem'[i] = "freed" /\ \A j \in Imps : j # i => mem'[j] = mem[j]
    BY <1>1 DEF Mapped, IInv, TypeOK
<1>3. mem[i] = "live" /\ ~Newborn(i)
    BY <1>1 DEF Mapped, Safe, LiveInv, PlaceInv
<1>4. /\ \A j : Newborn(j)' = Newborn(j) /\ Driven(j)' = Driven(j) /\ Waking(j)' = Waking(j)
      /\ RQ' = RQ
    BY <1>1 DEF Newborn, Driven, Quiet, At, InDriver, Waking, RQ
<1>5. Stage(i) = "terminated" /\ Stage(i)' = "gone"
    BY <1>1, <1>2, <1>3, <1>4 DEF Stage
<1>6. \A j \in Imps : j # i => Stage(j)' = Stage(j)
    BY <1>1, <1>2, <1>4 DEF Stage
<1>7. Placed'
    BY <1>1, <1>2, <1>4 DEF Mapped, Placed
<1>8. Lives!Enter(i, "gone") /\ [k \in Imps |-> Life(k)][i] = Stage(i)
    BY <1>5, <1>6, <1>7, OneMoves DEF Mapped
<1>9. Lives!Dismiss(i)
    BY <1>1, <1>5, <1>8 DEF Lives!Dismiss
<1> QED BY <1>7, <1>9

-----------------------------------------------------------------------------
(* imp_summon.                                                             *)

LEMMA NewIsStutter ==
    ASSUME Mapped, IInv', Safe', Empty', NEW a \in Actors, SummonCheck(a) \/ imp_new(a)
    PROVE  Placed' /\ UNCHANGED Lives!lifeVars
<1>1. UNCHANGED <<waitio, queues, pc, cur, slept, epc, ecur>>
    BY DEF SummonCheck, imp_new, workers, epoller
<1>2. /\ \A j : Driven(j)' = Driven(j) /\ Waking(j)' = Waking(j)
      /\ RQ' = RQ /\ TQ' = TQ /\ run_queue' = run_queue
    BY <1>1 DEF Driven, Quiet, At, InDriver, Waking, RQ, TQ, queues
<1>3. CASE SummonCheck(a) \/ (spc[a] = "new" /\ spc' = [spc EXCEPT ![a] = "none"] /\ UNCHANGED <<mem, child>>)
  <2>1. /\ UNCHANGED <<mem, child>>
        /\ \A b \in Actors : spc'[b] = "run" <=> spc[b] = "run"
      BY <1>3 DEF SummonCheck, Mapped, IInv, TypeOK
  <2>2. \A j : Newborn(j)' = Newborn(j)
      BY <2>1 DEF Newborn
  <2>3. \A j \in Imps : Stage(j)' = Stage(j)
      BY <1>1, <1>2, <2>1, <2>2 DEF Stage
  <2>4. Placed'
      BY <1>1, <1>2, <2>1, <2>2 DEF Mapped, Placed
  <2> QED BY <1>2, <2>3, <2>4, NothingMoves DEF Mapped
<1>4. ASSUME spc[a] = "new", NEW i \in MaySummon[a], mem[i] = "none",
             mem' = [mem EXCEPT ![i] = "live"],
             child' = [child EXCEPT ![a] = i], spc' = [spc EXCEPT ![a] = "run"]
      PROVE  Placed' /\ UNCHANGED Lives!lifeVars
  <2>1. i \in Imps /\ \A j \in Imps : mem'[j] = IF j = i THEN "live" ELSE mem[j]
      BY <1>4, SummonAssumption DEF Mapped, IInv, TypeOK
  <2>2. \A b \in Actors : /\ spc'[b] = IF b = a THEN "run" ELSE spc[b]
                          /\ child'[b] = IF b = a THEN i ELSE child[b]
      BY <1>4 DEF Mapped, IInv, TypeOK
  <2>3. \A j : Newborn(j)' <=> Newborn(j) \/ j = i
      BY <1>4, <2>2 DEF Newborn
  <2>4. \A j \in Imps : Stage(j)' = Stage(j)
      BY <1>1, <1>2, <1>4, <2>1, <2>3 DEF Stage
  <2>5. Placed'
      BY <1>1, <1>2, <2>1, <2>3 DEF Mapped, Placed
  <2> QED BY <1>2, <2>4, <2>5, NothingMoves DEF Mapped
<1> QED BY <1>3, <1>4 DEF imp_new

LEMMA RunIsSummon ==
    ASSUME IsFiniteSet(Imps), Fit, IInv', Safe', Empty', NEW a \in Actors, SummonRun(a)
    PROVE  Placed' /\ \E i \in Imps : Lives!Summon(i)
<1>0. child[a] \in Imps
    BY DEF SummonRun, Fit, Mapped, IInv, Holding
<1>i. PICK i \in Imps : i = child[a]
    BY <1>0
<1>1. /\ spc[a] = "run" /\ imp_run(i)
      /\ UNCHANGED <<mem, waitio, terminated_queue, pc, cur, slept, epc, ecur>>
    BY <1>i DEF SummonRun, workers, epoller
<1>2. \A b \in Actors : /\ spc'[b] = IF b = a THEN "none" ELSE spc[b]
                        /\ b # a => child'[b] = child[b]
    BY DEF SummonRun, Fit, Mapped, IInv, TypeOK
<1>3. Newborn(i) /\ \A j : Newborn(j)' <=> Newborn(j) /\ j # i
    BY <1>i, <1>1, <1>2 DEF Newborn, Fit, Mapped, Safe, ThreadInv
<1>4. mem[i] = "live" /\ i \notin TQ /\ i \notin RQ /\ ~waitio[i] /\ ~Waking(i)
    BY <1>3 DEF Fit, Mapped, Safe, LiveInv, PlaceInv
<1>5. run_queue' = Append(run_queue, i) /\ RQ' = RQ \cup {i} /\ TQ' = TQ
    BY <1>1, <1>4, RunAppends DEF TQ
<1>6. \A j : Waking(j)' = Waking(j) /\ Driven(j)' = Driven(j)
    BY <1>1 DEF Waking, Driven, Quiet, At, InDriver
<1>7. Stage(i) = "none" /\ Stage(i)' = "ready"
    BY <1>1, <1>3, <1>4, <1>5 DEF Stage
<1>8. \A j \in Imps : j # i => Stage(j)' = Stage(j)
    BY <1>1, <1>3, <1>5, <1>6 DEF Stage
<1>9. Placed'
    BY <1>1, <1>3, <1>5, <1>6 DEF Fit, Mapped, Placed
<1>10. Lives!Enter(i, "ready") /\ [k \in Imps |-> Life(k)][i] = Stage(i)
    BY <1>7, <1>8, <1>9, OneMoves DEF Fit, Mapped
<1>11. Lives!Alive \subseteq Live \ {i}
  <2>1. ASSUME NEW j \in Imps, Stage(j) \in {"ready", "running", "asleep", "terminated"}
        PROVE  j \in Live \ {i}
    <3>1. j # i
        BY <1>7, <2>1
    <3>2. mem[j] # "none" /\ mem[j] # "freed"
        BY <2>1 DEF Stage
    <3> QED BY <3>1, <3>2 DEF Live, Fit, Mapped, IInv, TypeOK
  <2>2. \A j \in Lives!Alive : j \in Imps /\ Stage(j) \in {"ready", "running", "asleep", "terminated"}
      BY LifeIsStage DEF LifeStages, Lives!Alive, Lives!In, Fit
  <2> QED BY <2>1, <2>2
<1>12. Cardinality(Lives!Alive) < nr_max
  <2>1. IsFiniteSet(Live) /\ Cardinality(Live) \in Nat /\ i \in Live
      BY <1>4, SetsAreFinite DEF Live
  <2>2. Cardinality(Live) <= nr_max
      BY <2>1, MaxAssumption DEF Fit, Mapped, InLimit, TotalIsLive, One, IInv, TypeOK
  <2>3. IsFiniteSet(Live \ {i}) /\ Cardinality(Live \ {i}) = Cardinality(Live) - 1
      BY <2>1, FS_RemoveElement
  <2>4. Cardinality(Lives!Alive) <= Cardinality(Live \ {i}) /\ IsFiniteSet(Lives!Alive)
      BY <1>11, <2>3, FS_Subset
  <2>5. Cardinality(Lives!Alive) \in Nat
      BY <2>4, FS_CardinalityType
  <2> QED BY <2>1, <2>2, <2>3, <2>4, <2>5, MaxAssumption
<1>13. Lives!Summon(i)
    BY <1>5, <1>7, <1>10, <1>12, SameCardinality DEF Lives!Summon, Lives!MakeReady
<1> QED BY <1>9, <1>13

-----------------------------------------------------------------------------

(* The steps of the others in which no imp goes to another place.          *)
LEMMA OthersStutter ==
    ASSUME Mapped, IInv', Safe', Empty',
           \/ epoll_wait \/ imp_cancel_timer \/ WakeCount \/ WakeEnd
           \/ Decrease \/ Drained \/ PendingEvent
           \/ \E i \in Imps : TimerExpires(i) \/ IoArrives(i) \/ imp_kill(i)
           \/ UNCHANGED vars
    PROVE  Placed' /\ UNCHANGED Lives!lifeVars
<1>1. /\ UNCHANGED <<mem, waitio, queues, pc, cur, slept, spc, child>>
      /\ \/ UNCHANGED <<epc, ecur>>
         \/ epc \in {"wake", "run"} /\ epc' \in {"wake", "run"} /\ UNCHANGED ecur
         \/ epc \notin {"wake", "run"} /\ epc' \notin {"wake", "run"}
    BY DEF epoll_wait, imp_cancel_timer, WakeCount, WakeEnd, Decrease, Drained, PendingEvent,
           TimerExpires, IoArrives, imp_kill, KillRead, KillWrite, vars, body, workers, summons,
           epoller, maint
<1>2. \A j : Newborn(j)' = Newborn(j) /\ Waking(j)' = Waking(j)
    BY <1>1 DEF Newborn, Waking
<1>3. \A w \in Workers : Quiet(w) => Quiet(w)' /\ cur'[w] = cur[w]
    BY <1>1 DEF Quiet, At, InDriver
<1> QED BY <1>1, <1>2, <1>3, StutterStep

LEMMA InitLife == Init => Fit /\ Lives!Init
<1> SUFFICES ASSUME Init PROVE Fit /\ Lives!Init
    OBVIOUS
<1>1. Empty /\ Placed
    BY DEF Init, Empty, Placed
<1>2. TotalIsLive /\ InLimit
  <2>1. Live = {} /\ Cardinality({}) = 0
      BY FS_EmptySet DEF Init, Live
  <2> QED BY <2>1, MaxAssumption DEF Init, TotalIsLive, InLimit, One
<1>3. Fit
    BY <1>1, <1>2, InitIInv, InitSafe DEF Fit, Mapped
<1>4. \A i \in Imps : Stage(i) = "none"
    BY DEF Init, Stage
<1>5. Lives!Init
    BY <1>3, <1>4, LifeIsStage DEF LifeStages, Lives!Init, Init, Fit
<1> QED BY <1>3, <1>5

LEMMA NextLife ==
    ASSUME IsFiniteSet(Imps), IsFiniteSet(Workers), Fit, ~raced', [Next]_vars
    PROVE  Fit' /\ [Lives!Next]_(Lives!lifeVars)
<1>1. Mapped /\ IInv' /\ Safe' /\ Empty' /\ TotalIsLive' /\ InLimit'
    BY NextIInv, NextSafe, NextEmpty, NextTotal, NextInLimit DEF Fit, Mapped
<1> SUFFICES Placed' /\ [Lives!Next]_(Lives!lifeVars)
    BY <1>1 DEF Fit, Mapped
<1>2. ASSUME NEW a \in Actors, Summon(a) PROVE Placed' /\ [Lives!Next]_(Lives!lifeVars)
    BY <1>1, <1>2, NewIsStutter, RunIsSummon DEF Summon, Lives!Next
<1>3. ASSUME NEW w \in Workers, Worker(w) PROVE Placed' /\ [Lives!Next]_(Lives!lifeVars)
  <2>1. CASE Fetch(w)
      BY <1>1, <2>1, FetchIsDrive DEF Lives!Next
  <2>2. CASE ArmNext(w)
      BY <1>1, <2>2, ArmNextIsSleep DEF Lives!Next
  <2>3. CASE Rerun(w)
      BY <1>1, <2>3, RerunIsYield DEF Lives!Next
  <2>4. CASE imp_term(w)
      BY <1>1, <2>4, TermIsTerminate DEF Lives!Next
  <2> QED BY <1>1, <1>3, <2>1, <2>2, <2>3, <2>4, WorkerStutters DEF Worker
<1>4. CASE Epoller
  <2>1. CASE epoll_wait \/ imp_cancel_timer \/ WakeCount \/ WakeEnd
      BY <1>1, <2>1, OthersStutter
  <2>2. CASE WakeCas
      BY <1>1, <2>2, CasIsStutter
  <2>3. CASE WakeRun
      BY <1>1, <2>3, WakeRunIsWake DEF Lives!Next
  <2> QED BY <1>4, <2>1, <2>2, <2>3 DEF Epoller
<1>5. CASE Maintainer
  <2>1. CASE imp_dismiss
      BY <1>1, <2>1, DismissIsDismiss DEF Lives!Next
  <2>2. CASE Decrease \/ Drained \/ PendingEvent
      BY <1>1, <2>2, OthersStutter
  <2> QED BY <1>5, <2>1, <2>2 DEF Maintainer
<1>6. ASSUME NEW i \in Imps, TimerExpires(i) \/ IoArrives(i) \/ imp_kill(i)
      PROVE  Placed' /\ [Lives!Next]_(Lives!lifeVars)
    BY <1>1, <1>6, OthersStutter
<1>7. CASE UNCHANGED vars
  <2>1. Placed' /\ UNCHANGED Lives!lifeVars
      BY <1>1, <1>7, OthersStutter
  <2> QED BY <2>1
<1> QED BY <1>2, <1>3, <1>4, <1>5, <1>6, <1>7 DEF Next

(* Until one of the four races, imp_summon, the workers, the epoller and   *)
(* the maintainer together implement the life of an imp: none is lost,     *)
(* driven by two workers or out of turn, woken or dismissed twice, and no  *)
(* more than nr_max live.  Any number of workers, any requests.            *)
THEOREM DungeonImplementsImpLife ==
    ASSUME IsFiniteSet(Imps), IsFiniteSet(Workers)
    PROVE  Spec => ImplementsImpLife
<1> DEFINE All == IInv /\ (raced \/ Fit)
<1>1. Init => All /\ Lives!Init
    BY InitIInv, InitLife
<1>2. All /\ [Next]_vars => All' /\ [Lives!Next \/ raced']_(Lives!lifeVars)
  <2> SUFFICES ASSUME All, [Next]_vars
               PROVE  All' /\ [Lives!Next \/ raced']_(Lives!lifeVars)
      OBVIOUS
  <2>1. IInv' /\ (raced => raced')
      BY NextIInv, RacedStays
  <2>2. CASE ~raced'
      BY <2>1, <2>2, NextLife
  <2> QED BY <2>1, <2>2
<1> QED BY <1>1, <1>2, PTL DEF Spec, ImplementsImpLife

=============================================================================
