------------------------------ MODULE Dungeon ------------------------------
(***************************************************************************)
(* The dungeon at work: imp.c, imp_body.c, the worker and epoller threads  *)
(* of thr_worker.c and the maintainer thread of thr_maintainer.c, around   *)
(* the run queue, the terminated queue and one epoll descriptor.           *)
(*                                                                         *)
(* Queue operations are atomic here, which is what Queue and its proofs    *)
(* establish.  A soul's fsm_driver is one step that picks any of the       *)
(* behaviours the constants allow.  An imp is a member of Imps and its     *)
(* memory is not used again after free, so a freed imp is recognised       *)
(* wherever a thread still holds its pointer; the thread stops there, as C *)
(* promises nothing of what follows.                                       *)
(*                                                                         *)
(* No lock is held for an imp.  Four things are left to luck, and the      *)
(* history variable raced records that one of them happened: an imp is     *)
(* fetched while the worker before is still arming it; its worker marks it *)
(* as waiting again after the first of its events has woken it; epoll_wait *)
(* reports an event of an imp that is awake, or two of one imp; and        *)
(* imp_summon raises nr_total that others have raised to nr_max meanwhile. *)
(***************************************************************************)
EXTENDS Integers, Sequences, FiniteSets

CONSTANTS
    Imps,           \* the imps that may ever be summoned
    Workers,        \* the threads that run thr_driver
    Main,           \* the thread that loads the rooms, and summons for them
    NoImp,          \* no imp
    nr_max,         \* the limit on imps, and the capacity of both queues
    Requests,       \* Requests[i]: the sets of events i's soul may ask for before it blocks
    MaySummon,      \* MaySummon[a]: the imps the code run by thread a summons
    MayTerm,        \* the imps whose soul may return TO_TERM
    MayKill,        \* the imps a room may call imp_kill for
    MayRefuse,      \* the imps for whose descriptors both epoll_ctl calls may fail
    Debug           \* is LogLevel L_DEBUG?  Only then does mylog read what it logs

Kinds == {"io", "timer"}        \* a descriptor of the soul, and timer_fd
Actors == Workers \cup {Main}

ASSUME ImpsAssumption == NoImp \notin Imps /\ Main \notin Workers
ASSUME MaxAssumption == nr_max \in Nat \ {0}
ASSUME RequestsAssumption == Requests \in [Imps -> SUBSET SUBSET Kinds]
ASSUME SummonAssumption == MaySummon \in [Actors -> SUBSET Imps]
ASSUME SoulAssumption ==
    MayTerm \subseteq Imps /\ MayKill \subseteq Imps /\ MayRefuse \subseteq Imps
ASSUME DebugAssumption == Debug \in BOOLEAN

VARIABLES
    mem,        \* mem[i]: "none", "live" or "freed"
    waitio,     \* imp->waitio
    requested,  \* imp->requested_events
    mask,       \* imp->event_mask
    timer,      \* timer_fd: "off", "set", or "expired" and not yet read
    fdready,    \* has the soul's enabled descriptor an event to report?
    armed,      \* the descriptors whose EPOLLONESHOT interest is enabled
    kread,      \* kread[i]: the event_mask that imp_kill has read, and not yet written
    run_queue, terminated_queue, nr_total, nr_waitio,
    pc, cur, job, slept,    \* the workers; slept stands for count > 0
    spc, child,             \* imp_summon, as called by each actor
    epc, batch, ecur,       \* the epoller, and what epoll_wait returned
    mpc, pending_event,     \* the maintainer
    raced                   \* has what no lock excludes happened?  (No state of the code.)

body    == <<requested, mask, timer, fdready, armed, kread>>
queues  == <<run_queue, terminated_queue>>
counts  == <<nr_total, nr_waitio>>
workers == <<pc, cur, job, slept>>
summons == <<spc, child>>
epoller == <<epc, batch, ecur>>
maint   == <<mpc, pending_event>>
vars == <<mem, waitio, body, queues, counts, workers, summons, epoller, maint, raced>>

Init ==
    /\ mem = [i \in Imps |-> "none"]
    /\ waitio = [i \in Imps |-> FALSE]
    /\ requested = [i \in Imps |-> {}] /\ mask = [i \in Imps |-> {}]
    /\ timer = [i \in Imps |-> "off"] /\ fdready = [i \in Imps |-> FALSE]
    /\ armed = [i \in Imps |-> {}] /\ kread = [i \in Imps |-> {}]
    /\ run_queue = <<>> /\ terminated_queue = <<>>
    /\ nr_total = 0 /\ nr_waitio = 0
    /\ pc = [w \in Workers |-> "idle"] /\ cur = [w \in Workers |-> NoImp]
    /\ job = [w \in Workers |-> "none"] /\ slept = [w \in Workers |-> FALSE]
    /\ spc = [a \in Actors |-> "none"] /\ child = [a \in Actors |-> NoImp]
    /\ epc = "wait" /\ batch = {} /\ ecur = NoImp
    /\ mpc = "drain" /\ pending_event = FALSE
    /\ raced = FALSE

InQueue(q) == {q[k] : k \in DOMAIN q}

(* Definitions whose names end in _Bug are what a slip in the code would   *)
(* give; each stands before the definition it varies and is part of no     *)
(* specification.  They show that a property can fail.                     *)
imp_run_Small_Bug(i) ==
    run_queue' = IF Len(run_queue) >= nr_max - 1 \/ i \in InQueue(run_queue)
                   THEN run_queue ELSE Append(run_queue, i)
imp_run_First_Bug(i) ==
    run_queue' = IF Len(run_queue) >= nr_max \/ i \in InQueue(run_queue)
                   THEN run_queue ELSE <<i>> \o run_queue

(* Both callers ignore the -1 of a full queue.                             *)
imp_run(i) ==
    run_queue' = IF Len(run_queue) >= nr_max \/ i \in InQueue(run_queue)
                   THEN run_queue ELSE Append(run_queue, i)
to_terminated(i) ==
    terminated_queue' = IF Len(terminated_queue) >= nr_max
                          THEN terminated_queue ELSE Append(terminated_queue, i)

Go(w, label) == pc' = [pc EXCEPT ![w] = label]

-----------------------------------------------------------------------------
(* imp_summon.  A summoner refused because nr_total has reached nr_max, or *)
(* out of memory, changes nothing.                                         *)

CanSummon(a) == IF a = Main THEN TRUE ELSE pc[a] = "drive" /\ mem[cur[a]] = "live"

SummonCheck(a) ==
    /\ CanSummon(a) /\ spc[a] = "none"
    /\ \E i \in MaySummon[a] : mem[i] = "none"
    /\ nr_total < nr_max
    /\ spc' = [spc EXCEPT ![a] = "new"]
    /\ UNCHANGED <<mem, waitio, body, queues, counts, workers, child, epoller, maint, raced>>

imp_new(a) ==
    /\ spc[a] = "new"
    /\ \/ \E i \in MaySummon[a] :
            /\ mem[i] = "none"
            /\ mem' = [mem EXCEPT ![i] = "live"]
            /\ child' = [child EXCEPT ![a] = i]
            /\ nr_total' = nr_total + 1
            /\ spc' = [spc EXCEPT ![a] = "run"]
            /\ raced' = (raced \/ nr_total >= nr_max)
       \/ /\ spc' = [spc EXCEPT ![a] = "none"]
          /\ UNCHANGED <<mem, child, nr_total, raced>>
    /\ UNCHANGED <<waitio, body, queues, nr_waitio, workers, epoller, maint>>

SummonRun(a) ==
    /\ spc[a] = "run"
    /\ imp_run(child[a])
    /\ spc' = [spc EXCEPT ![a] = "none"]
    /\ child' = [child EXCEPT ![a] = NoImp]
    /\ UNCHANGED <<mem, waitio, body, terminated_queue, counts, workers, epoller, maint, raced>>

Summon(a) == SummonCheck(a) \/ imp_new(a) \/ SummonRun(a)

-----------------------------------------------------------------------------
(* A worker: thr_driver and imp_driver.                                    *)

(* The worker follows the pointer of its imp in imp_driver, its soul ...   *)
InDriver(w) == pc[w] \in {"reduct", "check", "alert", "drive", "arm", "poll"}

(* ... or, at L_DEBUG, for a line of the log after that.                   *)
InLog(w) == Debug /\ pc[w] \in {"count", "yielded"}

Fetch(w) ==
    /\ pc[w] = "idle" /\ run_queue # <<>>
    /\ cur' = [cur EXCEPT ![w] = Head(run_queue)]
    /\ run_queue' = Tail(run_queue)
    /\ Go(w, "reduct")
    /\ raced' = (raced \/ \E v \in Workers : InDriver(v) /\ cur[v] = Head(run_queue))
    /\ UNCHANGED <<mem, waitio, body, terminated_queue, counts, job, slept,
                   summons, epoller, maint>>

(* imp->event_mask = imp_reduct_event_mask(imp): an expired timer is read  *)
(* and reported, any other is disarmed.  What the mask held before is lost.*)
Reduct(w) ==
    LET i == cur[w] IN
    /\ pc[w] = "reduct" /\ mem[i] = "live"
    /\ mask' = [mask EXCEPT ![i] = IF timer[i] = "expired" THEN {"TIMER"} ELSE {}]
    /\ timer' = [timer EXCEPT ![i] = "off"]
    /\ Go(w, "check")
    /\ UNCHANGED <<mem, waitio, requested, fdready, armed, kread, queues, counts,
                   cur, job, slept, summons, epoller, maint, raced>>

CheckKill(w) ==
    LET i == cur[w] IN
    /\ pc[w] = "check" /\ mem[i] = "live"
    /\ IF "KILL" \in mask[i]
         THEN waitio' = [waitio EXCEPT ![i] = FALSE] /\ Go(w, "term")
         ELSE UNCHANGED waitio /\ Go(w, "alert")
    /\ UNCHANGED <<mem, body, queues, counts, cur, job, slept, summons, epoller, maint, raced>>

(* EV_MASK_GLOBAL_ALERT shares its lowest bit with EV_MASK_KILL.           *)
CheckAlert(w) ==
    /\ pc[w] = "alert" /\ mem[cur[w]] = "live"
    /\ Go(w, IF "KILL" \in mask[cur[w]] THEN "term" ELSE "drive")
    /\ UNCHANGED <<mem, waitio, body, queues, counts, cur, job, slept, summons,
                   epoller, maint, raced>>

(* llist_*_nb gives up when another worker is inside the same list.        *)
Contended(w) ==
    \E v \in Workers \ {w} : cur[v] = cur[w] /\ pc[v] \in {"drive", "arm"}

(* fsm_driver returns TO_TERM ...                                          *)
SoulTerm(w) ==
    /\ pc[w] = "drive" /\ mem[cur[w]] = "live" /\ spc[w] = "none"
    /\ cur[w] \in MayTerm
    /\ Go(w, "term")
    /\ UNCHANGED <<mem, waitio, body, queues, counts, cur, job, slept, summons,
                   epoller, maint, raced>>

(* ... or another code, after imp_set_ioev and imp_set_timer.  A soul asks *)
(* for its descriptor after that reported nothing more to do.              *)
SoulYield(w) ==
    LET i == cur[w] IN
    /\ pc[w] = "drive" /\ mem[i] = "live" /\ spc[w] = "none"
    /\ \E r \in Requests[i] :
        /\ \E appended \in SUBSET r :
            /\ Contended(w) \/ appended = r
            /\ requested' = [requested EXCEPT ![i] = @ \cup appended]
        /\ timer' = IF "timer" \in r THEN [timer EXCEPT ![i] = "set"] ELSE timer
        /\ fdready' = IF "io" \in r THEN [fdready EXCEPT ![i] = FALSE] ELSE fdready
    /\ Go(w, "arm")
    /\ UNCHANGED <<mem, waitio, mask, armed, kread, queues, counts, cur, job, slept,
                   summons, epoller, maint, raced>>

(* The loop over requested_events: fetch one, mark the imp as waiting, ... *)
ArmNext(w) ==
    LET i == cur[w] IN
    /\ pc[w] = "arm" /\ mem[i] = "live"
    /\ \E k \in requested[i] :
        /\ requested' = [requested EXCEPT ![i] = @ \ {k}]
        /\ job' = [job EXCEPT ![w] = k]
    /\ waitio' = [waitio EXCEPT ![i] = TRUE]
    /\ slept' = [slept EXCEPT ![w] = TRUE]
    /\ Go(w, "poll")
    /\ raced' = (raced \/ (slept[w] /\ ~waitio[i]))
    /\ UNCHANGED <<mem, mask, timer, fdready, armed, kread, queues, counts, cur,
                   summons, epoller, maint>>

(* epoll_ctl; the descriptor is lost, or enabled.                          *)
Enable_Bug(w) == armed' = [armed EXCEPT ![cur[w]] = {}]
Enable(w) == armed' = [armed EXCEPT ![cur[w]] = @ \cup {job[w]}]

(* ... and hand its descriptor to epoll.  The result is not looked at.     *)
set_poll_action(w) ==
    /\ pc[w] = "poll" /\ mem[cur[w]] = "live"
    /\ Enable(w) \/ (cur[w] \in MayRefuse /\ UNCHANGED armed)
    /\ job' = [job EXCEPT ![w] = "none"]
    /\ Go(w, "arm")
    /\ UNCHANGED <<mem, waitio, requested, mask, timer, fdready, kread, queues, counts,
                   cur, slept, summons, epoller, maint, raced>>

ArmEnd(w) ==
    /\ pc[w] = "arm" /\ mem[cur[w]] = "live"
    /\ requested[cur[w]] = {} \/ Contended(w)
    /\ Go(w, IF slept[w] THEN "count" ELSE "rerun")
    /\ UNCHANGED <<mem, waitio, body, queues, counts, cur, job, slept, summons,
                   epoller, maint, raced>>

(* An imp that is awake again already is not counted, or is.               *)
Slept_Bug(w) == nr_waitio' = IF waitio[cur[w]] THEN nr_waitio + 1 ELSE nr_waitio
Slept(w) == nr_waitio' = nr_waitio + 1

CountSleeper(w) ==
    /\ pc[w] = "count" /\ (InLog(w) => mem[cur[w]] = "live")
    /\ Slept(w)
    /\ slept' = [slept EXCEPT ![w] = FALSE]
    /\ Go(w, "yielded")
    /\ UNCHANGED <<mem, waitio, body, queues, nr_total, cur, job, summons, epoller, maint, raced>>

Rerun(w) ==
    /\ pc[w] = "rerun"
    /\ imp_run(cur[w])
    /\ Go(w, "yielded")
    /\ UNCHANGED <<mem, waitio, body, terminated_queue, counts, cur, job, slept, summons,
                   epoller, maint, raced>>

(* The return after imp_term is forgotten, or the maintainer is not woken. *)
AfterTerm_Bug(w) == Go(w, "drive")
AfterTerm_Quiet_Bug(w) == Go(w, "yielded")
AfterTerm(w) == Go(w, "wakeup")

imp_term(w) ==
    /\ pc[w] = "term"
    /\ to_terminated(cur[w])
    /\ AfterTerm(w)
    /\ UNCHANGED <<mem, waitio, body, run_queue, counts, cur, job, slept, summons,
                   epoller, maint, raced>>

thr_maintainer_wakeup(w) ==
    /\ pc[w] = "wakeup"
    /\ pending_event' = TRUE
    /\ Go(w, "yielded")
    /\ UNCHANGED <<mem, waitio, body, queues, counts, cur, job, slept, summons,
                   epoller, mpc, raced>>

(* Back in thr_driver, which logs the id of an imp it may have terminated. *)
Yielded(w) ==
    /\ pc[w] = "yielded" /\ (InLog(w) => mem[cur[w]] = "live")
    /\ Go(w, "idle")
    /\ cur' = [cur EXCEPT ![w] = NoImp]
    /\ UNCHANGED <<mem, waitio, body, queues, counts, job, slept, summons, epoller,
                   maint, raced>>

Worker(w) ==
    \/ Fetch(w) \/ Reduct(w) \/ CheckKill(w) \/ CheckAlert(w)
    \/ SoulTerm(w) \/ SoulYield(w)
    \/ ArmNext(w) \/ set_poll_action(w) \/ ArmEnd(w)
    \/ CountSleeper(w) \/ Rerun(w) \/ imp_term(w) \/ thr_maintainer_wakeup(w)
    \/ Yielded(w)

-----------------------------------------------------------------------------
(* The epoller: thr_epoller, imp_cancel_timer and imp_wake.                *)

Reports_Bug(i, k) == k \in armed[i] /\ fdready[i]
Reports(i, k) ==
    k \in armed[i] /\ IF k = "io" THEN fdready[i] ELSE timer[i] = "expired"

(* epoll_wait returns every enabled descriptor with an event (IOEV_SIZE is *)
(* larger than their number) and disables each, as EPOLLONESHOT says.      *)
epoll_wait ==
    /\ epc = "wait" /\ batch = {}
    /\ batch' = {e \in Imps \X Kinds : Reports(e[1], e[2])}
    /\ batch' # {}
    /\ armed' = [i \in Imps |-> {k \in armed[i] : ~Reports(i, k)}]
    /\ fdready' = [i \in Imps |-> fdready[i] /\ "io" \notin armed[i]]
    /\ raced' = (raced \/ \E e \in batch' : ~waitio[e[1]] \/ \E f \in batch' \ {e} : f[1] = e[1])
    /\ UNCHANGED <<mem, waitio, requested, mask, timer, kread, queues, counts,
                   workers, summons, epc, ecur, maint>>

imp_cancel_timer ==
    /\ epc = "wait"
    /\ \E e \in batch :
        /\ mem[e[1]] = "live"
        /\ timer' = [timer EXCEPT ![e[1]] = "off"]
        /\ ecur' = e[1]
        /\ batch' = batch \ {e}
    /\ epc' = "cas"
    /\ UNCHANGED <<mem, waitio, requested, mask, fdready, armed, kread, queues, counts,
                   workers, summons, maint, raced>>

(* The imp to wake, which is forgotten too early in the first.             *)
Woken_Bug == epc' = (IF waitio[ecur] THEN "wake" ELSE "woken") /\ ecur' = NoImp
Woken == epc' = (IF waitio[ecur] THEN "wake" ELSE "woken") /\ UNCHANGED ecur

WakeCas ==
    /\ epc = "cas" /\ mem[ecur] = "live"
    /\ waitio' = [waitio EXCEPT ![ecur] = FALSE]
    /\ Woken
    /\ UNCHANGED <<mem, body, queues, counts, workers, summons, batch, maint, raced>>

WakeCount ==
    /\ epc = "wake"
    /\ nr_waitio' = nr_waitio - 1
    /\ epc' = "run"
    /\ UNCHANGED <<mem, waitio, body, queues, nr_total, workers, summons, batch, ecur,
                   maint, raced>>

WakeRun ==
    /\ epc = "run"
    /\ imp_run(ecur)
    /\ epc' = "woken"
    /\ UNCHANGED <<mem, waitio, body, terminated_queue, counts, workers, summons,
                   batch, ecur, maint, raced>>

(* Either end of imp_wake logs the imp's id.                               *)
WakeEnd ==
    /\ epc = "woken" /\ (Debug => mem[ecur] = "live")
    /\ epc' = "wait" /\ ecur' = NoImp
    /\ UNCHANGED <<mem, waitio, body, queues, counts, workers, summons, batch, maint, raced>>

Epoller ==
    epoll_wait \/ imp_cancel_timer \/ WakeCas \/ WakeCount \/ WakeRun \/ WakeEnd

-----------------------------------------------------------------------------
(* The maintainer: thr_maintainer and imp_dismiss.                         *)

(* fsm_delete closes the soul's descriptor, imp_body_delete closes         *)
(* timer_fd, and epoll forgets both.  What requested_events still holds is *)
(* given to free, though imp_set_timer stores a number there, no pointer.  *)
imp_dismiss ==
    /\ mpc = "drain" /\ terminated_queue # <<>>
    /\ LET i == Head(terminated_queue) IN
        /\ mem[i] = "live" /\ "timer" \notin requested[i]
        /\ mem' = [mem EXCEPT ![i] = "freed"]
        /\ requested' = [requested EXCEPT ![i] = {}]
        /\ armed' = [armed EXCEPT ![i] = {}]
        /\ timer' = [timer EXCEPT ![i] = "off"]
        /\ fdready' = [fdready EXCEPT ![i] = FALSE]
        /\ mask' = [mask EXCEPT ![i] = {}]
        /\ kread' = [kread EXCEPT ![i] = {}]
    /\ terminated_queue' = Tail(terminated_queue)
    /\ mpc' = "decrease"
    /\ UNCHANGED <<waitio, run_queue, counts, workers, summons, epoller,
                   pending_event, raced>>

Decrease ==
    /\ mpc = "decrease"
    /\ nr_total' = nr_total - 1
    /\ mpc' = "drain"
    /\ UNCHANGED <<mem, waitio, body, queues, nr_waitio, workers, summons, epoller,
                   pending_event, raced>>

Drained ==
    /\ mpc = "drain" /\ terminated_queue = <<>>
    /\ mpc' = "sleep"
    /\ UNCHANGED <<mem, waitio, body, queues, counts, workers, summons, epoller,
                   pending_event, raced>>

(* The wait for pending_event, whose flag and condition variable are under *)
(* one mutex on both sides.                                                *)
PendingEvent ==
    /\ mpc = "sleep" /\ pending_event
    /\ pending_event' = FALSE
    /\ mpc' = "drain"
    /\ UNCHANGED <<mem, waitio, body, queues, counts, workers, summons, epoller, raced>>

Maintainer == imp_dismiss \/ Decrease \/ Drained \/ PendingEvent

-----------------------------------------------------------------------------
(* What happens to an imp from outside.                                    *)

TimerExpires(i) ==
    /\ timer[i] = "set"
    /\ timer' = [timer EXCEPT ![i] = "expired"]
    /\ UNCHANGED <<mem, waitio, requested, mask, fdready, armed, kread, queues, counts,
                   workers, summons, epoller, maint, raced>>

(* What arrives while the descriptor is not enabled is reported once it    *)
(* is, as if it came then.                                                 *)
IoArrives(i) ==
    /\ "io" \in armed[i] /\ ~fdready[i]
    /\ fdready' = [fdready EXCEPT ![i] = TRUE]
    /\ UNCHANGED <<mem, waitio, requested, mask, timer, armed, kread, queues, counts,
                   workers, summons, epoller, maint, raced>>

(* event_mask |= EV_MASK_KILL reads and writes, and what a worker stores   *)
(* between is lost.  A room kills an imp it knows to live.                 *)
KillRead(i) ==
    /\ i \in MayKill /\ mem[i] = "live" /\ kread[i] = {}
    /\ kread' = [kread EXCEPT ![i] = {mask[i]}]
    /\ UNCHANGED <<mem, waitio, requested, mask, timer, fdready, armed, queues, counts,
                   workers, summons, epoller, maint, raced>>

KillWrite(i) ==
    /\ mem[i] = "live"
    /\ \E m \in kread[i] : mask' = [mask EXCEPT ![i] = m \cup {"KILL"}]
    /\ kread' = [kread EXCEPT ![i] = {}]
    /\ UNCHANGED <<mem, waitio, requested, timer, fdready, armed, queues, counts,
                   workers, summons, epoller, maint, raced>>

imp_kill(i) == KillRead(i) \/ KillWrite(i)

Next ==
    \/ \E a \in Actors : Summon(a)
    \/ \E w \in Workers : Worker(w)
    \/ Epoller \/ Maintainer
    \/ \E i \in Imps : TimerExpires(i) \/ IoArrives(i) \/ imp_kill(i)

Spec == Init /\ [][Next]_vars

(* Every thread of the dungeon runs on, a timer that is set expires, and   *)
(* an fsm_driver returns.  Nothing is assumed of descriptors, of imp_kill, *)
(* or of anybody summoning at all, but a summoning once begun goes on.     *)
Fairness ==
    /\ \A w \in Workers : WF_vars(Worker(w))
    /\ \A a \in Actors : WF_vars(imp_new(a) \/ SummonRun(a))
    /\ WF_vars(Epoller) /\ WF_vars(Maintainer)
    /\ \A i \in Imps : WF_vars(TimerExpires(i))

FairSpec == Spec /\ Fairness

-----------------------------------------------------------------------------

Labels == {"idle", "reduct", "check", "alert", "drive", "arm", "poll", "count", "rerun",
           "term", "wakeup", "yielded"}

TypeOK ==
    /\ mem \in [Imps -> {"none", "live", "freed"}]
    /\ waitio \in [Imps -> BOOLEAN]
    /\ requested \in [Imps -> SUBSET Kinds]
    /\ mask \in [Imps -> SUBSET {"KILL", "TIMER"}]
    /\ timer \in [Imps -> {"off", "set", "expired"}]
    /\ fdready \in [Imps -> BOOLEAN]
    /\ armed \in [Imps -> SUBSET Kinds]
    /\ kread \in [Imps -> SUBSET SUBSET {"KILL", "TIMER"}]
    /\ run_queue \in Seq(Imps) /\ terminated_queue \in Seq(Imps)
    /\ nr_total \in Int /\ nr_waitio \in Int
    /\ pc \in [Workers -> Labels]
    /\ cur \in [Workers -> Imps \cup {NoImp}]
    /\ job \in [Workers -> Kinds \cup {"none"}]
    /\ slept \in [Workers -> BOOLEAN]
    /\ spc \in [Actors -> {"none", "new", "run"}]
    /\ child \in [Actors -> Imps \cup {NoImp}]
    /\ epc \in {"wait", "cas", "wake", "run", "woken"}
    /\ batch \in SUBSET (Imps \X Kinds) /\ ecur \in Imps \cup {NoImp}
    /\ mpc \in {"drain", "decrease", "sleep"} /\ pending_event \in BOOLEAN
    /\ raced \in BOOLEAN

(* Until a race, no thread is about to follow the pointer of an imp that   *)
(* the maintainer has freed: not a worker in imp_driver, while others      *)
(* drive, the epoller wakes and the maintainer frees beside it; not the    *)
(* epoller with an event that epoll_wait returned earlier; not the         *)
(* maintainer with an imp that was terminated twice.  The lines that       *)
(* thr_driver, imp_driver and imp_wake log at L_DEBUG are outside: where   *)
(* Debug holds they read freed imps, and this is false.                    *)
NoUseAfterFree ==
    raced \/ /\ \A w \in Workers : InDriver(w) \/ InLog(w) => mem[cur[w]] = "live"
             /\ \A e \in batch : mem[e[1]] = "live"
             /\ epc = "cas" \/ (Debug /\ epc = "woken") => mem[ecur] = "live"
             /\ mpc = "drain" /\ terminated_queue # <<>>
                  => mem[Head(terminated_queue)] = "live"

Live == {i \in Imps : mem[i] = "live"}
Sleepers == {i \in Imps : waitio[i]}
One(condition) == IF condition THEN 1 ELSE 0

(* The actors that found nr_total below nr_max and have not raised it yet. *)
Begun == {a \in Actors : spc[a] = "new"}

(* nr_total counts the imps in memory, late by one while the maintainer is *)
(* between free and atomic_decrease.  imp_summon tests it before it raises *)
(* it, so that actors that summon at once pass the limit, but no worker by *)
(* more than one imp.                                                      *)
TotalAccounting ==
    /\ nr_total = Cardinality(Live) + One(mpc = "decrease")
    /\ nr_total + Cardinality(Begun) <= nr_max + Cardinality(Workers)

(* nr_waitio counts the imps with waitio set, except that a worker adds to *)
(* it only after its imp may have been woken, and even driven and freed,   *)
(* and the epoller subtracts from it only after it has cleared waitio.     *)
WaitioAccounting ==
    nr_waitio = Cardinality(Sleepers) + One(epc = "wake")
                  - Cardinality({w \in Workers : slept[w]})

(* Both counters, which the status of the monitor shows and imp_summon     *)
(* goes by, are right up to what the threads have still to add or to take; *)
(* nr_waitio only until a race.                                            *)
Accounting == TotalAccounting /\ (raced \/ WaitioAccounting)

(* Until a race, an imp marked as waiting has a descriptor enabled in      *)
(* epoll that can report, a timer only if it is still set or expired,      *)
(* unless its worker or the epoller is at it this moment: somebody can     *)
(* wake it.  Of an imp whose descriptor epoll may refuse that cannot be    *)
(* said, for nobody looks at what set_poll_action returns.                 *)
AsleepIsArmed ==
    raced \/ \A i \in Imps \ MayRefuse :
        waitio[i] => \/ "io" \in armed[i]
                     \/ "timer" \in armed[i] /\ timer[i] # "off"
                     \/ \E w \in Workers : cur[w] = i /\ pc[w] = "poll"
                     \/ \E e \in batch : e[1] = i
                     \/ epc = "cas" /\ ecur = i

(* Where each imp is in its life.  A worker that has armed it, queued it   *)
(* or terminated it is at it no longer.                                    *)
Life(i) ==
    CASE mem[i] = "none" \/ \E a \in Actors : child[a] = i -> "none"
      [] mem[i] = "freed" -> "gone"
      [] OTHER ->
         IF i \in InQueue(terminated_queue) THEN "terminated"
         ELSE IF i \in InQueue(run_queue) THEN "ready"
         ELSE IF waitio[i] \/ (epc \in {"wake", "run"} /\ ecur = i) THEN "asleep"
         ELSE IF \E w \in Workers : cur[w] = i /\ (InDriver(w) \/ pc[w] \in {"rerun", "term"})
                THEN "running"
         ELSE "lost"

Lives == INSTANCE ImpLife
         WITH life <- [i \in Imps |-> Life(i)], ready <- run_queue,
              MaxImps <- nr_max, Drivers <- Cardinality(Workers)

(* Until a race no imp is lost, driven by two workers, driven after it was *)
(* terminated, put to sleep or woken behind its worker's back, dismissed   *)
(* twice, or driven out of turn, and no more than nr_max live: the threads *)
(* together implement the life of an imp.  A race is what breaks this in   *)
(* the code: two workers then drive one imp, or more than nr_max live.     *)
ImplementsImpLife == Lives!Init /\ [][Lives!Next \/ raced']_(Lives!lifeVars)

(* Every imp put in the run queue is driven, or the dungeon would starve a *)
(* room; unless there is a race, after which a worker may be at a freed    *)
(* imp.                                                                    *)
QueuedIsDriven ==
    \A i \in Imps :
        Life(i) = "ready" ~> raced \/ \E w \in Workers : cur[w] = i /\ pc[w] = "reduct"

(* An imp that sleeps on its timer is in the run queue again, until a race *)
(* takes the timer from it.                                                *)
TimerWakes ==
    \A i \in Imps :
        waitio[i] /\ "timer" \in armed[i] /\ timer[i] # "off" ~> Life(i) = "ready" \/ raced

(* Every imp terminated is dismissed: the maintainer misses no wake-up.    *)
TerminatedIsFreed ==
    \A i \in Imps : Life(i) = "terminated" ~> mem[i] = "freed" \/ raced

-----------------------------------------------------------------------------
(* What the comments of the code say.                                      *)

(* imp.h: IMP_TIMEDOUT is the bit of event_mask the rooms look at after an *)
(* expired timer.  No expiry is taken from a timer of a live imp without   *)
(* reporting it there.                                                     *)
ExpiryIsReported ==
    [][\A i \in Imps :
         timer[i] = "expired" /\ timer'[i] # "expired" /\ mem'[i] = "live"
           => "TIMER" \in mask'[i]]_vars

(* imp.h: "Notify an imp to terminate. Safe."  An imp that is killed while *)
(* it is queued comes to the terminated queue.                             *)
KillIsObeyed ==
    \A i \in Imps :
        Life(i) = "ready" /\ "KILL" \in mask[i] ~> Life(i) \in {"terminated", "gone"}
=============================================================================
