------------------------------- MODULE Daemon -------------------------------
(***************************************************************************)
(* The dungeon comes up and goes down: main and daemon_exit of main.c,     *)
(* dungeon_init and dungeon_delete of dungeon.c, and the threads they      *)
(* create, cancel and join (thr_worker.c, thr_maintainer.c,                *)
(* thr_monitor.c).                                                         *)
(*                                                                         *)
(* What a worker does with an imp is a single step here, and an imp asks   *)
(* for one event at a time; Dungeon has the details.  A worker takes a     *)
(* pthread_cancel where C says it may: asleep in queue_dequeue, and in the *)
(* read, accept, recv or send it reaches before fsm_driver has returned.   *)
(* The mutexes of the run queue and of the list of rooms appear where main *)
(* holds one as a signal arrives: its handler then runs above that lock.   *)
(***************************************************************************)
EXTENDS Naturals, Sequences, FiniteSets

CONSTANTS
    Imps,           \* the imps that may ever be summoned
    Listeners,      \* those that the rooms summon, one for each room
    MayTerm,        \* those whose soul may return TO_TERM
    Workers,        \* the threads that run thr_driver
    NoImp,          \* no imp
    MayFail         \* the steps of dungeon_init that may fail

Threads == Workers \cup {"epoller", "maintainer", "monitor"}
Steps == {"heart", "workers", "maintainer", "monitor", "rooms"}

ASSUME ImpsAssumption == NoImp \notin Imps /\ Listeners \subseteq Imps /\ MayTerm \subseteq Imps
ASSUME WorkersAssumption == Workers \cap {"epoller", "maintainer", "monitor"} = {}
ASSUME FailAssumption == MayFail \subseteq Steps

VARIABLES
    main,           \* where the main thread is
    holds,          \* the mutexes it holds between the steps of dungeon_add_room
    up,             \* the parts of the dungeon that are in place
    room,           \* what became of the room of listener l: "untried", "adding", "failed",
                    \* "loaded" (it is in dungeon_heart->rooms), "unloaded"; its id_listener
                    \* is NULL if l has not been summoned
    pc,             \* where the other threads are
    cancel,         \* the threads pthread_cancel was called for
    worker_quit, thread_quit_mark, pending_event,
    mem,            \* mem[i]: "none", "live" or "freed"
    cur,            \* cur[w]: the imp worker w drives
    asleep,         \* the imps that wait for an event
    batch,          \* the imps of the events epoll_wait returned
    run_queue, terminated_queue

flags == <<worker_quit, thread_quit_mark, pending_event>>
parts == <<up, room>>
threads == <<pc, cancel>>
queues == <<run_queue, terminated_queue>>
imps == <<mem, cur, asleep, batch>>
vars == <<main, holds, parts, threads, flags, imps, queues>>

Init ==
    /\ main = "heart" /\ holds = {} /\ up = {} /\ room = [l \in Listeners |-> "untried"]
    /\ pc = [t \in Threads |-> "unborn"] /\ cancel = {}
    /\ worker_quit = FALSE /\ thread_quit_mark = FALSE /\ pending_event = FALSE
    /\ mem = [i \in Imps |-> "none"] /\ cur = [w \in Workers |-> NoImp]
    /\ asleep = {} /\ batch = {}
    /\ run_queue = <<>> /\ terminated_queue = <<>>

InQueue(q) == {q[k] : k \in DOMAIN q}
To(here, there) == main = here /\ main' = there
Born(T, label) == pc' = [t \in Threads |-> IF t \in T THEN label ELSE pc[t]]
RunQueueFree == "run_queue" \notin holds

-----------------------------------------------------------------------------
(* Definitions whose names end in _Bug are what a slip in the code would   *)
(* give; each stands before the definition it varies and is part of no     *)
(* specification.  They show that a property can fail.                     *)

(* dungeon_init.  When a step of it fails, main aborts.                    *)

(* dungeon_heart is freed although some of its threads may run.            *)
Fail(step, created) ==
    /\ step \in MayFail /\ To(step, "failed")
    /\ Born(created, "loop")
    /\ up' = up \ {"heart"}
    /\ UNCHANGED <<holds, room, cancel, flags, imps, queues>>

Create(step, T, label, next) ==
    /\ To(step, next)
    /\ Born(T, label)
    /\ UNCHANGED <<holds, parts, cancel, flags, imps, queues>>

(* The memory, the queues, the epoll descriptor.                           *)
InitHeart ==
    \/ /\ To("heart", "workers")
       /\ up' = {"heart", "run_queue", "terminated_queue", "epoll_fd"}
       /\ UNCHANGED <<holds, room, threads, flags, imps, queues>>
    \/ Fail("heart", {})

(* One worker is enough, when pthread_create refuses the next.             *)
thr_worker_create ==
    \/ \E W \in SUBSET Workers \ {{}} :
         /\ W = Workers \/ "workers" \in MayFail
         /\ Create("workers", W \cup {"epoller"}, "loop", "maintainer")
    \/ \E T \in {{}, {"epoller"}} : Fail("workers", T)

thr_maintainer_create ==
    Create("maintainer", {"maintainer"}, "loop", "monitor") \/ Fail("maintainer", {})

thr_monitor_init == Create("monitor", {"monitor"}, "accept", "list") \/ Fail("monitor", {})

(* llist_new of the list of rooms; the monitor serves already.             *)
NewRooms ==
    /\ To("list", "rooms")
    /\ up' = up \cup {"rooms"}
    /\ UNCHANGED <<holds, room, threads, flags, imps, queues>>

Becomes(l, fate) == room' = [room EXCEPT ![l] = fate]

(* The mod_init of a room.  It summons the listener, under the mutex of    *)
(* the run queue, or gets NULL from imp_summon, and returns 0 all the      *)
(* same.  When it returns -1 the module is unloaded and nothing remains,   *)
(* on any other value dungeon_add_room calls exit.                         *)
mod_init(l) ==
    /\ main = "rooms" /\ room[l] = "untried"
    /\ \/ main' = "summon" /\ holds' = {"run_queue"} /\ Becomes(l, "adding")
       \/ /\ "rooms" \in MayFail /\ UNCHANGED holds
          /\ \/ main' = "append" /\ Becomes(l, "adding")
             \/ main' \in {"rooms", "gone"} /\ Becomes(l, "failed")
    /\ UNCHANGED <<up, threads, flags, imps, queues>>

imp_summon(l) ==
    /\ To("summon", "append") /\ room[l] = "adding"
    /\ mem' = [mem EXCEPT ![l] = "live"] /\ run_queue' = Append(run_queue, l)
    /\ holds' = {}
    /\ UNCHANGED <<parts, threads, flags, cur, asleep, batch, terminated_queue>>

(* The list of rooms takes the new one, under the mutex of the list, when  *)
(* there is memory for a node; the node is counted last.                   *)
llist_append(l) ==
    /\ To("appending", "appended") /\ room[l] = "adding"
    /\ \/ Becomes(l, "loaded")
       \/ "rooms" \in MayFail /\ Becomes(l, "failed")
    /\ UNCHANGED <<holds, up, threads, flags, imps, queues>>

dungeon_add_room ==
    \/ \E l \in Listeners : mod_init(l) \/ imp_summon(l) \/ llist_append(l)
    \/ /\ To("append", "appending")
       /\ holds' = {"rooms"}
       /\ UNCHANGED <<parts, threads, flags, imps, queues>>
    \/ /\ To("appended", "rooms")
       /\ holds' = {}
       /\ UNCHANGED <<parts, threads, flags, imps, queues>>

RoomsLoaded ==
    /\ main = "rooms" /\ \A l \in Listeners : room[l] # "untried"
    /\ main' = IF \E l \in Listeners : room[l] = "loaded" THEN "run" ELSE "failed"
    /\ UNCHANGED <<holds, parts, threads, flags, imps, queues>>

Abort == To("failed", "gone") /\ UNCHANGED <<holds, parts, threads, flags, imps, queues>>

dungeon_init ==
    \/ InitHeart \/ thr_worker_create \/ thr_maintainer_create \/ thr_monitor_init
    \/ NewRooms \/ dungeon_add_room \/ RoomsLoaded \/ Abort

-----------------------------------------------------------------------------
(* daemon_exit, in the signal handler of the main thread, calls            *)
(* dungeon_delete.                                                         *)

Signal ==
    /\ main \in Steps \cup {"list", "summon", "append", "appending", "appended", "run"}
    /\ main' = "cancel_monitor"
    /\ UNCHANGED <<holds, parts, threads, flags, imps, queues>>

(* main blocks its signals in the handler, the monitor blocks none: it     *)
(* gets the next and cancels itself, in its own dungeon_delete.            *)
SignalMonitor ==
    /\ main = "cancel_monitor" /\ pc["monitor"] \in {"accept", "serialize"}
    /\ cancel' = cancel \cup {"monitor"}
    /\ UNCHANGED <<main, holds, parts, pc, flags, imps, queues>>

(* pthread_cancel of a thread that was never created is undefined.         *)
CancelMonitor ==
    /\ main = "cancel_monitor"
    /\ IF pc["monitor"] = "unborn"
         THEN main' = "crash" /\ UNCHANGED cancel
         ELSE main' = "join_monitor" /\ cancel' = cancel \cup {"monitor"}
    /\ UNCHANGED <<holds, parts, pc, flags, imps, queues>>

(* A pthread_join: main goes on when the threads of T have ended.          *)
Join(here, T, there) ==
    /\ To(here, there)
    /\ \A t \in T : pc[t] \in {"unborn", "dead"}
    /\ UNCHANGED <<holds, parts, threads, flags, imps, queues>>

QuitWorkers ==
    /\ To("quit_workers", "join_epoller")
    /\ worker_quit' = TRUE
    /\ UNCHANGED <<holds, parts, threads, thread_quit_mark, pending_event, imps, queues>>

(* The workers that thr_worker_create could create.                        *)
CancelWorkers ==
    /\ To("cancel_workers", "join_workers")
    /\ cancel' = cancel \cup {w \in Workers : pc[w] # "unborn"}
    /\ UNCHANGED <<holds, parts, pc, flags, imps, queues>>

(* The workers are cancelled and not waited for.                           *)
JoinWorkers_Bug == Join("join_workers", {}, "quit_maintainer")
JoinWorkers == Join("join_workers", Workers, "quit_maintainer")

thr_worker_destroy ==
    QuitWorkers \/ Join("join_epoller", {"epoller"}, "cancel_workers")
    \/ CancelWorkers \/ JoinWorkers

MarkMaintainer(here, there) ==
    /\ To(here, there)
    /\ thread_quit_mark' = TRUE
    /\ UNCHANGED <<holds, parts, threads, worker_quit, pending_event, imps, queues>>
thr_maintainer_wakeup(here, there) ==
    /\ To(here, there)
    /\ pending_event' = TRUE
    /\ UNCHANGED <<holds, parts, threads, worker_quit, thread_quit_mark, imps, queues>>
JoinMaintainer == Join("join_maintainer", {"maintainer"}, "drain_run")

(* The thread is woken first, and the mark set then.                       *)
thr_maintainer_destroy_Bug ==
    \/ thr_maintainer_wakeup("quit_maintainer", "wake_maintainer")
    \/ MarkMaintainer("wake_maintainer", "join_maintainer")
    \/ JoinMaintainer

thr_maintainer_destroy ==
    \/ MarkMaintainer("quit_maintainer", "wake_maintainer")
    \/ thr_maintainer_wakeup("wake_maintainer", "join_maintainer")
    \/ JoinMaintainer

(* queue_delete, once the queue is empty.                                  *)
Release(part, here, there) ==
    /\ To(here, there)
    /\ up' = up \ {part}
    /\ UNCHANGED <<holds, room, threads, flags, imps, queues>>

(* The queues are drained with imp_dismiss and deleted.                    *)
DrainRun ==
    /\ RunQueueFree
    /\ \/ run_queue = <<>> /\ Release("run_queue", "drain_run", "drain_terminated")
       \/ /\ run_queue # <<>> /\ main = "drain_run"
          /\ mem' = [mem EXCEPT ![Head(run_queue)] = "freed"]
          /\ run_queue' = Tail(run_queue)
          /\ UNCHANGED <<main, holds, parts, threads, flags, cur, asleep, batch,
                         terminated_queue>>

(* The terminated queue is left to the maintainer, which is gone.          *)
DrainTerminated_Bug == Release("terminated_queue", "drain_terminated", "close_epoll")

DrainTerminated ==
    \/ /\ terminated_queue = <<>>
       /\ Release("terminated_queue", "drain_terminated", "close_epoll")
    \/ /\ terminated_queue # <<>> /\ main = "drain_terminated"
       /\ mem' = [mem EXCEPT ![Head(terminated_queue)] = "freed"]
       /\ terminated_queue' = Tail(terminated_queue)
       /\ UNCHANGED <<main, holds, parts, threads, flags, cur, asleep, batch, run_queue>>

(* mod_destroy of a room calls imp_kill for its listener, be it NULL, or   *)
(* freed by the drains: a write to freed memory may go unnoticed.          *)
(* llist_travel takes no lock.                                             *)
mod_destroy(l) ==
    /\ main = "demolish" /\ room[l] = "loaded"
    /\ \/ mem[l] # "none" /\ UNCHANGED main
       \/ mem[l] # "live" /\ main' = "crash"
    /\ Becomes(l, "unloaded")
    /\ UNCHANGED <<holds, up, threads, flags, imps, queues>>

(* A list that was never made is a null pointer.  The loop of llist_delete *)
(* fails to lock a list that main has locked, for as long as it counts a   *)
(* node; the first may be linked and not yet counted.                      *)
dungeon_demolish_allrooms ==
    \/ \E l \in Listeners : mod_destroy(l)
    \/ /\ To("demolish", "crash") /\ "rooms" \notin up
       /\ UNCHANGED <<holds, parts, threads, flags, imps, queues>>
    \/ /\ "rooms" \in up /\ \A l \in Listeners : room[l] # "loaded"
       /\ holds = {}
          \/ \A k, l \in Listeners : {room[k], room[l]} \subseteq {"adding", "unloaded"} => k = l
       /\ Release("rooms", "demolish", "free_heart")

dungeon_delete ==
    \/ CancelMonitor \/ Join("join_monitor", {"monitor"}, "quit_workers")
    \/ thr_worker_destroy \/ thr_maintainer_destroy
    \/ DrainRun \/ DrainTerminated \/ Release("epoll_fd", "close_epoll", "demolish")
    \/ dungeon_demolish_allrooms \/ Release("heart", "free_heart", "exit")

-----------------------------------------------------------------------------
(* The other threads, as long as there is a process.                       *)

Ended == {"gone", "crash", "exit"}
At(t, label) == main \notin Ended /\ pc[t] = label
GoTo(t, label) == pc' = [pc EXCEPT ![t] = label] /\ UNCHANGED cancel
(* A step of t that touches nothing but its own place.                     *)
Moves(t, here, there) ==
    /\ At(t, here) /\ GoTo(t, there)
    /\ UNCHANGED <<main, holds, parts, flags, imps, queues>>

(* The worker: thr_driver around queue_dequeue and imp_driver.             *)
WorkerDequeue(w) ==
    /\ At(w, "dequeue") /\ RunQueueFree /\ run_queue # <<>>
    /\ cur' = [cur EXCEPT ![w] = Head(run_queue)]
    /\ run_queue' = Tail(run_queue)
    /\ GoTo(w, "drive")
    /\ UNCHANGED <<main, holds, parts, flags, mem, asleep, batch, terminated_queue>>

(* pthread_cancel takes effect.  A thread cancelled in pthread_cond_wait   *)
(* takes the mutex of the run queue before it ends.                        *)
WorkerCancelled(w) ==
    /\ w \in cancel
    /\ \/ RunQueueFree /\ run_queue = <<>> /\ Moves(w, "dequeue", "dead")
       \/ Moves(w, "drive", "dead")

WorkerSummons(w) ==
    /\ At(w, "drive") /\ cur[w] \in Listeners /\ RunQueueFree
    /\ \E i \in Imps \ Listeners :
        /\ mem[i] = "none"
        /\ mem' = [mem EXCEPT ![i] = "live"]
        /\ run_queue' = Append(run_queue, i)
    /\ UNCHANGED <<main, holds, parts, threads, flags, cur, asleep, batch, terminated_queue>>

(* fsm_driver has returned: the imp runs on, blocks, or is terminated.     *)
WorkerYields(w) ==
    /\ At(w, "drive")
    /\ \/ /\ RunQueueFree /\ run_queue' = Append(run_queue, cur[w])
          /\ GoTo(w, "loop")
          /\ UNCHANGED <<asleep, terminated_queue>>
       \/ /\ asleep' = asleep \cup {cur[w]}
          /\ GoTo(w, "loop")
          /\ UNCHANGED queues
       \/ /\ cur[w] \in MayTerm
          /\ terminated_queue' = Append(terminated_queue, cur[w])
          /\ GoTo(w, "wakeup")
          /\ UNCHANGED <<run_queue, asleep>>
    /\ cur' = [cur EXCEPT ![w] = NoImp]
    /\ UNCHANGED <<main, holds, parts, flags, mem, batch>>

WorkerWakesMaintainer(w) ==
    /\ At(w, "wakeup") /\ GoTo(w, "loop")
    /\ pending_event' = TRUE
    /\ UNCHANGED <<main, holds, parts, worker_quit, thread_quit_mark, imps, queues>>

Worker(w) ==
    \/ Moves(w, "loop", IF worker_quit THEN "dead" ELSE "dequeue")
    \/ WorkerDequeue(w) \/ WorkerCancelled(w) \/ WorkerSummons(w)
    \/ WorkerYields(w) \/ WorkerWakesMaintainer(w)

(* The epoller: some events, or none when epoll_wait times out.            *)
EpollerPolls ==
    /\ At("epoller", "poll") /\ GoTo("epoller", "wake")
    /\ batch' \in SUBSET asleep
    /\ UNCHANGED <<main, holds, parts, flags, mem, cur, asleep, queues>>

EpollerWakes ==
    /\ At("epoller", "wake") /\ RunQueueFree
    /\ \E i \in batch :
        /\ run_queue' = Append(run_queue, i)
        /\ asleep' = asleep \ {i}
        /\ batch' = batch \ {i}
    /\ UNCHANGED <<main, holds, parts, threads, flags, mem, cur, terminated_queue>>

Epoller ==
    \/ Moves("epoller", "loop", IF worker_quit THEN "dead" ELSE "poll")
    \/ EpollerPolls \/ EpollerWakes
    \/ batch = {} /\ Moves("epoller", "wake", "loop")

(* The imp is dismissed, but not taken off the queue.                      *)
MaintainerDismisses_Bug ==
    /\ At("maintainer", "drain") /\ terminated_queue # <<>>
    /\ mem' = [mem EXCEPT ![Head(terminated_queue)] = "freed"]
    /\ UNCHANGED <<main, holds, parts, threads, flags, cur, asleep, batch, queues>>

MaintainerDismisses ==
    /\ At("maintainer", "drain") /\ terminated_queue # <<>>
    /\ mem' = [mem EXCEPT ![Head(terminated_queue)] = "freed"]
    /\ terminated_queue' = Tail(terminated_queue)
    /\ UNCHANGED <<main, holds, parts, threads, flags, cur, asleep, batch, run_queue>>

MaintainerWakes ==
    /\ At("maintainer", "wait") /\ pending_event
    /\ pending_event' = FALSE
    /\ GoTo("maintainer", "loop")
    /\ UNCHANGED <<main, holds, parts, worker_quit, thread_quit_mark, imps, queues>>

Maintainer ==
    \/ Moves("maintainer", "loop", IF thread_quit_mark THEN "dead" ELSE "drain")
    \/ MaintainerDismisses
    \/ terminated_queue = <<>> /\ Moves("maintainer", "drain", "wait")
    \/ MaintainerWakes

(* The monitor: accept, then dungeon_serialize and the write of its result.*)
MonitorServes == Moves("monitor", "accept", "serialize") \/ Moves("monitor", "serialize", "accept")

MonitorCancelled ==
    /\ "monitor" \in cancel
    /\ Moves("monitor", "accept", "dead") \/ Moves("monitor", "serialize", "dead")

Next ==
    \/ dungeon_init \/ Signal \/ SignalMonitor \/ dungeon_delete
    \/ \E w \in Workers : Worker(w)
    \/ Epoller \/ Maintainer \/ MonitorServes \/ MonitorCancelled

Spec == Init /\ [][Next]_vars

-----------------------------------------------------------------------------

InitSteps == Steps \cup {"list", "summon", "append", "appending", "appended", "failed", "gone"}
DeleteSteps == {"cancel_monitor", "join_monitor", "quit_workers", "join_epoller",
                "cancel_workers", "join_workers", "quit_maintainer", "wake_maintainer",
                "join_maintainer", "drain_run", "drain_terminated", "close_epoll",
                "demolish", "free_heart", "exit", "crash"}

TypeOK ==
    /\ main \in InitSteps \cup DeleteSteps \cup {"run"}
    /\ holds \subseteq {"run_queue", "rooms"}
    /\ up \subseteq {"heart", "run_queue", "terminated_queue", "epoll_fd", "rooms"}
    /\ room \in [Listeners -> {"untried", "adding", "failed", "loaded", "unloaded"}]
    /\ pc \in [Threads -> {"unborn", "loop", "dequeue", "drive", "wakeup", "poll", "wake",
                          "drain", "wait", "accept", "serialize", "dead"}]
    /\ cancel \subseteq Threads
    /\ worker_quit \in BOOLEAN /\ thread_quit_mark \in BOOLEAN /\ pending_event \in BOOLEAN
    /\ mem \in [Imps -> {"none", "live", "freed"}]
    /\ cur \in [Workers -> Imps \cup {NoImp}]
    /\ asleep \subseteq Imps /\ batch \subseteq Imps
    /\ run_queue \in Seq(Imps) /\ terminated_queue \in Seq(Imps)

(* A thread finds what it works on: the queues, the descriptor and         *)
(* dungeon_heart are released only after every thread that uses them has   *)
(* ended, except in a process that is about to abort because dungeon_init  *)
(* failed.                                                                 *)
Uses(t) ==
    CASE t \in Workers -> {"heart", "run_queue", "terminated_queue", "epoll_fd"}
      [] t = "epoller" -> {"heart", "run_queue", "epoll_fd"}
      [] t = "maintainer" -> {"heart", "terminated_queue"}
      [] t = "monitor" -> {"heart", "run_queue", "terminated_queue"}
ThreadsEndFirst ==
    main \notin {"failed", "gone"}
      => \A t \in Threads : pc[t] \notin {"unborn", "dead"} => Uses(t) \subseteq up

(* imp_dismiss is called for an imp in memory, by the maintainer and by    *)
(* both drains; a dismissed imp is in no queue, among no events that       *)
(* epoll_fd may report or has reported, and in no worker's hands.  Not so  *)
(* the rooms: id_listener outlives its imp, and mod_destroy writes to it.  *)
DismissedOnce ==
    \A i \in InQueue(run_queue) \cup InQueue(terminated_queue) \cup asleep \cup batch
             \cup {cur[w] : w \in Workers} :
        i # NoImp => mem[i] = "live"

(* What dungeon_delete leaves behind: the imps that slept, and those whose *)
(* worker was cancelled under them.  Whatever was queued is dismissed, by  *)
(* the maintainer before its quit mark or by dungeon_delete after it.      *)
QueuedAreDismissed ==
    main = "exit"
      => \A i \in Imps : mem[i] = "live" => i \in asleep \/ \E w \in Workers : cur[w] = i
=============================================================================
