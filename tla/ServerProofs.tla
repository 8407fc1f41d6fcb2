---------------------------- MODULE ServerProofs ----------------------------
(***************************************************************************)
(* Theorems about Server and the Daemon it runs, for any number of         *)
(* workers, imps and rooms, any kernel, any process ids, and whichever     *)
(* step of dungeon_init fails.                                             *)
(***************************************************************************)
EXTENDS Server, Integers, TLAPS

(* While the keeper waits, its child is the only process there may be.     *)
KeeperInv ==
    /\ heart \in [Pids -> {"none", "live", "zombie"}]
    /\ keeper = "fork" => \A p \in Pids : heart[p] = "none"
    /\ \A p \in Pids : heart[p] # "none" => p = pid

THEOREM HeartsAreOne == ServerSpec => []OneHeart
<1>1. ServerInit => KeeperInv
    BY DEF ServerInit, KeeperInv
<1>2. ASSUME KeeperInv, [ServerNext]_serverVars PROVE KeeperInv'
  <2> USE KeeperAssumption DEF KeeperInv, limits
  <2>1. CASE fork
    <3>1. (CHOOSE p \in Free : TRUE) \in Pids
        BY <2>1 DEF fork, Free
    <3> QED BY <1>2, <2>1, <3>1 DEF fork
  <2>2. CASE ForkFails
      BY <1>2, <2>2 DEF ForkFails
  <2>3. CASE waitpid
      BY <1>2, <2>3 DEF waitpid
  <2>4. CASE SignalKeeper
      BY <1>2, <2>4 DEF SignalKeeper
  <2>5. CASE HeartEnds
    <3>1. PICK p \in Live : heart' = [heart EXCEPT ![p] = "zombie"]
        BY <2>5 DEF HeartEnds
    <3>2. UNCHANGED <<keeper, pid>> /\ heart[p] = "live" /\ p \in Pids
        BY <2>5 DEF HeartEnds, Live
    <3> QED BY <1>2, <3>1, <3>2
  <2>6. CASE UNCHANGED keeperVars
      BY <1>2, <2>6 DEF keeperVars
  <2>7. rlimit_try \/ rlimit_init \/ SignalEarly \/ Heart(Next) => UNCHANGED keeperVars
      BY DEF rlimit_try, rlimit_init, SignalEarly, Heart
  <2> QED BY <1>2, <2>1, <2>2, <2>3, <2>4, <2>5, <2>6, <2>7 DEF ServerNext, Keeper, serverVars
<1>3. KeeperInv => OneHeart
    BY DEF KeeperInv, OneHeart, Live
<1> QED BY <1>1, <1>2, <1>3, PTL DEF ServerSpec

-----------------------------------------------------------------------------
(* For the memory of the heart, which is all of Daemon's state, a step of  *)
(* the server is one of the heart, or none, or the end of its process.     *)
LEMMA HeartBegins == ServerInit => Init
    BY DEF ServerInit

LEMMA HeartSteps == [ServerNext]_serverVars => [Next]_vars \/ Init'
<1>1. HeartEnds => Init'
    BY DEF HeartEnds, Init
<1>2. SignalEarly \/ Heart(Next) => Next
    BY DEF SignalEarly, Heart, Next
<1>3. Keeper \/ SignalKeeper \/ rlimit_try \/ rlimit_init => UNCHANGED vars
    BY DEF Keeper, fork, ForkFails, waitpid, SignalKeeper, rlimit_try, rlimit_init
<1> QED BY <1>1, <1>2, <1>3 DEF ServerNext, serverVars

-----------------------------------------------------------------------------
(* What the threads need is there until all of them have ended.            *)

Quiet == {"unborn", "dead"}
Still(T) == \A t \in T : pc[t] \in Quiet
Core == {"heart", "run_queue", "terminated_queue", "epoll_fd"}

(* The steps of dungeon_init after the first, up to the main loop, and     *)
(* those of dungeon_delete by what has been joined before them.            *)
Building == {"workers", "maintainer", "monitor", "list", "rooms", "summon", "append",
             "appending", "appended", "run"}
NoThreads == {"drain_run", "drain_terminated", "close_epoll", "demolish", "free_heart", "exit"}
NoWorkers == NoThreads \cup {"quit_maintainer", "wake_maintainer", "join_maintainer"}
NoEpoller == NoWorkers \cup {"cancel_workers", "join_workers"}
NoMonitor == NoEpoller \cup {"quit_workers", "join_epoller"}

StageInv ==
    /\ pc = [t \in Threads |-> pc[t]]
    /\ main = "heart" => Still(Threads)
    /\ main \in Building => Core \subseteq up
    /\ main \in NoMonitor => Still({"monitor"})
    /\ main \in NoEpoller => Still({"epoller"})
    /\ main \in NoWorkers => Still(Workers)
    /\ main \in NoThreads => Still({"maintainer"})
    /\ main \in {"failed", "gone"} \/ Core \subseteq up \/ Still(Threads)

LEMMA AllJoined ==
    ASSUME StageInv, main \in NoThreads
    PROVE  Still(Threads)
    BY DEF StageInv, Still, Threads, NoThreads, NoWorkers, NoEpoller, NoMonitor

LEMMA StageInit == Init => StageInv
    BY DEF Init, StageInv, Still, Quiet, Building, NoThreads, NoWorkers, NoEpoller, NoMonitor

(* A thread takes a step, or ends.                                         *)
LEMMA ThreadMoves ==
    ASSUME StageInv, UNCHANGED <<main, up>>,
           \A t \in Threads : pc[t] \in Quiet => pc'[t] = pc[t],
           pc' = [t \in Threads |-> pc'[t]]
    PROVE  StageInv'
    BY DEF StageInv, Still, Threads

LEMMA MoveOf ==
    ASSUME StageInv, NEW t \in Threads, NEW label,
           pc[t] \notin Quiet, pc' = [pc EXCEPT ![t] = label], UNCHANGED <<main, up>>
    PROVE  StageInv'
<1>1. \A u \in Threads : pc[u] \in Quiet => pc'[u] = pc[u]
    BY DEF StageInv
<1>2. pc' = [u \in Threads |-> pc'[u]]
    BY DEF StageInv
<1> QED BY <1>1, <1>2, ThreadMoves

LEMMA InitStage == StageInv /\ dungeon_init => StageInv'
<1> SUFFICES ASSUME StageInv, dungeon_init PROVE StageInv'
    OBVIOUS
<1> USE DEF To, Born, parts, threads, Building, NoThreads, NoWorkers, NoEpoller, NoMonitor
<1>1. ASSUME NEW step \in Steps, NEW T, Fail(step, T) PROVE StageInv'
    BY <1>1 DEF Fail, StageInv, Steps
<1>2. ASSUME NEW step \in Building, NEW T, NEW label, NEW next \in Building, Create(step, T, label, next)
      PROVE StageInv'
    BY <1>2 DEF Create, StageInv
<1>3. CASE InitHeart
    BY <1>1, <1>3 DEF InitHeart, Steps, StageInv, Still, Core
<1>4. CASE thr_worker_create \/ thr_maintainer_create \/ thr_monitor_init
    BY <1>1, <1>2, <1>4 DEF thr_worker_create, thr_maintainer_create, thr_monitor_init, Steps
<1>5. CASE NewRooms
    BY <1>5 DEF NewRooms, StageInv, Still
<1>6. CASE dungeon_add_room
    BY <1>6 DEF dungeon_add_room, mod_init, imp_summon, llist_append, StageInv, Still
<1>7. CASE RoomsLoaded
    BY <1>7 DEF RoomsLoaded, StageInv, Still
<1>8. CASE Abort
    BY <1>8 DEF Abort, StageInv, Still
<1> QED BY <1>3, <1>4, <1>5, <1>6, <1>7, <1>8 DEF dungeon_init

LEMMA DeleteStage == StageInv /\ dungeon_delete => StageInv'
<1> SUFFICES ASSUME StageInv, dungeon_delete PROVE StageInv'
    OBVIOUS
<1> USE DEF To, parts, threads, Building, NoThreads, NoWorkers, NoEpoller, NoMonitor
<1>1. CASE CancelMonitor
    BY <1>1 DEF CancelMonitor, StageInv, Still
<1>2. CASE Join("join_monitor", {"monitor"}, "quit_workers")
    BY <1>2 DEF Join, StageInv, Still, Quiet
<1>3. CASE QuitWorkers
    BY <1>3 DEF QuitWorkers, StageInv, Still
<1>4. CASE Join("join_epoller", {"epoller"}, "cancel_workers")
    BY <1>4 DEF Join, StageInv, Still, Quiet
<1>5. CASE CancelWorkers
    BY <1>5 DEF CancelWorkers, StageInv, Still
<1>6. CASE JoinWorkers
    BY <1>6 DEF JoinWorkers, Join, StageInv, Still, Quiet
<1>7. CASE MarkMaintainer("quit_maintainer", "wake_maintainer")
    BY <1>7 DEF MarkMaintainer, StageInv, Still
<1>8. CASE thr_maintainer_wakeup("wake_maintainer", "join_maintainer")
    BY <1>8 DEF thr_maintainer_wakeup, StageInv, Still
<1>9. CASE JoinMaintainer
    BY <1>9 DEF JoinMaintainer, Join, StageInv, Still, Quiet
<1>10. ASSUME UNCHANGED pc, main \in NoThreads, main' \in NoThreads \cup {"crash"}
       PROVE  StageInv'
    BY <1>10, AllJoined DEF StageInv, Still, Threads
<1>11. CASE DrainRun \/ DrainTerminated
    BY <1>10, <1>11 DEF DrainRun, DrainTerminated, Release
<1>12. CASE dungeon_demolish_allrooms
    BY <1>10, <1>12 DEF dungeon_demolish_allrooms, mod_destroy, Release
<1>13. CASE Release("epoll_fd", "close_epoll", "demolish") \/ Release("heart", "free_heart", "exit")
    BY <1>10, <1>13 DEF Release
<1> QED BY <1>1, <1>2, <1>3, <1>4, <1>5, <1>6, <1>7, <1>8, <1>9, <1>11, <1>12, <1>13
        DEF dungeon_delete, thr_worker_destroy, thr_maintainer_destroy

LEMMA ThreadStage ==
    ASSUME StageInv,
           (\E w \in Workers : Worker(w)) \/ Epoller \/ Maintainer \/ MonitorServes \/ MonitorCancelled
    PROVE  StageInv'
<1>1. ASSUME NEW t \in Threads, NEW here, NEW there, here \notin Quiet, Moves(t, here, there)
      PROVE  StageInv'
    BY <1>1, MoveOf DEF Moves, At, GoTo, parts
<1>2. CASE \E w \in Workers : Worker(w)
  <2> SUFFICES ASSUME NEW w \in Workers, Worker(w) PROVE StageInv'
      BY <1>2
  <2>1. w \in Threads
      BY DEF Threads
  <2>2. CASE WorkerDequeue(w)
      BY <2>1, <2>2, MoveOf DEF WorkerDequeue, At, GoTo, parts, Quiet
  <2>3. CASE WorkerCancelled(w)
      BY <2>1, <2>3, <1>1 DEF WorkerCancelled, Quiet
  <2>4. CASE WorkerSummons(w)
      BY <2>4, ThreadMoves DEF WorkerSummons, parts, threads, StageInv
  <2>5. CASE WorkerYields(w)
      BY <2>1, <2>5, MoveOf DEF WorkerYields, At, GoTo, parts, Quiet
  <2>6. CASE WorkerWakesMaintainer(w)
      BY <2>1, <2>6, MoveOf DEF WorkerWakesMaintainer, At, GoTo, parts, Quiet
  <2> QED BY <2>1, <2>2, <2>3, <2>4, <2>5, <2>6, <1>1 DEF Worker, Quiet
<1>3. CASE Epoller
  <2>1. "epoller" \in Threads
      BY DEF Threads
  <2>2. CASE EpollerPolls
      BY <2>1, <2>2, MoveOf DEF EpollerPolls, At, GoTo, parts, Quiet
  <2>3. CASE EpollerWakes
      BY <2>3, ThreadMoves DEF EpollerWakes, parts, threads, StageInv
  <2> QED BY <1>3, <2>1, <2>2, <2>3, <1>1 DEF Epoller, Quiet
<1>4. CASE Maintainer
  <2>1. "maintainer" \in Threads
      BY DEF Threads
  <2>2. CASE MaintainerDismisses
      BY <2>2, ThreadMoves DEF MaintainerDismisses, parts, threads, StageInv
  <2>3. CASE MaintainerWakes
      BY <2>1, <2>3, MoveOf DEF MaintainerWakes, At, GoTo, parts, Quiet
  <2> QED BY <1>4, <2>1, <2>2, <2>3, <1>1 DEF Maintainer, Quiet
<1>5. CASE MonitorServes \/ MonitorCancelled
  <2>1. "monitor" \in Threads
      BY DEF Threads
  <2> QED BY <1>5, <2>1, <1>1 DEF MonitorServes, MonitorCancelled, Quiet
<1> QED BY <1>2, <1>3, <1>4, <1>5

LEMMA StageStep == StageInv /\ [Next]_vars => StageInv'
<1> SUFFICES ASSUME StageInv, [Next]_vars PROVE StageInv'
    OBVIOUS
<1>1. CASE Signal
    BY <1>1 DEF Signal, StageInv, Still, parts, threads, Steps, Building, NoThreads,
                NoWorkers, NoEpoller, NoMonitor
<1>2. CASE SignalMonitor
    BY <1>2 DEF SignalMonitor, StageInv, Still, parts
<1>3. CASE UNCHANGED vars
    BY <1>3 DEF vars, StageInv, Still, parts, threads
<1> QED BY <1>1, <1>2, <1>3, InitStage, DeleteStage, ThreadStage DEF Next

(* Wherever a signal finds the dungeon, and whichever threads could be     *)
(* created, dungeon_delete releases what they share after the last of them *)
(* has ended.                                                              *)
THEOREM ReleasedLast == ServerSpec => []ThreadsEndFirst
<1>1. StageInv => ThreadsEndFirst
  <2> SUFFICES ASSUME StageInv, main \notin {"failed", "gone"},
                      NEW t \in Threads, pc[t] \notin Quiet
               PROVE  Uses(t) \subseteq up
      BY DEF ThreadsEndFirst, Quiet
  <2>1. Core \subseteq up
      BY DEF StageInv, Still
  <2>2. Uses(t) \subseteq Core
      BY WorkersAssumption DEF Uses, Threads, Core
  <2> QED BY <2>1, <2>2
<1> QED BY HeartBegins, HeartSteps, StageInit, StageStep, <1>1, PTL DEF ServerSpec

-----------------------------------------------------------------------------
(* Every imp is in one place at most, and in none when it is not in memory.*)

Distinct(q) == \A j, k \in DOMAIN q : q[j] = q[k] => j = k

LEMMA Appending ==
    ASSUME NEW S, NEW q \in Seq(S), NEW e \in S
    PROVE  /\ Append(q, e) \in Seq(S)
           /\ InQueue(Append(q, e)) = InQueue(q) \cup {e}
           /\ Distinct(q) /\ e \notin InQueue(q) => Distinct(Append(q, e))
<1>1. /\ Append(q, e) \in Seq(S) /\ Len(Append(q, e)) = Len(q) + 1 /\ Len(q) \in Nat
      /\ \A k \in 1 .. Len(q) : Append(q, e)[k] = q[k]
      /\ Append(q, e)[Len(q) + 1] = e
    OBVIOUS
<1>2. DOMAIN q = 1 .. Len(q) /\ DOMAIN Append(q, e) = 1 .. Len(q) + 1
    BY <1>1
<1>3. InQueue(Append(q, e)) = InQueue(q) \cup {e}
    BY <1>1, <1>2 DEF InQueue
<1>4. ASSUME Distinct(q), e \notin InQueue(q) PROVE Distinct(Append(q, e))
    BY <1>1, <1>2, <1>4 DEF Distinct, InQueue
<1> QED BY <1>1, <1>3, <1>4

LEMMA Removing ==
    ASSUME NEW S, NEW q \in Seq(S), q # <<>>
    PROVE  /\ Tail(q) \in Seq(S) /\ Head(q) \in S /\ Head(q) \in InQueue(q)
           /\ Distinct(q) => Distinct(Tail(q)) /\ InQueue(Tail(q)) = InQueue(q) \ {Head(q)}
<1>1. /\ Tail(q) \in Seq(S) /\ Head(q) \in S /\ Head(q) = q[1]
      /\ Len(q) \in Nat \ {0} /\ Len(Tail(q)) = Len(q) - 1
      /\ \A k \in 1 .. Len(q) - 1 : Tail(q)[k] = q[k + 1]
    OBVIOUS
<1>2. DOMAIN q = 1 .. Len(q) /\ DOMAIN Tail(q) = 1 .. Len(q) - 1
    BY <1>1
<1>3. Head(q) \in InQueue(q)
    BY <1>1, <1>2 DEF InQueue
<1>4. ASSUME Distinct(q) PROVE Distinct(Tail(q)) /\ InQueue(Tail(q)) = InQueue(q) \ {Head(q)}
  <2>1. Distinct(Tail(q))
      BY <1>1, <1>2, <1>4 DEF Distinct
  <2>2. ASSUME NEW x \in InQueue(Tail(q)) PROVE x \in InQueue(q) \ {Head(q)}
    <3>1. PICK k \in 1 .. Len(q) - 1 : x = q[k + 1]
        BY <1>1, <1>2 DEF InQueue
    <3> QED BY <1>1, <1>2, <1>4, <3>1 DEF Distinct, InQueue
  <2>3. ASSUME NEW x \in InQueue(q) \ {Head(q)} PROVE x \in InQueue(Tail(q))
    <3>1. PICK k \in 1 .. Len(q) : x = q[k]
        BY <1>2 DEF InQueue
    <3>2. k - 1 \in DOMAIN Tail(q) /\ Tail(q)[k - 1] = x
        BY <1>1, <1>2, <3>1
    <3> QED BY <3>2 DEF InQueue
  <2> QED BY <2>1, <2>2, <2>3
<1> QED BY <1>1, <1>3, <1>4

PlaceTypes ==
    /\ mem \in [Imps -> {"none", "live", "freed"}]
    /\ cur \in [Workers -> Imps \cup {NoImp}]
    /\ run_queue \in Seq(Imps) /\ terminated_queue \in Seq(Imps) /\ asleep \subseteq Imps
    /\ pc = [t \in Threads |-> pc[t]]

OnePlace ==
    /\ Distinct(run_queue) /\ Distinct(terminated_queue)
    /\ InQueue(run_queue) \cap InQueue(terminated_queue) = {}
    /\ asleep \cap (InQueue(run_queue) \cup InQueue(terminated_queue)) = {}
    /\ batch \subseteq asleep
    /\ \A v \in Workers :
         cur[v] # NoImp =>
            /\ cur[v] \notin InQueue(run_queue) \cup InQueue(terminated_queue) \cup asleep
            /\ \A w \in Workers : cur[v] = cur[w] => v = w

InMemory ==
    /\ \A i \in InQueue(run_queue) \cup InQueue(terminated_queue) \cup asleep : mem[i] = "live"
    /\ \A w \in Workers : cur[w] # NoImp => mem[cur[w]] = "live"

(* One room is added at a time, and has no listener before imp_summon.     *)
Settled == Steps \cup {"list", "appended"}
Adding == {"summon", "append", "appending"}
Unloaded ==
    /\ room = [l \in Listeners |-> room[l]]
    /\ \A l \in Listeners :
         room[l] = "untried" \/ (main = "summon" /\ room[l] = "adding") => mem[l] = "none"
    /\ main \in Settled => \A l \in Listeners : room[l] # "adding"
    /\ main \in Adding => \A k, l \in Listeners : room[k] = "adding" /\ room[l] = "adding" => k = l
Driving == \A w \in Workers : pc[w] = "drive" => cur[w] # NoImp

PlaceInv == PlaceTypes /\ OnePlace /\ InMemory /\ Unloaded /\ Driving

(* Steps that move no imp.                                                 *)
LEMMA Unmoved ==
    ASSUME PlaceInv, UNCHANGED <<mem, cur, asleep, batch, run_queue, terminated_queue>>,
           pc' = [t \in Threads |-> pc'[t]],
           \A w \in Workers : pc'[w] = "drive" => pc[w] = "drive",
           \/ Unloaded'
           \/ UNCHANGED <<room, main>>
           \/ UNCHANGED room /\ main' \notin Adding /\ (main' \in Settled => main \in Settled)
    PROVE  PlaceInv'
<1>1. PlaceTypes'
    BY DEF PlaceInv, PlaceTypes
<1>2. OnePlace' /\ InMemory'
    BY DEF PlaceInv, OnePlace, InMemory
<1>3. Unloaded' /\ Driving'
    BY DEF PlaceInv, Unloaded, Driving, Adding
<1> QED BY <1>1, <1>2, <1>3 DEF PlaceInv

LEMMA Empty == <<>> \in Seq(Imps) /\ Distinct(<<>>) /\ InQueue(<<>>) = {}
<1>1. DOMAIN <<>> = {}
    OBVIOUS
<1> QED BY <1>1 DEF Distinct, InQueue

LEMMA PlaceInit == Init => PlaceInv
<1> SUFFICES ASSUME Init PROVE PlaceInv
    OBVIOUS
<1>1. PlaceTypes
    BY DEF Init, PlaceTypes
<1>2. OnePlace
    BY Empty DEF Init, OnePlace
<1>3. InMemory
    BY Empty DEF Init, InMemory
<1>4. Unloaded /\ Driving
    BY ImpsAssumption DEF Init, Unloaded, Driving, Threads, Settled, Steps, Adding
<1> QED BY <1>1, <1>2, <1>3, <1>4 DEF PlaceInv

LEMMA InitPlace == PlaceInv /\ dungeon_init => PlaceInv'
<1> SUFFICES ASSUME PlaceInv, dungeon_init PROVE PlaceInv'
    OBVIOUS
<1> USE DEF To, Born, Threads, parts, threads, flags, imps, queues, Steps, Settled, Adding
<1>1. ASSUME NEW step \in Steps, NEW T, Fail(step, T) PROVE PlaceInv'
    BY <1>1, Unmoved DEF Fail
<1>2. ASSUME NEW step \in Steps, NEW T, NEW label, label # "drive", NEW next \in Steps \cup {"list"}, Create(step, T, label, next)
      PROVE PlaceInv'
    BY <1>2, Unmoved DEF Create
<1>3. PlaceInv => pc = [t \in Threads |-> pc[t]]
    BY DEF PlaceInv, PlaceTypes
<1>4. CASE InitHeart
    BY <1>1, <1>3, <1>4, Unmoved DEF InitHeart
<1>5. CASE thr_worker_create \/ thr_maintainer_create \/ thr_monitor_init
    BY <1>1, <1>2, <1>5 DEF thr_worker_create, thr_maintainer_create, thr_monitor_init
<1>6. CASE NewRooms \/ Abort
    BY <1>3, <1>6, Unmoved DEF NewRooms, Abort
<1>7. CASE RoomsLoaded
    BY <1>3, <1>7, Unmoved DEF RoomsLoaded
<1>8. CASE dungeon_add_room
  <2>1. ASSUME NEW l \in Listeners, imp_summon(l) PROVE PlaceInv'
    <3>1. l \in Imps /\ mem[l] = "none"
        BY <2>1, ImpsAssumption DEF imp_summon, PlaceInv, Unloaded
    <3>2. /\ run_queue' = Append(run_queue, l) /\ mem' = [mem EXCEPT ![l] = "live"]
          /\ UNCHANGED <<room, pc, cur, asleep, batch, terminated_queue>>
          /\ main = "summon" /\ main' = "append" /\ room[l] = "adding"
        BY <2>1 DEF imp_summon
    <3>3. /\ run_queue' \in Seq(Imps) /\ InQueue(run_queue)' = InQueue(run_queue) \cup {l}
          /\ Distinct(run_queue)' /\ InQueue(terminated_queue)' = InQueue(terminated_queue)
          /\ Distinct(terminated_queue)'
        BY <3>1, <3>2, Appending DEF PlaceInv, PlaceTypes, OnePlace, InMemory
    <3>4. PlaceTypes'
        BY <3>1, <3>2, <3>3 DEF PlaceInv, PlaceTypes
    <3>5. OnePlace'
        BY <3>1, <3>2, <3>3 DEF PlaceInv, OnePlace, InMemory
    <3>6. InMemory'
        BY <3>1, <3>2, <3>3 DEF PlaceInv, InMemory, PlaceTypes
    <3>7. Unloaded'
        BY <3>1, <3>2, ImpsAssumption DEF PlaceInv, PlaceTypes, Unloaded, Adding
    <3>8. Driving'
        BY <3>2 DEF PlaceInv, Driving
    <3> QED BY <3>4, <3>5, <3>6, <3>7, <3>8 DEF PlaceInv
  <2>2. ASSUME NEW l \in Listeners, mod_init(l) PROVE PlaceInv'
    <3>1. UNCHANGED <<mem, pc, cur, asleep, batch, run_queue, terminated_queue>>
        BY <2>2 DEF mod_init
    <3>2. Unloaded'
        BY <2>2, <3>1 DEF mod_init, Becomes, PlaceInv, Unloaded, Adding
    <3> QED BY <1>3, <3>1, <3>2, Unmoved
  <2>3. ASSUME NEW l \in Listeners, llist_append(l) PROVE PlaceInv'
    <3>1. UNCHANGED <<mem, pc, cur, asleep, batch, run_queue, terminated_queue>>
        BY <2>3 DEF llist_append
    <3>2. Unloaded'
        BY <2>3, <3>1 DEF llist_append, Becomes, PlaceInv, Unloaded, Adding
    <3> QED BY <1>3, <3>1, <3>2, Unmoved
  <2>4. CASE To("append", "appending") /\ UNCHANGED <<parts, threads, imps, queues>>
    <3>1. Unloaded'
        BY <2>4 DEF PlaceInv, Unloaded, Adding
    <3> QED BY <1>3, <2>4, <3>1, Unmoved
  <2>5. CASE To("appended", "rooms") /\ UNCHANGED <<parts, threads, imps, queues>>
      BY <1>3, <2>5, Unmoved DEF Adding
  <2> QED BY <1>8, <2>1, <2>2, <2>3, <2>4, <2>5 DEF dungeon_add_room
<1> QED BY <1>4, <1>5, <1>6, <1>7, <1>8 DEF dungeon_init

(* The head of a queue is dismissed.                                       *)
LEMMA Dismissing ==
    ASSUME PlaceInv, UNCHANGED <<main, room, pc, cur, asleep, batch>>,
           \/ /\ run_queue # <<>> /\ run_queue' = Tail(run_queue)
              /\ mem' = [mem EXCEPT ![Head(run_queue)] = "freed"]
              /\ UNCHANGED terminated_queue
           \/ /\ terminated_queue # <<>> /\ terminated_queue' = Tail(terminated_queue)
              /\ mem' = [mem EXCEPT ![Head(terminated_queue)] = "freed"]
              /\ UNCHANGED run_queue
    PROVE  PlaceInv'
<1>1. PICK i \in Imps :
        /\ mem' = [mem EXCEPT ![i] = "freed"]
        /\ i \in InQueue(run_queue) \cup InQueue(terminated_queue)
        /\ InQueue(run_queue)' = InQueue(run_queue) \ {i}
        /\ InQueue(terminated_queue)' = InQueue(terminated_queue) \ {i}
        /\ run_queue' \in Seq(Imps) /\ Distinct(run_queue)'
        /\ terminated_queue' \in Seq(Imps) /\ Distinct(terminated_queue)'
  <2>1. CASE /\ run_queue # <<>> /\ run_queue' = Tail(run_queue)
             /\ mem' = [mem EXCEPT ![Head(run_queue)] = "freed"]
             /\ UNCHANGED terminated_queue
    <3>1. /\ Head(run_queue) \in Imps /\ Head(run_queue) \in InQueue(run_queue)
          /\ run_queue' \in Seq(Imps) /\ Distinct(run_queue)'
          /\ InQueue(run_queue)' = InQueue(run_queue) \ {Head(run_queue)}
        BY <2>1, Removing DEF PlaceInv, PlaceTypes, OnePlace
    <3>2. Head(run_queue) \notin InQueue(terminated_queue)
        BY <3>1 DEF PlaceInv, OnePlace
    <3>3. /\ terminated_queue' \in Seq(Imps) /\ Distinct(terminated_queue)'
          /\ InQueue(terminated_queue)' = InQueue(terminated_queue) \ {Head(run_queue)}
        BY <2>1, <3>2 DEF PlaceInv, PlaceTypes, OnePlace
    <3> QED BY <2>1, <3>1, <3>3
  <2>2. CASE /\ terminated_queue # <<>> /\ terminated_queue' = Tail(terminated_queue)
             /\ mem' = [mem EXCEPT ![Head(terminated_queue)] = "freed"]
             /\ UNCHANGED run_queue
    <3>1. /\ Head(terminated_queue) \in Imps /\ Head(terminated_queue) \in InQueue(terminated_queue)
          /\ terminated_queue' \in Seq(Imps) /\ Distinct(terminated_queue)'
          /\ InQueue(terminated_queue)' = InQueue(terminated_queue) \ {Head(terminated_queue)}
        BY <2>2, Removing DEF PlaceInv, PlaceTypes, OnePlace
    <3>2. Head(terminated_queue) \notin InQueue(run_queue)
        BY <3>1 DEF PlaceInv, OnePlace
    <3>3. /\ run_queue' \in Seq(Imps) /\ Distinct(run_queue)'
          /\ InQueue(run_queue)' = InQueue(run_queue) \ {Head(terminated_queue)}
        BY <2>2, <3>2 DEF PlaceInv, PlaceTypes, OnePlace
    <3> QED BY <2>2, <3>1, <3>3
  <2> QED BY <2>1, <2>2
<1>2. PlaceTypes'
    BY <1>1 DEF PlaceInv, PlaceTypes
<1>3. OnePlace'
    BY <1>1 DEF PlaceInv, OnePlace
<1>4. InMemory'
    BY <1>1 DEF PlaceInv, PlaceTypes, OnePlace, InMemory
<1>5. Unloaded'
  <2>1. mem[i] = "live"
      BY <1>1 DEF PlaceInv, InMemory
  <2> QED BY <1>1, <2>1 DEF PlaceInv, PlaceTypes, Unloaded
<1>6. Driving'
    BY DEF PlaceInv, Driving
<1> QED BY <1>2, <1>3, <1>4, <1>5, <1>6 DEF PlaceInv

LEMMA DeletePlace == PlaceInv /\ dungeon_delete => PlaceInv'
<1> SUFFICES ASSUME PlaceInv, dungeon_delete PROVE PlaceInv'
    OBVIOUS
<1> USE DEF To, parts, threads, flags, imps, queues, Steps, Settled, Adding
<1>1. pc = [t \in Threads |-> pc[t]]
    BY DEF PlaceInv, PlaceTypes
<1>2. CASE CancelMonitor \/ QuitWorkers \/ CancelWorkers
    BY <1>1, <1>2, Unmoved DEF CancelMonitor, QuitWorkers, CancelWorkers
<1>3. CASE \/ Join("join_monitor", {"monitor"}, "quit_workers")
           \/ Join("join_epoller", {"epoller"}, "cancel_workers")
           \/ JoinWorkers \/ JoinMaintainer
    BY <1>1, <1>3, Unmoved DEF Join, JoinWorkers, JoinMaintainer
<1>4. CASE \/ MarkMaintainer("quit_maintainer", "wake_maintainer")
           \/ thr_maintainer_wakeup("wake_maintainer", "join_maintainer")
    BY <1>1, <1>4, Unmoved DEF MarkMaintainer, thr_maintainer_wakeup
<1>5. ASSUME NEW part, NEW here, NEW there,
             there \notin Settled \cup Adding, Release(part, here, there)
      PROVE  PlaceInv'
    BY <1>1, <1>5, Unmoved DEF Release
<1>6. CASE DrainRun
    BY <1>5, <1>6, Dismissing DEF DrainRun
<1>7. CASE DrainTerminated
    BY <1>5, <1>7, Dismissing DEF DrainTerminated
<1>8. CASE dungeon_demolish_allrooms
  <2>1. ASSUME NEW l \in Listeners, mod_destroy(l) PROVE PlaceInv'
    <3>1. UNCHANGED <<mem, pc, cur, asleep, batch, run_queue, terminated_queue>>
        BY <2>1 DEF mod_destroy
    <3>2. Unloaded'
        BY <2>1, <3>1 DEF mod_destroy, Becomes, PlaceInv, Unloaded
    <3> QED BY <1>1, <3>1, <3>2, Unmoved
  <2>2. CASE To("demolish", "crash") /\ UNCHANGED <<parts, threads, imps, queues>>
      BY <1>1, <2>2, Unmoved
  <2> QED BY <1>5, <1>8, <2>1, <2>2 DEF dungeon_demolish_allrooms
<1>9. CASE Release("epoll_fd", "close_epoll", "demolish") \/ Release("heart", "free_heart", "exit")
    BY <1>5, <1>9
<1> QED BY <1>2, <1>3, <1>4, <1>6, <1>7, <1>8, <1>9
        DEF dungeon_delete, thr_worker_destroy, thr_maintainer_destroy

LEMMA WorkerPlace ==
    ASSUME PlaceInv, NEW w \in Workers, Worker(w)
    PROVE  PlaceInv'
<1> USE ImpsAssumption
        DEF Threads, At, GoTo, parts, threads, flags, imps, queues
<1>1. ASSUME NEW here, NEW there, there # "drive", Moves(w, here, there) PROVE PlaceInv'
    BY <1>1, Unmoved DEF Moves, PlaceInv, PlaceTypes
<1>2. CASE WorkerDequeue(w)
  <2> DEFINE i == Head(run_queue)
  <2>1. /\ i \in Imps /\ i \in InQueue(run_queue)
        /\ run_queue' \in Seq(Imps) /\ Distinct(run_queue)'
        /\ InQueue(run_queue)' = InQueue(run_queue) \ {i}
      BY <1>2, Removing DEF WorkerDequeue, PlaceInv, PlaceTypes, OnePlace
  <2>2. /\ cur' = [cur EXCEPT ![w] = i] /\ pc' = [pc EXCEPT ![w] = "drive"]
        /\ UNCHANGED <<main, room, mem, asleep, batch, terminated_queue>>
      BY <1>2 DEF WorkerDequeue
  <2> HIDE DEF i
  <2>3. PlaceTypes'
      BY <2>1, <2>2 DEF PlaceInv, PlaceTypes
  <2>4. OnePlace'
      BY <2>1, <2>2 DEF PlaceInv, PlaceTypes, OnePlace
  <2>5. InMemory'
      BY <2>1, <2>2 DEF PlaceInv, PlaceTypes, InMemory
  <2>6. Unloaded' /\ Driving'
      BY <2>1, <2>2 DEF PlaceInv, PlaceTypes, Unloaded, Driving
  <2> QED BY <2>3, <2>4, <2>5, <2>6 DEF PlaceInv
<1>3. CASE WorkerSummons(w)
  <2>1. PICK i \in Imps \ Listeners :
          /\ mem[i] = "none" /\ mem' = [mem EXCEPT ![i] = "live"]
          /\ run_queue' = Append(run_queue, i)
      BY <1>3 DEF WorkerSummons
  <2>2. UNCHANGED <<main, room, pc, cur, asleep, batch, terminated_queue>>
      BY <1>3 DEF WorkerSummons
  <2>3. /\ run_queue' \in Seq(Imps) /\ Distinct(run_queue)'
        /\ InQueue(run_queue)' = InQueue(run_queue) \cup {i}
      BY <2>1, Appending DEF PlaceInv, PlaceTypes, OnePlace, InMemory
  <2>4. PlaceTypes'
      BY <2>1, <2>2, <2>3 DEF PlaceInv, PlaceTypes
  <2>5. OnePlace'
      BY <2>1, <2>2, <2>3 DEF PlaceInv, OnePlace, InMemory
  <2>6. InMemory'
      BY <2>1, <2>2, <2>3 DEF PlaceInv, PlaceTypes, InMemory
  <2>7. Unloaded' /\ Driving'
      BY <2>1, <2>2 DEF PlaceInv, Unloaded, Driving
  <2> QED BY <2>4, <2>5, <2>6, <2>7 DEF PlaceInv
<1>4. CASE WorkerYields(w)
  <2> DEFINE i == cur[w]
  <2>1. /\ i \in Imps /\ mem[i] = "live"
        /\ i \notin InQueue(run_queue) \cup InQueue(terminated_queue) \cup asleep
        /\ \A v \in Workers \ {w} : cur[v] # i
      BY <1>4 DEF WorkerYields, PlaceInv, PlaceTypes, OnePlace, InMemory, Driving
  <2>2. /\ cur' = [cur EXCEPT ![w] = NoImp] /\ UNCHANGED <<main, room, mem, batch>>
        /\ pc' = [pc EXCEPT ![w] = "loop"] \/ pc' = [pc EXCEPT ![w] = "wakeup"]
      BY <1>4 DEF WorkerYields
  <2>3. \/ run_queue' = Append(run_queue, i) /\ UNCHANGED <<asleep, terminated_queue>>
        \/ asleep' = asleep \cup {i} /\ UNCHANGED <<run_queue, terminated_queue>>
        \/ terminated_queue' = Append(terminated_queue, i) /\ UNCHANGED <<asleep, run_queue>>
      BY <1>4 DEF WorkerYields
  <2> HIDE DEF i
  <2>4. /\ run_queue' \in Seq(Imps) /\ Distinct(run_queue)'
        /\ terminated_queue' \in Seq(Imps) /\ Distinct(terminated_queue)'
        /\ \/ /\ InQueue(run_queue)' = InQueue(run_queue) \cup {i}
              /\ InQueue(terminated_queue)' = InQueue(terminated_queue) /\ asleep' = asleep
           \/ /\ InQueue(terminated_queue)' = InQueue(terminated_queue) \cup {i}
              /\ InQueue(run_queue)' = InQueue(run_queue) /\ asleep' = asleep
           \/ /\ InQueue(run_queue)' = InQueue(run_queue)
              /\ InQueue(terminated_queue)' = InQueue(terminated_queue)
              /\ asleep' = asleep \cup {i}
    <3>1. /\ run_queue \in Seq(Imps) /\ Distinct(run_queue)
          /\ terminated_queue \in Seq(Imps) /\ Distinct(terminated_queue)
        BY DEF PlaceInv, PlaceTypes, OnePlace
    <3>2. CASE run_queue' = Append(run_queue, i) /\ UNCHANGED <<asleep, terminated_queue>>
        BY <2>1, <3>1, <3>2, Appending
    <3>3. CASE asleep' = asleep \cup {i} /\ UNCHANGED <<run_queue, terminated_queue>>
        BY <3>1, <3>3
    <3>4. CASE terminated_queue' = Append(terminated_queue, i) /\ UNCHANGED <<asleep, run_queue>>
        BY <2>1, <3>1, <3>4, Appending
    <3> QED BY <2>3, <3>2, <3>3, <3>4
  <2>5. PlaceTypes'
      BY <2>1, <2>2, <2>4 DEF PlaceInv, PlaceTypes
  <2>6. OnePlace'
      BY <2>1, <2>2, <2>4 DEF PlaceInv, PlaceTypes, OnePlace
  <2>7. InMemory'
      BY <2>1, <2>2, <2>4 DEF PlaceInv, PlaceTypes, InMemory
  <2>8. Unloaded' /\ Driving'
      BY <2>2 DEF PlaceInv, PlaceTypes, Unloaded, Driving
  <2> QED BY <2>5, <2>6, <2>7, <2>8 DEF PlaceInv
<1>5. CASE WorkerWakesMaintainer(w)
    BY <1>5, Unmoved DEF WorkerWakesMaintainer, PlaceInv, PlaceTypes
<1>6. CASE WorkerCancelled(w)
    BY <1>1, <1>6 DEF WorkerCancelled
<1> QED BY <1>1, <1>2, <1>3, <1>4, <1>5, <1>6 DEF Worker

LEMMA OthersPlace ==
    ASSUME PlaceInv, Epoller \/ Maintainer \/ MonitorServes \/ MonitorCancelled
    PROVE  PlaceInv'
<1> USE ImpsAssumption, WorkersAssumption
        DEF Threads, At, GoTo, parts, threads, flags, imps, queues
<1>1. ASSUME NEW t \in Threads \ Workers, NEW here, NEW there, Moves(t, here, there) PROVE PlaceInv'
    BY <1>1, Unmoved DEF Moves, PlaceInv, PlaceTypes
<1>2. /\ "epoller" \in Threads \ Workers /\ "maintainer" \in Threads \ Workers
      /\ "monitor" \in Threads \ Workers
    OBVIOUS
<1>3. CASE EpollerPolls
  <2>1. /\ batch' \subseteq asleep /\ pc' = [pc EXCEPT !["epoller"] = "wake"]
        /\ UNCHANGED <<main, room, mem, cur, asleep, run_queue, terminated_queue>>
      BY <1>3 DEF EpollerPolls
  <2>2. PlaceTypes' /\ OnePlace' /\ InMemory'
      BY <2>1 DEF PlaceInv, PlaceTypes, OnePlace, InMemory
  <2>3. Unloaded' /\ Driving'
      BY <1>2, <2>1 DEF PlaceInv, PlaceTypes, Unloaded, Driving
  <2> QED BY <2>2, <2>3 DEF PlaceInv
<1>4. CASE EpollerWakes
  <2>1. PICK i \in batch : /\ run_queue' = Append(run_queue, i)
                           /\ asleep' = asleep \ {i} /\ batch' = batch \ {i}
      BY <1>4 DEF EpollerWakes
  <2>2. UNCHANGED <<main, room, pc, mem, cur, terminated_queue>>
      BY <1>4 DEF EpollerWakes
  <2>3. i \in asleep /\ i \in Imps
      BY DEF PlaceInv, OnePlace, InMemory, PlaceTypes
  <2>4. /\ run_queue' \in Seq(Imps) /\ Distinct(run_queue)'
        /\ InQueue(run_queue)' = InQueue(run_queue) \cup {i}
      BY <2>1, <2>3, Appending DEF PlaceInv, PlaceTypes, OnePlace
  <2>5. PlaceTypes'
      BY <2>1, <2>2, <2>4 DEF PlaceInv, PlaceTypes
  <2>6. OnePlace'
      BY <2>1, <2>2, <2>3, <2>4 DEF PlaceInv, OnePlace
  <2>7. InMemory' /\ Unloaded' /\ Driving'
      BY <2>1, <2>2, <2>3, <2>4 DEF PlaceInv, InMemory, Unloaded, Driving
  <2> QED BY <2>5, <2>6, <2>7 DEF PlaceInv
<1>5. CASE MaintainerDismisses
    BY <1>5, Dismissing DEF MaintainerDismisses
<1>6. CASE MaintainerWakes
    BY <1>2, <1>6, Unmoved DEF MaintainerWakes, PlaceInv, PlaceTypes
<1> QED BY <1>1, <1>2, <1>3, <1>4, <1>5, <1>6 DEF Epoller, Maintainer, MonitorServes, MonitorCancelled

LEMMA PlaceStep == PlaceInv /\ [Next]_vars => PlaceInv'
<1> SUFFICES ASSUME PlaceInv, [Next]_vars PROVE PlaceInv'
    OBVIOUS
<1>1. CASE Signal \/ SignalMonitor \/ UNCHANGED vars
    BY <1>1, Unmoved
       DEF Signal, SignalMonitor, vars, parts, threads, imps, queues, Steps, Settled, Adding, PlaceInv, PlaceTypes
<1> QED BY <1>1, InitPlace, DeletePlace, WorkerPlace, OthersPlace DEF Next

(* No imp is dismissed that a queue, a worker, epoll or the batch of the   *)
(* epoller still refers to, nor a second time, by whichever of the         *)
(* maintainer and dungeon_delete.  (The rooms' id_listener is not asked.)  *)
THEOREM NothingDismissedIsUsed == ServerSpec => []DismissedOnce
<1>1. PlaceInv => DismissedOnce
    BY DEF PlaceInv, OnePlace, InMemory, DismissedOnce
<1> QED BY HeartBegins, HeartSteps, PlaceInit, PlaceStep, <1>1, PTL DEF ServerSpec

-----------------------------------------------------------------------------
(* No imp in memory is lost: it is in a queue, asleep or in the hands of a *)
(* worker.                                                                 *)

InHand == {cur[w] : w \in Workers}
NoneLost == \A i \in Imps :
    mem[i] = "live" => i \in InQueue(run_queue) \cup InQueue(terminated_queue) \cup asleep \cup InHand

FreeHands ==
    /\ \A w \in Workers : pc[w] \notin {"drive", "dead"} => cur[w] = NoImp
    /\ main \in {"heart", "workers"} => \A t \in Threads : pc[t] = "unborn"

(* A queue that is drained stays empty, for nobody is left to fill it.     *)
Emptied ==
    /\ main \in NoThreads \ {"drain_run"} => run_queue = <<>>
    /\ main \in NoThreads \ {"drain_run", "drain_terminated"} => terminated_queue = <<>>

KeptInv == NoneLost /\ FreeHands /\ Emptied

LEMMA Kept ==
    ASSUME KeptInv, UNCHANGED <<mem, cur, asleep, run_queue, terminated_queue>>,
           FreeHands', Emptied'
    PROVE  KeptInv'
    BY DEF KeptInv, NoneLost, InHand

LEMMA InitKept == KeptInv /\ PlaceInv /\ dungeon_init => KeptInv'
<1> SUFFICES ASSUME KeptInv, PlaceInv, dungeon_init PROVE KeptInv'
    OBVIOUS
<1> USE WorkersAssumption
        DEF To, Born, Threads, parts, threads, flags, imps, queues, Steps, NoThreads
<1>1. ASSUME NEW step \in Steps, NEW T, Fail(step, T), T \cap Workers = {} PROVE KeptInv'
  <2>1. UNCHANGED <<mem, cur, asleep, run_queue, terminated_queue>> /\ main' = "failed"
      BY <1>1 DEF Fail
  <2>2. \A t \in Threads : pc'[t] = IF t \in T THEN "loop" ELSE pc[t]
      BY <1>1 DEF Fail
  <2>3. FreeHands' /\ Emptied'
      BY <1>1, <2>1, <2>2 DEF KeptInv, FreeHands, Emptied
  <2> QED BY <2>1, <2>3, Kept
<1>2. ASSUME NEW step \in Steps, NEW T, NEW label, label # "dead",
             NEW next \in {"maintainer", "monitor", "list"}, Create(step, T, label, next),
             T \cap Workers = {} \/ step = "workers"
      PROVE KeptInv'
  <2>1. UNCHANGED <<mem, cur, asleep, run_queue, terminated_queue>> /\ main = step /\ main' = next
      BY <1>2 DEF Create
  <2>2. \A t \in Threads : pc'[t] = IF t \in T THEN label ELSE pc[t]
      BY <1>2 DEF Create
  <2>3. FreeHands'
      BY <1>2, <2>1, <2>2 DEF KeptInv, FreeHands
  <2>4. Emptied'
      BY <2>1 DEF Emptied
  <2> QED BY <2>1, <2>3, <2>4, Kept
<1>3. CASE InitHeart
    BY <1>1, <1>3, Kept DEF InitHeart, KeptInv, FreeHands, Emptied
<1>4. CASE thr_worker_create
    BY <1>1, <1>2, <1>4 DEF thr_worker_create
<1>5. CASE thr_maintainer_create \/ thr_monitor_init
    BY <1>1, <1>2, <1>5 DEF thr_maintainer_create, thr_monitor_init
<1>6. CASE NewRooms \/ Abort \/ RoomsLoaded
  <2>1. /\ UNCHANGED <<pc, mem, cur, asleep, run_queue, terminated_queue>>
        /\ main' \in {"rooms", "gone", "failed", "run"}
      BY <1>6 DEF NewRooms, Abort, RoomsLoaded
  <2>2. FreeHands' /\ Emptied'
      BY <2>1 DEF KeptInv, FreeHands, Emptied
  <2> QED BY <2>1, <2>2, Kept
<1>7. CASE dungeon_add_room
  <2>1. ASSUME NEW l \in Listeners, imp_summon(l) PROVE KeptInv'
    <3>1. /\ run_queue' = Append(run_queue, l) /\ mem' = [mem EXCEPT ![l] = "live"]
          /\ UNCHANGED <<pc, cur, asleep, terminated_queue>> /\ main' = "append"
        BY <2>1 DEF imp_summon
    <3>2. InQueue(run_queue)' = InQueue(run_queue) \cup {l} /\ InQueue(terminated_queue)' = InQueue(terminated_queue)
        BY <3>1, ImpsAssumption, Appending DEF PlaceInv, PlaceTypes
    <3>3. NoneLost'
        BY <3>1, <3>2 DEF KeptInv, NoneLost, InHand, PlaceInv, PlaceTypes
    <3> QED BY <3>1, <3>3 DEF KeptInv, FreeHands, Emptied
  <2>2. ASSUME main' \in {"summon", "append", "appending", "appended", "rooms", "gone"},
               UNCHANGED <<pc, mem, cur, asleep, batch, run_queue, terminated_queue>>
        PROVE  KeptInv'
      BY <2>2, Kept DEF KeptInv, FreeHands, Emptied
  <2>3. ASSUME NEW l \in Listeners, mod_init(l) \/ llist_append(l) PROVE KeptInv'
      BY <2>2, <2>3 DEF mod_init, llist_append
  <2> QED BY <1>7, <2>1, <2>2, <2>3 DEF dungeon_add_room
<1> QED BY <1>3, <1>4, <1>5, <1>6, <1>7 DEF dungeon_init

LEMMA DismissingKeeps ==
    ASSUME KeptInv, PlaceInv, UNCHANGED <<main, pc, cur, asleep>>,
           \/ /\ run_queue # <<>> /\ run_queue' = Tail(run_queue)
              /\ mem' = [mem EXCEPT ![Head(run_queue)] = "freed"]
              /\ UNCHANGED terminated_queue
           \/ /\ terminated_queue # <<>> /\ terminated_queue' = Tail(terminated_queue)
              /\ mem' = [mem EXCEPT ![Head(terminated_queue)] = "freed"]
              /\ UNCHANGED run_queue
    PROVE  NoneLost' /\ FreeHands'
<1>1. FreeHands'
    BY DEF KeptInv, FreeHands
<1>2. CASE /\ run_queue # <<>> /\ run_queue' = Tail(run_queue)
           /\ mem' = [mem EXCEPT ![Head(run_queue)] = "freed"]
           /\ UNCHANGED terminated_queue
  <2>1. InQueue(run_queue)' = InQueue(run_queue) \ {Head(run_queue)}
      BY <1>2, Removing DEF PlaceInv, PlaceTypes, OnePlace
  <2>2. InQueue(terminated_queue)' = InQueue(terminated_queue) /\ InHand' = InHand
      BY <1>2 DEF InQueue, InHand
  <2> QED BY <1>1, <1>2, <2>1, <2>2 DEF KeptInv, NoneLost, PlaceInv, PlaceTypes
<1>3. CASE /\ terminated_queue # <<>> /\ terminated_queue' = Tail(terminated_queue)
           /\ mem' = [mem EXCEPT ![Head(terminated_queue)] = "freed"]
           /\ UNCHANGED run_queue
  <2>1. InQueue(terminated_queue)' = InQueue(terminated_queue) \ {Head(terminated_queue)}
      BY <1>3, Removing DEF PlaceInv, PlaceTypes, OnePlace
  <2>2. InQueue(run_queue)' = InQueue(run_queue) /\ InHand' = InHand
      BY <1>3 DEF InQueue, InHand
  <2> QED BY <1>1, <1>3, <2>1, <2>2 DEF KeptInv, NoneLost, PlaceInv, PlaceTypes
<1> QED BY <1>2, <1>3

LEMMA DeleteKept == KeptInv /\ PlaceInv /\ dungeon_delete => KeptInv'
<1> SUFFICES ASSUME KeptInv, PlaceInv, dungeon_delete PROVE KeptInv'
    OBVIOUS
<1> USE DEF To, parts, threads, flags, imps, queues, NoThreads
<1>1. CASE CancelMonitor \/ QuitWorkers \/ CancelWorkers
    BY <1>1, Kept DEF CancelMonitor, QuitWorkers, CancelWorkers, KeptInv, FreeHands, Emptied
<1>2. CASE \/ Join("join_monitor", {"monitor"}, "quit_workers")
           \/ Join("join_epoller", {"epoller"}, "cancel_workers")
           \/ JoinWorkers \/ JoinMaintainer
    BY <1>2, Kept DEF Join, JoinWorkers, JoinMaintainer, KeptInv, FreeHands, Emptied
<1>3. CASE \/ MarkMaintainer("quit_maintainer", "wake_maintainer")
           \/ thr_maintainer_wakeup("wake_maintainer", "join_maintainer")
    BY <1>3, Kept DEF MarkMaintainer, thr_maintainer_wakeup, KeptInv, FreeHands, Emptied
<1>4. CASE DrainRun
  <2>1. CASE run_queue = <<>> /\ Release("run_queue", "drain_run", "drain_terminated")
      BY <2>1, Kept DEF Release, KeptInv, FreeHands, Emptied
  <2>2. CASE run_queue # <<>> /\ main = "drain_run"
      BY <1>4, <2>2, DismissingKeeps DEF DrainRun, Release, KeptInv, Emptied
  <2> QED BY <1>4, <2>1, <2>2 DEF DrainRun
<1>5. CASE DrainTerminated
  <2>1. CASE terminated_queue = <<>> /\ Release("terminated_queue", "drain_terminated", "close_epoll")
      BY <2>1, Kept DEF Release, KeptInv, FreeHands, Emptied
  <2>2. CASE terminated_queue # <<>> /\ main = "drain_terminated"
      BY <1>5, <2>2, DismissingKeeps DEF DrainTerminated, Release, KeptInv, Emptied
  <2> QED BY <1>5, <2>1, <2>2 DEF DrainTerminated
<1>6. CASE dungeon_demolish_allrooms
    BY <1>6, Kept DEF dungeon_demolish_allrooms, mod_destroy, Release, KeptInv, FreeHands, Emptied
<1>7. CASE Release("epoll_fd", "close_epoll", "demolish") \/ Release("heart", "free_heart", "exit")
    BY <1>7, Kept DEF Release, KeptInv, FreeHands, Emptied
<1> QED BY <1>1, <1>2, <1>3, <1>4, <1>5, <1>6, <1>7
        DEF dungeon_delete, thr_worker_destroy, thr_maintainer_destroy

(* A thread that takes a step is not one of those that have ended.         *)
LEMMA Running ==
    ASSUME StageInv, KeptInv, NEW t \in Threads, pc[t] \notin Quiet, main' = main,
           \A u \in Threads : pc'[u] = pc[u] \/ u = t,
           t \in Workers => pc'[t] \in {"drive", "dead"} \/ cur'[t] = NoImp,
           \A w \in Workers : cur'[w] = cur[w] \/ w = t
    PROVE  Emptied' /\ FreeHands'
<1>1. main \notin NoThreads
    BY AllJoined DEF Still
<1>2. main \notin {"heart", "workers"}
    BY DEF KeptInv, FreeHands, Quiet
<1>3. \A w \in Workers : w \in Threads
    BY DEF Threads
<1> QED BY <1>1, <1>2, <1>3 DEF Emptied, KeptInv, FreeHands

LEMMA WorkerKept ==
    ASSUME StageInv, PlaceInv, KeptInv, NEW w \in Workers, Worker(w)
    PROVE  KeptInv'
<1> USE ImpsAssumption DEF At, GoTo, parts, threads, flags, imps, queues
<1>1. w \in Threads /\ pc \in [Threads -> {pc[t] : t \in Threads}] /\ cur \in [Workers -> Imps \cup {NoImp}]
    BY DEF Threads, StageInv, PlaceInv, PlaceTypes
<1>2. ASSUME NEW here, here \notin Quiet \cup {"drive"}, NEW there, Moves(w, here, there) PROVE KeptInv'
  <2>1. cur[w] = NoImp
      BY <1>2 DEF Moves, KeptInv, FreeHands, Quiet
  <2>2. FreeHands' /\ Emptied'
      BY <1>1, <1>2, <2>1, Running DEF Moves
  <2> QED BY <1>2, <2>2, Kept DEF Moves
<1>3. CASE WorkerDequeue(w)
  <2> DEFINE i == Head(run_queue)
  <2>1. InQueue(run_queue)' = InQueue(run_queue) \ {i} /\ i \in Imps
      BY <1>3, Removing DEF WorkerDequeue, PlaceInv, PlaceTypes, OnePlace
  <2>2. /\ cur' = [cur EXCEPT ![w] = i] /\ pc' = [pc EXCEPT ![w] = "drive"] /\ pc[w] = "dequeue"
        /\ UNCHANGED <<main, mem, asleep, terminated_queue>>
      BY <1>3 DEF WorkerDequeue
  <2> HIDE DEF i
  <2>3. cur[w] = NoImp
      BY <2>2 DEF KeptInv, FreeHands
  <2>4. /\ \A j \in InHand : j # NoImp => j \in InHand'
        /\ i \in InHand' /\ InQueue(terminated_queue)' = InQueue(terminated_queue)
      BY <1>1, <2>2, <2>3 DEF InHand, InQueue
  <2>5. NoneLost'
      BY <2>1, <2>2, <2>4 DEF KeptInv, NoneLost
  <2>6. Emptied' /\ FreeHands'
      BY <1>1, <2>2, Running DEF Quiet
  <2> QED BY <2>5, <2>6 DEF KeptInv
<1>4. CASE WorkerSummons(w)
  <2>1. PICK i \in Imps \ Listeners :
          mem' = [mem EXCEPT ![i] = "live"] /\ run_queue' = Append(run_queue, i)
      BY <1>4 DEF WorkerSummons
  <2>2. UNCHANGED <<main, pc, cur, asleep, terminated_queue>> /\ pc[w] = "drive"
      BY <1>4 DEF WorkerSummons
  <2>3. InQueue(run_queue)' = InQueue(run_queue) \cup {i}
      BY <2>1, Appending DEF PlaceInv, PlaceTypes
  <2>6. InHand' = InHand /\ InQueue(terminated_queue)' = InQueue(terminated_queue)
      BY <2>2 DEF InHand, InQueue
  <2>4. NoneLost'
      BY <2>1, <2>2, <2>3, <2>6 DEF KeptInv, NoneLost, PlaceInv, PlaceTypes
  <2>5. Emptied' /\ FreeHands'
      BY <1>1, <2>2, Running DEF Quiet
  <2> QED BY <2>4, <2>5 DEF KeptInv
<1>5. CASE WorkerYields(w)
  <2> DEFINE i == cur[w]
  <2>1. i \in Imps
      BY <1>5 DEF WorkerYields, PlaceInv, PlaceTypes, Driving
  <2>2. /\ cur' = [cur EXCEPT ![w] = NoImp] /\ UNCHANGED <<main, mem>> /\ pc[w] = "drive"
        /\ pc' = [pc EXCEPT ![w] = "loop"] \/ pc' = [pc EXCEPT ![w] = "wakeup"]
      BY <1>5 DEF WorkerYields
  <2>3. \/ run_queue' = Append(run_queue, i) /\ UNCHANGED <<asleep, terminated_queue>>
        \/ asleep' = asleep \cup {i} /\ UNCHANGED <<run_queue, terminated_queue>>
        \/ terminated_queue' = Append(terminated_queue, i) /\ UNCHANGED <<asleep, run_queue>>
      BY <1>5 DEF WorkerYields
  <2>4. InHand \subseteq InHand' \cup {i}
      BY <1>1, <2>2 DEF InHand
  <2> HIDE DEF i
  <2>5. /\ InQueue(run_queue) \subseteq InQueue(run_queue)'
        /\ InQueue(terminated_queue) \subseteq InQueue(terminated_queue)'
        /\ asleep \subseteq asleep'
        /\ i \in InQueue(run_queue)' \cup InQueue(terminated_queue)' \cup asleep'
    <3>1. run_queue \in Seq(Imps) /\ terminated_queue \in Seq(Imps)
        BY DEF PlaceInv, PlaceTypes
    <3>2. CASE run_queue' = Append(run_queue, i) /\ UNCHANGED <<asleep, terminated_queue>>
        BY <2>1, <3>1, <3>2, Appending
    <3>3. CASE asleep' = asleep \cup {i} /\ UNCHANGED <<run_queue, terminated_queue>>
        BY <3>3
    <3>4. CASE terminated_queue' = Append(terminated_queue, i) /\ UNCHANGED <<asleep, run_queue>>
        BY <2>1, <3>1, <3>4, Appending
    <3> QED BY <2>3, <3>2, <3>3, <3>4
  <2>6. NoneLost'
      BY <2>2, <2>4, <2>5 DEF KeptInv, NoneLost
  <2>7. Emptied' /\ FreeHands'
      BY <1>1, <2>2, Running DEF Quiet
  <2> QED BY <2>6, <2>7 DEF KeptInv
<1>6. CASE WorkerWakesMaintainer(w)
  <2>1. cur[w] = NoImp
      BY <1>6 DEF WorkerWakesMaintainer, KeptInv, FreeHands
  <2>2. FreeHands' /\ Emptied'
      BY <1>1, <1>6, <2>1, Running DEF WorkerWakesMaintainer, Quiet
  <2> QED BY <1>6, <2>2, Kept DEF WorkerWakesMaintainer
<1>7. CASE Moves(w, "drive", "dead")
  <2>1. FreeHands' /\ Emptied'
      BY <1>1, <1>7, Running DEF Moves, Quiet
  <2> QED BY <1>7, <2>1, Kept DEF Moves
<1> QED BY <1>2, <1>3, <1>4, <1>5, <1>6, <1>7 DEF Worker, WorkerCancelled, Quiet

LEMMA OthersKept ==
    ASSUME StageInv, PlaceInv, KeptInv, Epoller \/ Maintainer \/ MonitorServes \/ MonitorCancelled
    PROVE  KeptInv'
<1> USE WorkersAssumption DEF At, GoTo, parts, threads, flags, imps, queues
<1>1. /\ "epoller" \in Threads \ Workers /\ "maintainer" \in Threads \ Workers
      /\ "monitor" \in Threads \ Workers /\ pc \in [Threads -> {pc[t] : t \in Threads}]
    BY DEF Threads, StageInv
<1>2. ASSUME NEW t \in Threads \ Workers, NEW here, here \notin Quiet, NEW there, Moves(t, here, there)
      PROVE  KeptInv'
  <2>1. FreeHands' /\ Emptied'
      BY <1>1, <1>2, Running DEF Moves
  <2> QED BY <1>2, <2>1, Kept DEF Moves
<1>3. CASE EpollerPolls
  <2>1. FreeHands' /\ Emptied'
      BY <1>1, <1>3, Running DEF EpollerPolls, Quiet
  <2> QED BY <1>3, <2>1, Kept DEF EpollerPolls
<1>4. CASE EpollerWakes
  <2>1. PICK i \in batch : run_queue' = Append(run_queue, i) /\ asleep' = asleep \ {i}
      BY <1>4 DEF EpollerWakes
  <2>2. UNCHANGED <<main, pc, mem, cur, terminated_queue>> /\ pc["epoller"] = "wake"
      BY <1>4 DEF EpollerWakes
  <2>3. InQueue(run_queue)' = InQueue(run_queue) \cup {i}
      BY <2>1, Appending DEF PlaceInv, PlaceTypes, OnePlace
  <2>4. NoneLost'
      BY <2>1, <2>2, <2>3 DEF KeptInv, NoneLost, InHand, InQueue
  <2>5. Emptied' /\ FreeHands'
      BY <1>1, <2>2, Running DEF Quiet
  <2> QED BY <2>4, <2>5 DEF KeptInv
<1>5. CASE MaintainerDismisses
  <2>1. NoneLost'
      BY <1>5, DismissingKeeps DEF MaintainerDismisses
  <2>2. Emptied' /\ FreeHands'
      BY <1>1, <1>5, Running DEF MaintainerDismisses, Quiet
  <2> QED BY <2>1, <2>2 DEF KeptInv
<1>6. CASE MaintainerWakes
  <2>1. FreeHands' /\ Emptied'
      BY <1>1, <1>6, Running DEF MaintainerWakes, Quiet
  <2> QED BY <1>6, <2>1, Kept DEF MaintainerWakes
<1> QED BY <1>1, <1>2, <1>3, <1>4, <1>5, <1>6
        DEF Epoller, Maintainer, MonitorServes, MonitorCancelled, Quiet

LEMMA KeptStep == StageInv /\ PlaceInv /\ KeptInv /\ [Next]_vars => KeptInv'
<1> SUFFICES ASSUME StageInv, PlaceInv, KeptInv, [Next]_vars PROVE KeptInv'
    OBVIOUS
<1>1. CASE Signal \/ SignalMonitor \/ UNCHANGED vars
  <2>1. UNCHANGED <<pc, mem, cur, asleep, run_queue, terminated_queue>>
      BY <1>1 DEF Signal, SignalMonitor, vars, parts, threads, imps, queues
  <2>2. main' = main \/ main' = "cancel_monitor"
      BY <1>1 DEF Signal, SignalMonitor, vars
  <2>3. FreeHands' /\ Emptied'
      BY <2>1, <2>2 DEF KeptInv, FreeHands, Emptied, NoThreads
  <2> QED BY <2>1, <2>3, Kept
<1> QED BY <1>1, InitKept, DeleteKept, WorkerKept, OthersKept DEF Next

LEMMA KeptInit == Init => KeptInv
<1> SUFFICES ASSUME Init PROVE KeptInv
    OBVIOUS
<1>1. NoneLost
    BY DEF Init, NoneLost
<1>2. FreeHands
    BY DEF Init, FreeHands, Threads
<1>3. Emptied
    BY DEF Init, Emptied
<1> QED BY <1>1, <1>2, <1>3 DEF KeptInv

(* dungeon_delete leaves no imp behind but those that slept, and those     *)
(* whose worker was cancelled under them.                                  *)
THEOREM NothingQueuedIsLeft == ServerSpec => []QueuedAreDismissed
<1>1. KeptInv => QueuedAreDismissed
  <2> SUFFICES ASSUME KeptInv, main = "exit", NEW i \in Imps, mem[i] = "live"
               PROVE  i \in asleep \/ \E w \in Workers : cur[w] = i
      BY DEF QueuedAreDismissed
  <2>1. run_queue = <<>> /\ terminated_queue = <<>>
      BY DEF KeptInv, Emptied, NoThreads
  <2> QED BY <2>1, Empty DEF KeptInv, NoneLost, InHand
<1> QED BY HeartBegins, HeartSteps, StageInit, StageStep, PlaceInit, PlaceStep, KeptInit, KeptStep,
           <1>1, PTL DEF ServerSpec

-----------------------------------------------------------------------------
(* The bisection.  The first call settles whether the upper end is         *)
(* permitted; from then on it is not, and the lower end is, when it is not *)
(* the one the search began with.  Without privilege the first limit that  *)
(* is set is the last, for it lowers the hard limit as well.               *)

Most == IF kernel.privileged THEN kernel.open ELSE kernel.hard
Best == IF Most < Wanted THEN Most ELSE Wanted

Searching ==
    /\ Low <= rlimit.left /\ rlimit.left <= rlimit.right /\ rlimit.right <= Wanted
    /\ kernel.privileged =>
         \/ rlimit.left = Low /\ rlimit.right = Wanted
         \/ rlimit.right > kernel.open /\ (rlimit.left = Low \/ rlimit.left <= kernel.open)
    /\ ~kernel.privileged =>
         \/ /\ rlimit.left = Low /\ rlimit.limit = kernel.hard
            /\ rlimit.right = Wanted \/ rlimit.right > kernel.hard
         \/ rlimit.limit = rlimit.left /\ 2 * (rlimit.left - Low) + 1 >= Best - Low

BisectInv ==
    Booted \/ /\ kernel \in Kernels
              /\ rlimit \in [limit : Nat, left : Nat, right : Nat, got : Nat]
              /\ rlimit.left \in {Low, rlimit.limit}
              /\ rlimit.got = 0 => Searching
              /\ LimitFound

LEMMA Halving ==
    /\ \A n \in Nat : n \div 2 \in Nat /\ 2 * (n \div 2) <= n /\ n <= 2 * (n \div 2) + 1
    /\ \A n, m \in Int : n <= 2 * m + 1 => n \div 2 <= m
    OBVIOUS

LEMMA BisectStep ==
    ASSUME Wanted # Low + 1, BisectInv, rlimit_try
    PROVE  BisectInv'
<1> DEFINE lim == rlimit.limit
           l == rlimit.left
           r == rlimit.right
           mid == (r - l) \div 2 + l
<1>1. /\ lim \in Nat /\ l \in Nat /\ r \in Nat /\ rlimit.got = 0
      /\ rlimit = [limit |-> lim, left |-> l, right |-> r, got |-> 0]
      /\ kernel \in Kernels /\ kernel' = kernel /\ l \in {Low, lim}
    BY DEF rlimit_try, BisectInv
<1>2. /\ kernel.open \in Nat /\ kernel.hard \in Nat /\ kernel.hard <= kernel.open
      /\ kernel.privileged \in BOOLEAN /\ Low \in Nat \ {0} /\ Wanted \in Nat /\ Low <= Wanted
    BY <1>1, LimitsAssumption DEF Kernels
<1>3. /\ Best \in Nat /\ Best <= Wanted /\ Best' = Best
      /\ kernel.privileged => Best = IF kernel.open < Wanted THEN kernel.open ELSE Wanted
      /\ ~kernel.privileged => Best = IF kernel.hard < Wanted THEN kernel.hard ELSE Wanted
    BY <1>1, <1>2 DEF Best, Most
<1>4. /\ Low <= l /\ l <= r /\ r <= Wanted
      /\ kernel.privileged =>
           \/ l = Low /\ r = Wanted
           \/ r > kernel.open /\ (l = Low \/ l <= kernel.open)
      /\ ~kernel.privileged =>
           \/ l = Low /\ lim = kernel.hard /\ (r = Wanted \/ r > kernel.hard)
           \/ lim = l /\ 2 * (l - Low) + 1 >= Best - Low
    BY DEF rlimit_try, BisectInv, Searching
(* The search has ended, or goes on.                                       *)
<1>5. ASSUME NEW m \in Nat, NEW left \in {Low, m}, NEW right \in Nat, NEW got \in {m, Low} \ {0},
             rlimit' = [limit |-> m, left |-> left, right |-> right, got |-> got],
             Best >= Low => IF kernel.privileged THEN got = Best ELSE Best - Low <= 2 * (got - Low) + 1
      PROVE  BisectInv'
  <2>1. Best - Low <= 2 * (got - Low) + 1 => (Best - Low) \div 2 <= got - Low
      BY <1>2, <1>3, Halving
  <2>2. LimitFound'
      BY <1>1, <1>2, <1>3, <1>5, <2>1 DEF LimitFound, Best, Most
  <2> QED BY <1>1, <1>2, <1>5, <2>2 DEF BisectInv
<1>6. ASSUME NEW m \in Nat, NEW left \in {Low, m}, NEW right \in Nat,
             rlimit' = [limit |-> m, left |-> left, right |-> right, got |-> 0],
             Low <= left, left <= right, right <= Wanted,
             kernel.privileged => right > kernel.open /\ (left = Low \/ left <= kernel.open),
             ~kernel.privileged =>
               \/ left = Low /\ m = kernel.hard /\ right > kernel.hard
               \/ m = left /\ 2 * (left - Low) + 1 >= Best - Low
      PROVE  BisectInv'
  <2>1. Searching'
      BY <1>1, <1>2, <1>3, <1>6 DEF Searching
  <2> QED BY <1>1, <1>2, <1>6, <2>1 DEF BisectInv, LimitFound
<1>7. CASE l \in {r, r - 1} /\ rlimit' = [rlimit EXCEPT !.got = l]
  <2>1. rlimit' = [limit |-> lim, left |-> l, right |-> r, got |-> l]
      BY <1>1, <1>7
  <2> HIDE DEF lim, l, r
  <2>2. Best >= Low => IF kernel.privileged THEN l = Best ELSE Best - Low <= 2 * (l - Low) + 1
      BY <1>1, <1>2, <1>3, <1>4, <1>7
  <2>3. l # 0
      BY <1>2, <1>4
  <2> QED BY <1>1, <1>5, <2>1, <2>2, <2>3
<1>8. CASE l \notin {r, r - 1}
  <2>1. /\ l < mid /\ mid < r /\ mid \in Nat /\ 2 * (mid - l) + 1 >= r - l
    <3> DEFINE n == r - l
               h == n \div 2
    <3>1. n \in Nat /\ n >= 2 /\ mid = h + l
        BY <1>1, <1>4, <1>8
    <3>2. h \in Nat /\ 2 * h <= n /\ n <= 2 * h + 1
        BY <3>1, Halving
    <3> HIDE DEF h, mid
    <3> QED BY <1>1, <3>1, <3>2
  <2>2. \A n \in Nat : Permits(n) <=> n <= kernel.open /\ (kernel.privileged \/ n <= lim)
      BY DEF Permits
  <2>3. CASE Permits(r) /\ rlimit' = [rlimit EXCEPT !.limit = r, !.got = r]
    <3>1. rlimit' = [limit |-> r, left |-> l, right |-> r, got |-> r]
        BY <1>1, <2>3
    <3> HIDE DEF lim, l, r
    <3>2. r = Wanted /\ l = Low /\ Best = r
        BY <1>1, <1>2, <1>3, <1>4, <1>8, <2>2, <2>3
    <3> QED BY <1>1, <1>2, <1>5, <3>1, <3>2
  <2>4. CASE /\ ~Permits(r) /\ Permits(mid)
             /\ rlimit' = [rlimit EXCEPT !.limit = mid, !.left = mid]
    <3>1. rlimit' = [limit |-> mid, left |-> mid, right |-> r, got |-> 0]
        BY <1>1, <2>4
    <3> HIDE DEF lim, l, r, mid
    <3>2. /\ kernel.privileged => r > kernel.open /\ mid <= kernel.open
          /\ ~kernel.privileged => 2 * (mid - Low) + 1 >= Best - Low
        BY <1>1, <1>2, <1>3, <1>4, <2>1, <2>2, <2>4
    <3> QED BY <1>1, <1>2, <1>4, <1>6, <2>1, <3>1, <3>2
  <2>5. CASE ~Permits(r) /\ ~Permits(mid) /\ rlimit' = [rlimit EXCEPT !.right = mid]
    <3>1. rlimit' = [limit |-> lim, left |-> l, right |-> mid, got |-> 0]
        BY <1>1, <2>5
    <3> HIDE DEF lim, l, r, mid
    <3> QED BY <1>1, <1>2, <1>3, <1>4, <1>6, <2>1, <2>2, <2>5, <3>1
  <2> QED BY <1>8, <2>3, <2>4, <2>5 DEF rlimit_try, NoneBetween
<1> QED BY <1>7, <1>8 DEF rlimit_try, NoneBetween

(* Whatever the kernel permits, and whether or not a hard limit can be     *)
(* raised again, rlimit_try ends with what LimitFound says.  Its upper end *)
(* is never one above the lower, for main asks for five files for each     *)
(* imp; it would not be tried then.                                        *)
THEOREM BisectionFinds == ASSUME Wanted # Low + 1 PROVE ServerSpec => []LimitFound
<1>1. ServerInit => BisectInv
    BY DEF ServerInit, BisectInv, Booted
<1>2. BisectInv /\ [ServerNext]_serverVars => BisectInv'
  <2> SUFFICES ASSUME BisectInv, [ServerNext]_serverVars PROVE BisectInv'
      OBVIOUS
  <2>1. CASE fork
    <3>1. PICK k \in Kernels : kernel' = k /\ rlimit' = [limit |-> k.hard, left |-> Low, right |-> Wanted, got |-> 0]
        BY <2>1 DEF fork
    <3>2. k.hard \in Nat /\ k.privileged \in BOOLEAN
        BY DEF Kernels
    <3>3. Searching'
        BY <3>1, <3>2, LimitsAssumption DEF Searching
    <3> QED BY <3>1, <3>2, <3>3, LimitsAssumption DEF BisectInv, LimitFound
  <2>2. CASE rlimit_try
      BY <2>2, BisectStep
  <2>3. CASE rlimit_init \/ SignalEarly \/ HeartEnds
      BY <2>3 DEF rlimit_init, SignalEarly, HeartEnds, BisectInv, Booted
  <2>4. CASE UNCHANGED limits
      BY <2>4 DEF limits, BisectInv, Booted, Searching, Best, Most, LimitFound
  <2> QED BY <2>1, <2>2, <2>3, <2>4
          DEF ServerNext, Keeper, ForkFails, waitpid, SignalKeeper, Heart, serverVars
<1>3. BisectInv => LimitFound
    BY DEF BisectInv, Booted, NoTry, LimitFound
<1> QED BY <1>1, <1>2, <1>3, PTL DEF ServerSpec
=============================================================================
