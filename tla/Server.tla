------------------------------- MODULE Server -------------------------------
(***************************************************************************)
(* The two processes of main.c: the "Dungeon Keeper", which forks a        *)
(* "Dungeon Heart" and waits for it in a loop, and the heart, which        *)
(* bisects for the number of files it may open (rlimit_try) and then is a  *)
(* Daemon.  Daemon's variables are the memory of the heart; it is gone     *)
(* when the heart has ended, and another starts from nothing.              *)
(*                                                                         *)
(* Signals that a process ignores, and a waitpid that EINTR makes the      *)
(* keeper repeat, change nothing and are left out.                         *)
(***************************************************************************)
EXTENDS Daemon

CONSTANTS
    Pids,           \* the process ids a heart may get
    NoPid,
    Low,            \* the lower end of the bisection, 1024
    Wanted,         \* its upper end, conf_get_concurrent_max() * 5 + 1024
    MaxLimit        \* the largest limit a kernel is tried with

ASSUME LimitsAssumption == Low \in Nat \ {0} /\ Wanted \in Nat /\ Low <= Wanted /\ MaxLimit \in Nat
ASSUME KeeperAssumption == IsFiniteSet(Pids) /\ NoPid \notin Pids

VARIABLES
    keeper,     \* "fork", "wait", "lost" (waits for no child), "crash"
    pid,        \* the child it waits for
    heart,      \* heart[p]: "none", "live" or "zombie"
    kernel,     \* what setrlimit goes by: fs.nr_open, the hard limit the heart
                \* starts with, its privilege
    rlimit      \* RLIMIT_NOFILE of the heart, the arguments of rlimit_try
                \* and what it has returned, or 0

keeperVars == <<keeper, pid, heart>>
limits == <<kernel, rlimit>>
serverVars == <<vars, keeperVars, limits>>

Live == {p \in Pids : heart[p] = "live"}

Kernels == {k \in [open : 1 .. MaxLimit, hard : 1 .. MaxLimit, privileged : BOOLEAN] :
              k.hard <= k.open}
(* Outside of the bisection neither matters.                               *)
AnyKernel == [open |-> 0, hard |-> 0, privileged |-> FALSE]
NoTry == [limit |-> 0, left |-> 0, right |-> 0, got |-> 0]
Booted == rlimit = NoTry

ServerInit ==
    /\ Init
    /\ keeper = "fork" /\ pid = NoPid
    /\ heart = [p \in Pids |-> "none"]
    /\ kernel = AnyKernel /\ rlimit = NoTry

-----------------------------------------------------------------------------
(* The keeper.                                                             *)

Free == {p \in Pids : heart[p] = "none"}

(* Which of the free process ids the child gets makes no difference.       *)
fork ==
    /\ keeper = "fork" /\ Free # {}
    /\ keeper' = "wait" /\ pid' = CHOOSE p \in Free : TRUE
    /\ heart' = [heart EXCEPT ![pid'] = "live"]
    /\ kernel' \in Kernels
    /\ rlimit' = [limit |-> kernel'.hard, left |-> Low, right |-> Wanted, got |-> 0]
    /\ UNCHANGED vars

(* The keeper passes the -1 to waitpid, which waits for any child; there   *)
(* is none, and the loop around waitpid repeats it for ever.               *)
ForkFails ==
    /\ keeper = "fork"
    /\ keeper' = "lost" /\ pid' = NoPid
    /\ UNCHANGED <<vars, heart, limits>>

(* The result of waitpid is not looked at, or the loop is left only by a   *)
(* signal.                                                                 *)
waitpid_Hasty_Bug ==
    /\ keeper = "wait"
    /\ keeper' = "fork" /\ pid' = NoPid
    /\ heart' = [heart EXCEPT ![pid] = IF @ = "zombie" THEN "none" ELSE @]
    /\ UNCHANGED <<vars, limits>>
waitpid_Once_Bug ==
    /\ keeper = "wait" /\ heart[pid] = "zombie"
    /\ heart' = [heart EXCEPT ![pid] = "none"]
    /\ UNCHANGED <<vars, keeper, pid, limits>>

waitpid ==
    /\ keeper = "wait" /\ heart[pid] = "zombie"
    /\ keeper' = "fork" /\ pid' = NoPid
    /\ heart' = [heart EXCEPT ![pid] = "none"]
    /\ UNCHANGED <<vars, limits>>

(* daemon_exit in the keeper calls dungeon_delete, which has no threads    *)
(* to cancel and no heart to empty.                                        *)
SignalKeeper ==
    /\ keeper # "crash"
    /\ keeper' = "crash"
    /\ UNCHANGED <<vars, pid, heart, limits>>

Keeper == fork \/ ForkFails \/ waitpid

-----------------------------------------------------------------------------
(* The heart.                                                              *)

(* What setrlimit answers, when rlim_cur and rlim_max are to be n.  Once   *)
(* lowered, rlim_max is not raised again without privilege.                *)
Permits(n) == n <= kernel.open /\ (kernel.privileged \/ n <= rlimit.limit)

(* The call that ends the bisection trusts the upper end.                  *)
NoneBetween_Bug(l, r) == l \in {r, r - 1} /\ rlimit' = [rlimit EXCEPT !.got = r]
NoneBetween(l, r) == l \in {r, r - 1} /\ rlimit' = [rlimit EXCEPT !.got = l]

(* One call of rlimit_try, up to the call in its tail.                     *)
rlimit_try ==
    LET l == rlimit.left r == rlimit.right mid == (r - l) \div 2 + l IN
    /\ Live # {} /\ ~Booted /\ rlimit.got = 0 /\ main = "heart"
    /\ \/ NoneBetween(l, r)
       \/ /\ l \notin {r, r - 1} /\ Permits(r)
          /\ rlimit' = [rlimit EXCEPT !.limit = r, !.got = r]
       \/ /\ l \notin {r, r - 1} /\ ~Permits(r) /\ Permits(mid)
          /\ rlimit' = [rlimit EXCEPT !.limit = mid, !.left = mid]
       \/ /\ l \notin {r, r - 1} /\ ~Permits(r) /\ ~Permits(mid)
          /\ rlimit' = [rlimit EXCEPT !.right = mid]
    /\ UNCHANGED <<vars, keeperVars, kernel>>

(* rlimit_init returns and dungeon_init is called.                         *)
rlimit_init ==
    /\ Live # {} /\ rlimit.got # 0
    /\ kernel' = AnyKernel /\ rlimit' = NoTry
    /\ UNCHANGED <<vars, keeperVars>>

(* A step of the heart; signals reach it during the bisection as well.     *)
Heart(A) == Live # {} /\ Booted /\ A /\ UNCHANGED <<keeperVars, limits>>
SignalEarly ==
    /\ Live # {} /\ ~Booted /\ Signal
    /\ kernel' = AnyKernel /\ rlimit' = NoTry
    /\ UNCHANGED keeperVars

(* The process is over, at its own exit or abort or killed from outside,   *)
(* and its memory is gone.                                                 *)
HeartEnds ==
    /\ \E p \in Live : heart' = [heart EXCEPT ![p] = "zombie"]
    /\ kernel' = AnyKernel /\ rlimit' = NoTry
    /\ main' = "heart" /\ holds' = {} /\ up' = {} /\ room' = [l \in Listeners |-> "untried"]
    /\ pc' = [t \in Threads |-> "unborn"] /\ cancel' = {}
    /\ worker_quit' = FALSE /\ thread_quit_mark' = FALSE /\ pending_event' = FALSE
    /\ mem' = [i \in Imps |-> "none"] /\ cur' = [w \in Workers |-> NoImp]
    /\ asleep' = {} /\ batch' = {}
    /\ run_queue' = <<>> /\ terminated_queue' = <<>>
    /\ UNCHANGED <<keeper, pid>>

-----------------------------------------------------------------------------

ServerNext ==
    \/ Keeper \/ SignalKeeper
    \/ rlimit_try \/ rlimit_init \/ SignalEarly \/ Heart(Next) \/ HeartEnds

ServerSpec == ServerInit /\ [][ServerNext]_serverVars

(* Both processes run, and so does every thread; accept need not return,   *)
(* but a cancelled monitor comes to a cancellation point.  Nothing is      *)
(* assumed of what signals or kills a process.                             *)
Fairness ==
    /\ WF_serverVars(Keeper)
    /\ WF_serverVars(main \in Ended /\ HeartEnds)
    /\ WF_serverVars(Heart(dungeon_delete)) /\ WF_serverVars(Heart(MonitorCancelled))
    /\ \A w \in Workers : WF_serverVars(Heart(Worker(w)))
    /\ WF_serverVars(Heart(Epoller)) /\ WF_serverVars(Heart(Maintainer))

FairSpec == ServerSpec /\ Fairness

-----------------------------------------------------------------------------

ServerTypeOK ==
    /\ TypeOK
    /\ keeper \in {"fork", "wait", "lost", "crash"} /\ pid \in Pids \cup {NoPid}
    /\ heart \in [Pids -> {"none", "live", "zombie"}]
    /\ kernel \in Kernels \cup {AnyKernel}
    /\ rlimit \in [limit : Nat, left : Nat, right : Nat, got : Nat]

(* The keeper makes a heart only when it has seen the last one end: two    *)
(* never run side by side, on the same addresses.                          *)
OneHeart == \A p, q \in Live : p = q

(* rlimit_init reports the limit in effect, or the lower end it started    *)
(* from when nothing was set.  With privilege it finds the largest limit   *)
(* the kernel permits; without, its first success cannot be taken back,    *)
(* and it finds at least half of what lies above the lower end.            *)
LimitFound ==
    rlimit.got # 0 =>
        LET most == IF kernel.privileged THEN kernel.open ELSE kernel.hard
            best == IF most < Wanted THEN most ELSE Wanted
        IN  /\ rlimit.got \in {rlimit.limit, Low}
            /\ best >= Low =>
                 IF kernel.privileged THEN rlimit.got = best
                                      ELSE rlimit.got - Low >= (best - Low) \div 2

(* dungeon_delete returns: no join in it waits for a thread that is not    *)
(* going to end, whatever that thread was at when the signal came, unless  *)
(* it came while main held the lock of the run queue or of the rooms.      *)
ShutdownEnds == main \in DeleteSteps /\ holds = {} ~> main \in Ended \/ Live = {}

(* main.c, of the keeper: "Dungeon heart broken! Create again!"  When a    *)
(* heart has ended, by itself or not, the keeper makes another, unless a   *)
(* signal has ended it or fork has failed, after which it waits for ever.  *)
HeartComesBack ==
    (main \in Ended \/ \E p \in Pids : heart[p] = "zombie")
        ~> (Live # {} /\ main = "heart") \/ keeper \in {"crash", "lost"}
=============================================================================
